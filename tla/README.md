# A verification project for the IAM Core Go SDK

TLA+ models of the stateful parts of `iam-core-sdk-go`, the runs of TLC that check
them on small instances, and proofs checked by TLAPS for instances of any size.
Paths are relative to the repository, shown as `src/`.

## 1. The system

The SDK is linked into an application server. Its stateful core is the BFF
(`src/runtime/bff`): a browser holds a cookie with a random session identifier; the
tokens stay in a session on the server; every authenticated request resolves its
session, which renews the tokens when they are about to expire and slides the idle
deadline. Many requests of one browser run at once, in one process or in several, and
IAM, the identity provider, may hand out refresh tokens that work only once.

| Component | State | Operations | What is hard | What makes it correct |
|---|---|---|---|---|
| Memory session store (`runtime/bff/session/memory`) | maps of flows, sessions, leases; last fence; one mutex | `Create`, `Get`, `CompareAndSwap`, `Delete`, `AcquireRefreshLease`, the leased variants, `Release`, flows | stale versions, stale leases, reuse of an identifier, expiry met lazily, an acquisition that drops the mutex half way | versions replace in sequence; one holder per lease; a lost lease stays lost; a session takes its lease along |
| Redis adapter (`runtime/adapters/redis`) | the same in Redis, per-session fence and generation | the same, as WATCH transactions | other clients between read and EXEC, two clocks, lost replies | the same contract |
| Session resolution and refresh (`refresh.go`, `session_resolver.go`) | what one request has read; the lease it holds | `ResolveSession`, `refreshSession`, `waitForRefreshWinner`, `deleteInvalidGrantSession`, `touchSession` | races of refreshes, touches and logouts; lost answers; cancellation; expiring leases | tokens move forward only; only a dead session is purged; no lease left behind; every request is answered |
| Logout (`logout.go`, `frontchannel_logout.go`) | none | local, front-channel, central, global | tokens read before the deletion; racing commits | a session that was logged out stays out |
| Login and callback (`login.go`, `callback.go`, `oauth.go`) | flows in the backend | start a flow, consume it, exchange the code, create the session | double submission, expiry, cookie mix-ups | one flow, one exchange, one session |
| JWKS cache (`runtime/core/jwks.go`) | keys, the fetch in flight, last refresh | verify with cached keys, fetch once | single flight, throttle, cancellation | an unknown key is looked for, once |
| HTTP authorization (`runtime/httpauthz`) | per-request binding | authenticate, require | order of steps, conflicting credentials | one decision before anything runs, fail closed |
| HTTP catalog (`runtime/httpcatalog`) | routes and their version, readiness, fence | `Register`, `Sync`, `HeartbeatOnce`, `RunHeartbeat`, `Check` | late answers, change during a call, fenced releases | ready means this manifest is accepted; a fence sticks |
| Gin adapter (`runtime/adapters/gin`) | none | bridge a middleware, end a chain | Gin goes on after a handler that simply returns | a refusal aborts, an admission does not |
| Management clients (`management`) | none; IAM keeps revisions and idempotency keys | one request per call | answers lost or late, what net/http repeats by itself | what the caller is told of a write is true |
| Discovery, verification, scopes, naming, handoff, test kit | none after start | pure checks, one request | string and claim rules | — |

Interaction: handlers call `ResolveSession` and the logouts; these call the backend
(shared state, by any number of goroutines and processes) and IAM (HTTP with a
timeout); the backend calls nobody. `httpauthz` calls `ResolveSession` for the session
credential and the decision point for the decision.

## 2. Modules

| Module | What it is |
|---|---|
| `MemoryStore` | the memory backend: state, and one operator per method |
| `StoreClients` | the backend under its most general callers, with its properties |
| `SessionContract` | what `session.Backend` promises, without clock, clean-up or mutex |
| `MCStoreClients` | instance for TLC |
| `StoreClientsProofs` | the inductive invariant of `StoreClients` and its theorems; `StoreClients` implements `SessionContract` |
| `RefreshProtocol` | requests of one session: resolve, refresh, wait, touch, purge, logouts; IAM as environment |
| `MCRefreshProtocol` | instances for TLC |
| `RefreshProtocolProofs` | rely, guarantee and the inductive invariant of `RefreshProtocol`, and its theorems |
| `FlowStore` | the login flows of the memory backend, one operator per method |
| `LoginFlow` | logins and callbacks of several browsers; IAM's authorization and token endpoints as environment |
| `MCLoginFlow` | instance for TLC |
| `LoginFlowProofs` | the inductive invariant of `LoginFlow` and its theorems |
| `RedisStore`, `MCRedisStore` | the Redis backend as WATCH transactions of several processes; the second implementation of `SessionContract` |
| `RedisStoreProofs` | the inductive invariant of `RedisStore` and its theorems; `RedisStore` implements `SessionContract` |
| `JwksCache`, `MCJwksCache` | verifications, the shared fetch and the throttle; key rotation and outages as environment |
| `JwksCacheProofs` | the inductive invariant of `JwksCache` and its theorems |
| `HttpAuthz`, `MCHttpAuthz` | one request through any chain of `Authenticate` and `Require`, on net/http and on Gin |
| `HttpAuthzProofs` | the inductive invariant of `HttpAuthz` and its theorems |
| `CatalogRegistry`, `MCCatalogRegistry` | one instance's registry, its calls and its heartbeat loop; IAM's generations as environment |
| `CatalogRegistryProofs` | the inductive invariant of `CatalogRegistry` and its theorems |
| `ManagementCalls`, `MCManagementCalls` | calls of the domain clients through the transport; the network and IAM as environment |
| `ManagementCallsProofs` | the inductive invariant of `ManagementCalls` and its theorems |

`StoreClients` extends `MemoryStore` and instantiates `SessionContract` with a
refinement map; `RedisStore` does the same with another map. `RefreshProtocol` instantiates `MemoryStore` for one identifier, with
tokens and times as the contents of a session: the protocol calls the very operators
that are proved to keep the contract. `LoginFlow` instantiates `FlowStore`; a session it
creates is where `RefreshProtocol` begins.

### The store

A method `m(args)` of the code is an operator `M(args, res)`, the action of a call that
returns `res`; its disjuncts are the returns of the method, in order. The mutex makes
each method one step, with one reading of the clock. `AcquireRefreshLease` unlocks in
order to draw the random owner and has two critical sections: `AcquireBegin`, which
only looks (and removes an expired session), and `AcquireEnd`, which looks again and
grants. Fence and owner of the code are one value, the fence: they are always compared
together. Versions and fences end at `MaxVersion` and `MaxFence`, in place of the
largest `uint64`. Copying of records is not modelled: a value of TLA+ is never aliased.

`StoreClients` puts no discipline on callers: any session a caller could build, with a
version next to any version, any handle ever returned, presented for any session.
`handles` and `writer` are history.

`SessionContract` says what callers may rely on. A session is visible or absent, a
lease has a holder or not, and time may take either away. The map hides what has
expired: `View` is the stored session while it is live, `Holder` the fence of a lease
in force on a live session. `due` is the third thing an implementation shows: the
sessions past their deadline that are still visible. It is empty for the memory backend,
which hides them; Redis keeps them until the server removes the key. There a new session
may take the place of a due one (`Open`), and a transaction that has read the session
before its deadline and reaches EXEC after it still writes or leases it, so `Replace`,
`FencedReplace` and `Grant` admit due sessions; `Renewed` says that what has been written
is due or not by its own deadline. `Holder` shows no holder where there is no session: a
lease record can outlive its session on Redis, by the same delay, and must not count for the
next session under the identifier (`HandlesLostForGood`, and `Open`, which starts with
nobody). `Close` and `Surrender` are open to anybody, as in the interface: who may use
them is the matter of `HandlesLostForGood` and of the refresh protocol.

### The Redis store

A method is a transaction of up to three steps: `CallCreate`, `CallSwap`, ... check the
arguments and compute the time to live on the caller's clock; `Read` is WATCH and the
reads, and ends the method when `Verdict`, the checks of the code in their order, says
that nothing is to be written; `Exec` is EXEC, which applies the writes if neither
key has been touched since, and is a conflict otherwise. `Touching` is what makes that
so: a write, and an expiry by the server too, marks every open transaction that watches
the session. A reply that is lost (the second branch of the last conjuncts of `Exec`) leaves the write in
place, so that a caller may not know that it holds a lease. `GiveUp` is every end of a
transaction without a write. `Delete` is one command and one step.

Times to live are set by the server when EXEC arrives, later than they were computed, so
`until` of a key may lie past the deadline of the session. The two ends of a session
(idle and absolute) are one deadline, the earlier. A process opens what is sealed with
one of its `Keys` and seals with its `Primary`. Owners and generations are random and
never repeat; the model numbers them.

### The refresh protocol

A request is a goroutine at a step (`pc`), with the session as it last read or wrote it
(`item`), the replacement it is about to store (`next`), its lease, its deadline and
the conflicts met. Each step is one backend call, one exchange, or one decision at one
reading of the clock:

    ResolveSession:  Load, Decide | refresh | AcceptRefreshed, Touch, Swap, TouchReload
    refreshSession:  Acquire, Recheck, DecideExchange, exchange, Verify, Commit, Reload,
                     ReleaseLease
    exchangeRefresh: IamGrants | IamRefuses | ExchangeFails
    purge:           Purge, PurgeReload
    wait:            WaitPoll, GiveUp
    logouts:         LocalLogout | LogoutRead, LogoutDelete, EndSession

`Fail` is an error return: with the lease held, it runs the deferred release. `Interrupt`
is a canceled request context or a failing call of the backend, at every step that looks at
either; the purge and the release run on a detached context, and have their own ways to
fail. A front-channel logout does to the session what a local one does. The tokens that a
central or global logout reads are not kept, since `EndSession` and IAM's answer to it go
either way whichever they are.

IAM is external. A refresh token it accepts gives a new access token and, or not, a new
refresh token, in which case the old one is used up; a token it does not accept is an
invalid grant. An exchange that fails leaves its token in `stray`: the call may reach
IAM later, or never. `IamRevokes` ends the grant at any time. Tokens are numbered by
the grant that made them. The acquisition is one step here, its deciding critical
section: the earlier one changes nothing but an expired session, which another step may
remove as well.

With `Remote` the backend is Redis, reached over a network and through keys that are
watched. Each call is still one step here, with every answer and effect that `RedisStore`
shows its transaction to have; what an EXEC delayed for long may do is the matter of
`RedisStore`. An acquisition may be refused because a touch, a release or an expiry
came in between (`AcquireCollides`), and the request waits for a winner there may not
be. A swap, a commit and a purge may conflict though the version is unchanged (`SwapCall`,
`CommitCall`, `PurgeCall`), and a commit takes the lease along (`WriteUnderLease`). A write
may be applied whose reply is lost (`DoneUnanswered`): the request then ends with an
error, and a granted lease is nobody's. The deferred release may be refused by a touch,
and `refreshSession` drops the error (`src/runtime/bff/refresh.go:54`). The fences of these
two kinds of lease are collected in `orphans`: nothing but their expiry ends them, and
`NoLeaseLeaked` says that nobody works under one and that every other lease in force has a
holder at work. Others wait for an orphan as for any lease, a lease's lifetime at the most.

The login is the initial state: identifiers are 32 random bytes and are not reused, so
nothing creates this session again.

### The login

A login and a callback are requests that arrive once each; a repeated callback is
another callback with the same URL. A login draws four random values (identifier, state,
nonce, PKCE verifier) together, so the login itself stands for them, and a code
stands for what IAM answers with. `Submit` offers the pairs of state and code that IAM has
redirected to, crossed between tabs and repeated: `callback.go` does not tie a code to a state by
itself, and leaves a code pasted to another state to IAM and PKCE. `BeginLogin` stores the flow; its reply, which may
be late or lost, sets the browser's one flow cookie and takes it to IAM
(`LoginReply`). IAM issues a code, or several for one login, or none (`IamAnswers`).
`Submit` is a callback with the cookie of that moment; then one step each:

    completeCallback: Consume, Check, Exchange, Verify, Create | GiveUp; CallbackReply

`Consume` comes before anything in the URL is looked at, so a callback that meets the
cookie of another tab uses up that tab's flow and fails; both tabs have to begin again.
So does a tab whose cookie the late reply of another callback clears. Nothing in the
repository promises otherwise, and nothing wrong is stored in these cases.

### The key cache

A verification (`calls[v]`) looks its key up under the lock (`Look`), and on a miss goes
to `remoteKeys`, whose ways out are an action each: `RemoteCanceled`, `Throttled`,
`StartFetch`, `JoinFetch`. `Serve` is the request of the fetch, `Land` the critical section
that stores its outcome and closes its channel; `Collect` and `StopsWaiting` are the
two ways a waiter's `select` can go. A key is its name; a token names a key, and is
`genuine` or not. Cached keys never expire by age, in the code as in the model: a
withdrawn key verifies until some unknown name causes a fetch. IAM publishes a name once;
it withdraws keys, but never all of them, and can be unreachable at any time. Two pieces of
history serve one property: `asked`, the keys that were published when the last fetch began
and still are, and `covered`, whether the key of a verification was among them when the
fetch it shared landed.

### HTTP authorization

`run` is where the request is: the layer (`pos`) and the step of that layer. The steps
of one layer are those of the code, with one call of a collaborator each:

    Enter (clear the header, check the method) -> Select
      -> VerifyBearer | IdentifyKey | ResolveSession -> Bound
      -> Ask | AskByKey -> IamDecides | IamFails -> Receive -> Conclude

`Refuse` is the responder, after which the layer returns; `PassOn` calls the next layer
or the handler. On net/http the chain unwinds (`Return`). On Gin, `Bridge` decides
whether the chain is aborted, and `GinLoop` is the loop of `gin.Context.Next`, which
would run what is left. Layers are mounted in any order, the compiled routes are bound
once each, and a request fits the method of some routes. `consulted` and `log` are
history and IAM's log. `Renew`, `End` and `Cancel` go on around the request, so that a
credential may be stale by the time it is decided about. The bodies of answers are their
kind of error; the event that reports a layer is left out. `ResolveSession` fails with any of
`SessionErrors`, the session being alive or not. One of them deserves a remark: when IAM's
token endpoint answers a refresh with 403 or `access_denied`
(`src/runtime/bff/oauth.go:289`), the request is answered 403 although no decision was
asked for; in a `Require` that answer has no decision header (`AnswerTellsDecision`).

### The catalog

`calls[c]` is a call of `Sync` or `HeartbeatOnce`: `read` (it has its manifest), `sent`,
`answered`, `record` (it has its outcome and has yet to take the mutex to record it). The
heartbeat loop is one more caller, and `loop` says where it is; its ticker and its
backoff are `LoopBeats`. Version, fence and hashes are those of `Registry`. A manifest is
the set of its routes; the hash of a set is the set. IAM takes the first manifest of a
generation and the same again, refuses others, projects what it has anew at any time
(`IamReprojects`), and is taken over by a newer deployment (`Supersede`), after which this
instance's calls are conflicts.

### Management

An operation is its HTTP method, its guard (none, a revision that may be zero, a positive
revision, an idempotency key), whether it changes IAM and whether it expects data; the
eight sets of operations are the methods of the eight clients. `Begin` is the client's
check of its arguments, then `TakeToken`, `Send`, `Decode` are the transport's. Requests
travel in `wire`; a caller may give up and its request still be carried out. `Replay`
is net/http: it repeats a request on a connection that it has reused, when that is a GET
or carries an Idempotency-Key. `Outcome` is `decodeEnvelope`. Everything guarded by a
revision is one object of IAM, which is what makes writers conflict.

## 3. What the runs check

| Run | Instance | What it shows |
|---|---|---|
| `store` | 2 sessions, 2 overlapping acquisitions, versions and fences up to 2, clock 0..3, leases of 1, deadlines before and after the end of the clock | type correctness; `LeaseGuardsSession`; `HandlesMatch`; `HandlesLostForGood` (fencing); `ImplementsContract` (refinement) |
| `refresh_race` | Redis; 3 resolving requests, versions up to 4, 2 fences, 3 grants, leases of 1 | `NoResurrection`, `TokensNeverGoBack`, `IdleSlidesWithinLifetime`, `PurgeSparesTheLiving`, `AnswersAreCommitted`, `NoLeaseLeaked`, `WaitOutlastsLease` |
| `refresh_logout` | Redis; 2 resolving requests and one logout of each kind | `LogoutIsFinal` |
| `refresh_live` | Redis; 2 resolving requests and a logout, under fairness | `EveryRequestIsAnswered` |
| `login` | 2 browsers, 2 logins, 2 callbacks, 2 codes, clock 0..2, flows good for 1 | type correctness; `OneSessionPerLogin`; `CodeExchangedOnce`; `SessionFromOwnLogin` |
| `refresh_commit` | the memory backend; 2 resolving requests | a counterexample to `LeaseProtectsCommit`, see 5 |
| `redis` | 2 processes in the middle of a key rotation, 1 session, 2 versions, 2 fences, 4 random values, clock 0..2 | type correctness; `NotForgottenEarly`; `HandlesLostForGood` across generations; `UnreadableIsKept`; `ImplementsContract` (refinement) |
| `jwks` | 2 verifications, a key and its successor, an interval of 1 | `RejectedOnEvidence`; `OnlyOwnCancellation`; `KeyInForceIsKept`; `EveryVerificationEnds` and `KeyGetsKnown` under fairness |
| `catalog` | 2 routes, one caller and the loop, 3 attempts, 2 projections | type correctness; `ReadyIsAccepted`; `SupersededIsNoticed` and `LostLoopEnds` under fairness |
| `httpauthz` | 2 routes, up to 3 layers, both routers, every credential | type correctness; `HandlerIsAuthorized`; `NoFallback`; `AnswerTellsDecision`; `RequestIsAnswered` under fairness |
| `management` | 2 managers, 2 calls, any operations, 2 sends | type correctness; `OutcomeIsTrue` |
| `management_once` | the same | a counterexample to `OneRequest`, see 5 |

Bounds. Two sessions let a handle be presented for the wrong one; two callers are what
an overlap of acquisitions needs; two fences and two versions reach exhaustion as well
as succession, reuse and conflict; the theorems of section 4 do not depend on them. In
the refresh runs three requests are a holder, a rival and a bystander who touches, and
every error return, lost and failed calls of the remote backend, both retry limits (`MaxTouch` and `MaxPurge` are 2 instead of 4, so
that they are reached) and the exhaustion of versions and fences occur. `LastArrival`
bounds the time at which requests begin; after it the clock runs only while somebody
waits, so that it reaches every deadline. `Horizon` is large enough never to stop it
(`ProtocolAssumption`). Lifetimes are of one or a few ticks, so that each deadline falls
before, on and after every step.

In `login`, two of each are what its properties, which are about pairs of
callbacks, logins or browsers, need to fail; flows expire before, at and after their
callback. Its theorems hold for any number.

In `redis` two processes are what a collision and a rotation need, and four random
values what a session, its lease, its successor and the successor's lease need, so
that a handle of the one can meet the other. In `jwks` the second verification joins, gives
up or outlives the first one's fetch, and the successor key comes and goes. In
`catalog` the loop crosses a caller's call and both cross registrations; all three
attempts are reached. In `httpauthz` three layers put an `Authenticate` before, between and
after two `Require`s. In `management` one operation may be any other's rival or its
repetition with the same key; more calls add no kind of pair.

Symmetry is used in runs without liveness, over identifiers and callers, over the
resolving requests, and over everything the login names. Deadlock is not checked where
the system stops: a finite number of requests ends, and in the stores the versions,
fences and clock run out; liveness properties find what is stuck. In `jwks` and
`catalog` it is checked: there is always something to do.

Fairness (`FairSpec`): each request's next step is weakly fair, because goroutines are
scheduled, the mutex is handed on, and each HTTP call ends by its timeout
(`tokenTimeout`, `userInfoTimeout`, `endSessionTimeout`), in `ExchangeFails` at the
latest; and the clock is weakly fair while somebody waits for it. Nothing is assumed of
arrivals, cancellations, IAM's goodwill or stray calls. In `jwks` each verification,
the fetch (bounded by `JWKSTimeout`, with a context of its own) and the clock are weakly
fair; `KeyGetsKnown` adds, as its premise, that IAM can be reached from some time on. In
`catalog` every call that has begun goes on, because its request is bounded by the client's
timeout, and the ticker fires; nothing is assumed of IAM's answers, which may all fail. In
`httpauthz` the goroutine of the request runs, and verifier, resolver and both calls of
IAM are bounded by timeouts.

In the branch of `deleteInvalidGrantSession` that finds another refresh token after a
conflict (`src/runtime/bff/refresh.go:129`) the runs never arrive: a conflict means the
lease was still valid, so only touches have come in between. The comparison is a second
line of defence.

## 4. What is proved

For every number of sessions, callers, versions, fences, and any payloads, deadlines
and lease duration, from `StoreAssumption` and `ClientAssumption` (constants have their
types, at least one version and one fence, and null values differ from records):

* `TypeCorrect`, `LeasesGuardSessions`, `HandlesAreUnique`: the invariants.
  `Inv`, their conjunction, is inductive. Neither part about handles is inductive
  alone: that a fence is new needs that no handle is ahead of `nextFence`; that a
  stored lease is some caller's needs the records' types. Every step other than a grant
  is `Tame`: it leaves the fences alone and at most takes lease records away; four
  lemmas show this for the ways of leaving the store, one lemma per call follows, and
  `GrantStep` deals with the grant.
* `Fencing`: a handle that is no longer valid never is again. A tame step can only
  remove the record it would have to match, time only moves on, and a grant writes a
  fence greater than those of all handles.
* `Refinement`: the backend implements `SessionContract`. One lemma for each effect on
  the mapped variables (nothing, removal, swap, creation, grant, release, time), one
  for each call, and the temporal step.

For every number of browsers, logins, callbacks and codes, from `LoginAssumption`:

* `LoginTypeCorrect`, `LoginsMakeOneSession`, `CodesGoOnce`, `SessionsStayHome`. A flow
  enters the store once, with its login, and `Consume` takes it out for one callback
  (`HeldInv`); a session and an exchange belong to a callback that holds a flow
  (`StepInv`), and the state ties the code to that flow (`CodeInv`); a flow cookie names
  a login of its own browser (`CookieInv`). `LoginTypeCorrect` includes `GoesOnWithFlow`: what
  a callback does after `Consume` it does with a flow that it has consumed. None of these is inductive without the
  others.

For every number of verifications, keys and any interval, from `JwksAssumption`:

* `RejectionsAreFounded`, `KeysInForceStay`, `CancellationIsOnesOwn`. What a fetch brings is
  what was published when it was served; a key is published once, so whatever is both
  cached and still published at its landing was in it, and so was whatever was
  published when it began and still is (`CacheInv`). That is false of a
  fetch that failed, which is why its landing must leave the cache alone. A waiter whose
  key was covered by the fetch therefore got the key, unless IAM has withdrawn it since
  (`LandedInv`); and where the throttle answers from a fetch that has not failed, what
  it was to find is in the cache. A verification
  has no verdict before it ends (`VerdictInv`), so a cancellation is told in one of the
  two steps that look at one's own context.

For every manifest and any chain of layers, from `HttpAuthzAssumption`:

* `AuthzTypeCorrect`, `HandlersAreAuthorized`, `OneCredential`, `AnswersTellDecisions`.
  `WalkInv` follows the request: inside a layer nothing has been written, and every
  `Require` passed has had exactly one allowing decision. `LogInv` says that the
  present layer has no decision until IAM has made it, and then the last one, for the
  credential that is bound (`CredentialInv`). `AuthzTypeCorrect` includes `NamesMade`: the
  header and the context name only decisions that are in IAM's log. `AnswerInv` carries the cleared header
  from `Enter` to the refusal. Without `WalkInv` the others are not inductive at the
  handler; without `LogInv` a layer might be passed on the decision of another.

For every set of routes, number of callers, attempts and projections, from
`CatalogAssumption`:

* `CatalogTypeCorrect`, `ReadyMeansAccepted`. The version that a call carries vouches
  for its manifest as long as it is the registry's (`Sound`): registering a route makes a
  new version and so silences every call under way; and an answer without an error
  means that IAM has accepted the manifest.

For every number of resolvers and logouts (finitely many resolvers, because a waiter's
deadline is to lie within the clock's bound), any lifetimes and retry limits, from
`ProtocolAssumption`:

* `GoneForGood`, `NoTokenRollback`, `IdleSlides`: what a step may do to the session;
  `LogoutHolds`, `PurgesAreDeserved`: when it may go;
  `TypeCorrect`, `OnlyCommittedAnswers`, `LeasesAreReleased`, `WaitsLongEnough`: what a
  request may do and hold. The argument is by rely and guarantee. `Rely` says what no
  step of anybody does: a session that is gone does not come back, a version that is
  replaced grows and its tokens do not go back, fences and the clock only grow.
  `RequestInv` says what one request knows, however stale: the session it has read was
  stored once, and has the stored content if it has the stored version (`Known`), so that
  a write that passes the version check replaces what the request has seen; what it is
  about to store keeps all but the tokens, or all but the time of use (`NextInv`); a
  refused token stays refused. Every action keeps `Rely` and its own
  request's `RequestInv`; that `Rely` alone keeps all the others' is shown once, for all
  actions, and so no pair of actions is ever looked at. `TypeCorrect` includes
  `WithinRetries`: in a retry loop fewer conflicts have been met than its limit.
* `ExclusiveRefresh`: `RefreshIsExclusive`, which no run checks. Two requests never have
  the same fence, and none has that of an orphan (`OrphansApart`, which `LeasesAreReleased`
  needs too), hence a lease in force has one holder; and from its recheck to its
  commit the stored tokens are those it has read, because touches leave the tokens alone
  and a commit needs the lease. That is what the lease does give, beside the finding
  on what it does not (section 5).

For every number of processes, sessions, keys and random values, any deadlines and
payloads, from `RedisAssumption`:

* `TypeCorrect`, `KeptUntilDeadline`, `OnlyReadersReplace`. A transaction decides on what
  it has read and writes one exchange later. `ReadInv` is what it has decided upon, and
  holds as long as the transaction is clean; every write to a watched key, and every
  expiry, takes clean away. `CallInv` carries the time to live: computed earlier, it
  reaches the deadline all the more when it counts from now.
* `FencesHold`: an owner is drawn once and granted once, so a record that has been
  removed never matches its handle again, in this generation or the next, even when the
  reply that would have told its holder was lost.
* `Refinement`: as for the memory backend, with `due` for what has passed its deadline
  and is still there. `Contract!Next` is reached or stuttered in every step, the
  read that ends a method and the EXEC with a lost reply included.

For every number of managers and calls, from `ManagementAssumption`:

* `TypeCorrect`, `TrueOutcomes`. `Says` is what an outcome claims about the write:
  an answer makes the claim true when IAM gives it, and no later step of anybody makes
  it false. The danger is the copy that is still under way when the caller is
  told: only what carries a key is sent again, and IAM knows that key by then
  (`WireInv`). No call is carried out twice (`Single`); the revision has not passed the
  number of calls that were carried out (`Spent`), which is the hard part of
  `TypeCorrect`.

Only model-checked: the liveness properties (`EveryRequestIsAnswered`,
`EveryVerificationEnds`, `KeyGetsKnown`, `SupersededIsNoticed`, `LostLoopEnds`,
`RequestIsAnswered`), as liveness under fairness and `ENABLED` are out of the prover's
reach, and the two counterexamples of section 5. Every invariant and every action
property of the passing runs is a theorem.

## 5. Findings

**A touch can cost a commit** (`refresh_commit`). The lease keeps other refreshes out, but `touchSession` stores `LastSeenAt` with a plain
`CompareAndSwap` and takes no lease. In the counterexample of `refresh_commit`, r1 has read
the session just before the refresh window opens; r2 enters the window, takes the lease
and reads the session; r1's touch advances the version; r2 renews the tokens at IAM and
its commit answers `ErrConflict` under a valid lease. The reload finds the tokens
unchanged, r2 fails, and the rotated refresh token is lost: the next refresh meets
`invalid_grant` and purges the session. Nothing failed, and the user is signed out. The
purge retries over exactly this conflict
(`TestInvalidGrantRetriesFencedDeleteAfterLastSeenConflict`), the commit does not, while
the README promises that the lease protects "refresh 原子提交" (the atomic commit of a
refresh).

The runs also show what the code does get right in that case: the request answers with
an error rather than with tokens that are not stored, and the lease is released.

**One call, two requests** (`management_once`). `Do` "validates and executes exactly one
authenticated management API request" (`src/management/client/transport.go:18`). It hands the request to
`http.Client.Do`, and the standard transport sends a GET, or any request with an
`Idempotency-Key` header, a second time by itself when a connection that it has reused
breaks before the answer; `Do` sets that header for the creation of a credential. In
the counterexample one call of a read is sent twice. Nothing is done twice by an IAM that
honours the key: `OutcomeIsTrue` holds in `management`, with the repeats.

## 6. Not modelled, and plan

Not modelled for good: cryptography, JWT and claim rules, cookie and URL handling,
the encodings of Redis records, forms of documents, discovery, the hand-off client,
the naming rules, the test kit, examples. They are sequential and stateless, and string
handling is what unit tests are good at. The login flows of Redis (one `SET NX`, one
`GETDEL`) are single commands of the server; `FlowStore` has their meaning.

Planned: `ScopeRules`, the reconciliation of scopes and groups as operators, against a
reference definition over all small inputs.
