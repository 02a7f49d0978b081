# Formal model of qm-agentd

`qm-agentd` is a sidecar: it proves a workload's identity to a Quartermaster
service, exchanges that proof for credentials (a bearer token and, with CSRs
enabled, a certificate and its private key) and serves them to the workload over
local HTTP. This directory holds TLA+ modules for it, TLC configurations that
check them on small instances and TLAPS proofs of the main safety properties.

Run everything from this directory:

    tlc -config Daemon_subscriptions.cfg MCDaemon.tla
    tlapm DaemonProofs.tla

and likewise for the others: `X_*.cfg` is for the module `MCX.tla`, or `X.tla`
where there is none.

## 1. The system

| Part | Source | State | Operations |
|---|---|---|---|
| refresh | `internal/daemon/daemon.go`, `billets.go` | `d.available`, `d.credentials`, `d.manifest`, `d.keys`, per refresh its locals | `Run`'s loop, `refresh`, `refreshAutoBillets`, `refreshSubscriptions`, `exchangeBillets`, `credentialFromResponse`, `createCSR`, `keyPEM`, `timeUntilRefresh` |
| subscription API | `internal/daemon/server.go`, `subscription.go` | `d.subscriptions` (id to a pointer) and the `subscription` objects | `POST /subscriptions`, `DELETE /subscriptions/{id}`, `triggerRefresh` |
| credential reads | `internal/daemon/server.go`, `store.go` | none | `GET` of the manifest, of subscriptions, of tokens, certificates and keys |
| names and paths | `internal/daemon/paths.go`, `subscription.go`, `billets.go` | none (pure) | `sanitizeBilletName`, `normalizeBillets`, `subscriptionID`, `unionDiscoveredBillets` |
| process lifecycle | `cmd/qm-agentd/main.go`, `Daemon.New`, `Daemon.Run` | the process, its HTTP server, its context | start, first refresh, signal, shutdown |
| configuration | `internal/config/config.go` | none after loading | defaults, validation |
| identity sources | `internal/identity/*.go` | the SPIRE source's connection | `Credential`, `TLSConfig`, `Close` |
| Quartermaster client | `qmclient/api.go`, `errors.go`, `options.go` | none | `ExchangeToken`, `DiscoverBillets` |
| generated client | `qmclient/client.gen.go` | none | requests and parsing, generated from an OpenAPI document |
| API description | `internal/daemon/openapi.go`, `docs.html`, `agent.openapi.json` | none | static documents |

### How the parts interact

- `Run` does one refresh, then loops: sleep `timeUntilRefresh()`, refresh. The
  first refresh is fatal if it fails; later errors are logged.
- `POST /subscriptions` starts one more refresh in a goroutine of its own, on a
  context that does not end with the request. Nothing serialises refreshes: the
  loop and any number of triggered ones run at the same time.
- All of them share the daemon's maps under `d.mu`, but no refresh holds the lock
  while it calls out. Each goes through many short critical sections with network
  calls between them, and the handlers fit in between.
- `d.keys` is one map for two kinds of name: billets and subscription ids. The
  clean-up after the billet exchanges deletes from it, and so does `DELETE`.
- `refreshSubscriptions` copies pointers out of `d.subscriptions`, and writes
  through them after the exchange, when the map may say something else.

### What is hard here, and what makes each part correct

- *Keys.* The CSR is signed with the key `d.keys` holds before the exchange, and
  the key that is served is looked up again after it. The answer may bring a
  certificate or none; one that comes, and the key served next to it, must belong
  together (`SubscriptionKeyPaired`,
  `BilletKeyPaired`), and stay so between a client's two requests
  (`KeyKeptWhileSubscribed`). No key may stay behind for an id that is gone
  (`KeysOwned`).
- *Identity of a subscription.* Ids are computed from sanitized names, so two
  different requests may share one; and an id may be deleted and reused while an
  exchange for its former owner is on its way. What a subscription serves must be
  its own (`ServesOwnToken`).
- *Overlapping refreshes.* The one that discovered first may write last. The
  daemon must end up with what the workload is entitled to (`Converges`), serve
  nothing that was revoked (`RevokedWithdrawn`), and report a reason that is true
  (`WaitingIsCurrent`).
- *Failures.* Each of three calls per exchange may fail, or return nil without an
  error. A later failure must not end the process (`RunsUntilCancelled`), and an
  entitled subscription must become ready in the end
  (`SubscriptionBecomesReady`).
- *Time.* The wait is computed once per loop, from the tokens of that moment,
  and a triggered refresh may replace them while the loop sleeps. No served token
  may have expired (`RenewedBeforeExpiry`), and a credential that is due must be
  tried again soon whatever fails (`DueIsTriedAgain`).
- *Unlocked reads.* The handlers of a subscription's token, certificate and key
  read it after they released the lock; one handler takes the read lock twice
  (`EntryIsSnapshot`, `ReadyIsFound`, `NobodyWaitsForever`).
- *Names.* Clients spell names as they like, and ids and paths are sanitized:
  one request must have one id (`OneIdPerRequest`), a subscription must be found
  where its answer says (`SubscriptionReachable`), and ids must not be ambiguous
  without need (`PlainRequestsOwnEntry`).
- *Start.* What one step of the start checks another one relies on
  (`NeverPanics`, `IdentityPresented`, `TokenTyped`), and what
  verifies the server is decided in more than one place (`CAFileOrBundle`).
- *Stop.* A signal may come at any moment (`SignalStops`), a later error may not
  end the process, and the exit code must tell one from the other
  (`ExitTellsWhy`, `SourceOpenForRun`).
- *Answers.* What the client makes of an answer is written down twice for each of
  seventeen operations (`ErrorIsSeen`, `ErrorExplained`, `NilOnlyWithoutJSON`),
  and no call may hang (`CallReturns`).

`PROJECT.json` lists each hazard at its line with the properties that cover it.

## 2. Daemon.tla

### State

| Variable | Code |
|---|---|
| `phase` | the process: `starting` (until the first refresh is done), `running`, `stopped` (context cancelled), `crashed` (exit 1 or panic) |
| `entitled`, `faults` | the environment: what Quartermaster grants, and how often it has changed or failed |
| `available`, `credentials`, `keys` | `d.available`, `d.credentials`, `d.keys`; `d.manifest` is built and replaced together with `d.credentials`, so it is not a variable |
| `subscriptions`, `heap` | `d.subscriptions` maps an id to a pointer, a cell of `heap`; a deleted object lives on while a refresh still points to it |
| `pc` | where each refresh is: between two critical sections or calls |
| `discovered`, `todo`, `target`, `csrKey`, `response`, `updated`, `firstErr` | the locals of `refresh` and of the functions it calls, one of each per goroutine |

A key is a pair of the name it was generated for and a serial number, so that a
regenerated key differs from the one before. A credential keeps what the
properties tell apart: what the token is for (`scope`), the key its certificate
was issued for (`cert`, `None` without one: `certificate_chain` is optional, CSR or
not) and the key served next to it (`key`). Tokens and PEM
text are left out. So is time: the loop may wake whenever it sleeps, which
contains every schedule `timeUntilRefresh` can produce; `RefreshTimer` has the
clock.

### Actions

| Action | Code | Atomic because |
|---|---|---|
| `Discover`, `DiscoverFails` | the identity source and `DiscoverBillets` | a call; it changes no shared state |
| `PublishAvailable` | `d.available = ...` | under `d.mu` |
| `ClearBillets` | `auto_per_billet: false`: both maps emptied | under `d.mu` |
| `NextBillet`, `NextSubscription` | one iteration starts: `createCSR` looks for the key | under `d.mu.RLock` |
| `GenerateKey`, `RegenerateKey` | `keyPEM` after a miss: generate, then look again and store | the second look and the store are under `d.mu` |
| `ExchangeSucceeds`, `ExchangeFails`, `ExchangePanics` | `POST /token` and its answers | a call |
| `Respond` | `credentialFromResponse`: the key is looked up again | under `d.mu.RLock` |
| `CommitBillets` | the end of `refreshAutoBillets`, with the clean-up of `d.keys` | under `d.mu` |
| `SnapshotSubscriptions` | the copy of `d.subscriptions` | under `d.mu.RLock` |
| `MarkPending`, `InstallSubscription` | the two outcomes for one subscription | under `d.mu` |
| `FinishRefresh` | `refresh` returns | local |
| `CreateSubscription`, `DeleteSubscription` | the POST and DELETE handlers | under `d.mu` |
| `WakeLoop`, `StopLoop` | the `select` in `Run` | local |
| `ChangeEntitlement` | an administrator at Quartermaster | environment |

The order of a Go map iteration is unspecified, and the order of discovered
billets is Quartermaster's, so a refresh picks any member of `todo` next.

Three things about the code that the model relies on:

- Key generation and CSR signing do not fail. Since Go 1.24 `crypto/rand` never
  returns an error, and encoding a P-256 key cannot fail. The error branches of
  `createCSR` and `keyPEM` are therefore left out.
- A panic in any goroutine ends the process: only the HTTP server recovers, and
  refreshes do not run in its goroutines.
- Workers are interchangeable: a goroutine of `triggerRefresh` ends with its
  refresh, and `Workers` bounds only those alive at once.

### Runs

All runs instantiate `MCDaemon`. Symmetric are the heap cells and the serial
numbers, and in `Daemon_subscriptions` the two requests, which differ in nothing
else; the liveness run uses no symmetry.

| Run | Setting | Shows |
|---|---|---|
| `Daemon_subscriptions` | loop and a worker, two requests with one id, two objects, CSRs, subscriptions only | `SubscriptionKeyPaired`, `ServesOwnToken`, and the refinement `ImplementsService` |
| `Daemon_configured` | a configured billet, a subscription, CSRs | types; the inductive invariant `IInv` and `KeyKeptWhileSubscribed` in spite of the clean-up of `d.keys`; `BilletKeyPaired` and its inductive invariant `BilletKeysInv` hold when the billets are configured |
| `Daemon_liveness` | two billets, discovery, no CSRs, fairness | `Converges`, `SubscriptionBecomesReady` |
| `Daemon_billet_key` | two billets, discovery, CSRs | **violated** `BilletKeyPaired` |
| `Daemon_nil_response` | a 200 that is not JSON | **violated** `RunsUntilCancelled` |

### What clients are promised: SubscriptionService and DaemonRefinement

`SubscriptionService` is the subscription API without refreshes, locks, keys and
objects: under each id there is nothing, or one entry that is created, granted a
credential for its own request, renewed with the same key, suspended and deleted.
`DaemonRefinement` maps the daemon's state to it (the entry under an id is the
object `d.subscriptions[id]` points to, `up` is `Up`) and states
`ImplementsService`. It is more than the invariants: no step of any number of
overlapping refreshes changes two entries, grants one that is gone, or replaces
one by another without a `DELETE` in between. `NoEntryAssumption` says that
`None` is not an entry.

### Bounds

- `Workers = {w1}`: with the loop, two refreshes at once. The shared state a
  refresh reads and writes is per name, and every hazard above is a race of one
  refresh against one other or against a handler.
- `Objects`: a subscription in the map and one an in-flight refresh still points
  to. A run with one cell cannot recreate an id while a deleted object is in use;
  `Daemon_subscriptions` and `Daemon_leaked_key` have two for that reason.
- Billets: two of them share no key, so `Daemon_configured` has one. It also has one
  request; of several with one id `Daemon_subscriptions` checks what `IInv` implies,
  and `IInv` is proved for all.
- `Serials`: keys alive at once under one name: the one stored, those the
  refreshes have in their hands, the one a credential holds. A key that nothing
  holds any more can be generated again. A refresh that finds none free waits,
  which only leaves out behaviours; the proofs have no such bound.
- `MaxFaults`: how often the environment changes the entitlement, fails a call
  or answers with something that is not JSON. It bounds the environment only;
  clients create and delete without bound.

None of these bounds is an assumption of the proofs.

### Fairness

`Fairness` is weak fairness of `WakeLoop` and of each refresh's next step, except
the loop's `Discover`. The code justifies it: the HTTP client has a 60 s timeout, a
refresh of `triggerRefresh` runs on a context with a timeout, its identity call
included, and `time.After` fires. That `d.mu` is granted to a waiter is the
guarantee of Go's mutexes. The loop asks its identity source on the context of the
signals, and SPIRE and AWS set no deadline of their own (`daemon.go:190`,
`spire.go:57`, `aws.go:32`): it may wait there for ever. The liveness properties
therefore have `LoopIdentified`, that the loop always leaves `Discover` again, as
their antecedent. Nothing makes the environment stop failing except `MaxFaults`,
and a liveness property says what happens after it did; nothing makes a client
act.

## 3. RefreshTimer.tla

The wait of `Run`'s loop, with a clock. Everything that does not depend on time
(keys, scopes, what is entitled) is left to `Daemon`; what does is here: which
credentials there are, how long each has left, and when the loop wakes.

| Variable | Code |
|---|---|
| `phase` | the process; `failing`: an exchange of the first refresh has failed, so `Run` will return its error |
| `credentials`, `subLeft` | `ExpiresAt` of each billet's and each subscription's credential, as the time left until then |
| `status` | whether a subscription exists, and its `Status` |
| `sleep` | what is left of `time.After(d.timeUntilRefresh())` |
| `pc`, `todo`, `updated` | the locals of each refresh, coarser than in `Daemon` |
| `spent` | how long each refresh has been running |

`TimeUntilRefresh` is the function of `daemon.go`: the earliest expiry among the
billets and the subscriptions that are ready, less the margin, never under the
floor; the default without any credential. The loop evaluates it once, in
`Return`, when its refresh ends. A triggered refresh ends without touching
`sleep`, as in the code.

`Tick` is one unit of time. It assumes two things: no refresh takes longer than
`MaxDuration`, and the loop does not oversleep. The first is the code's for
triggered refreshes and for calls of Quartermaster; that the loop's identity source
answers in time is an assumption. Time is
what is left and not what has passed, so the state space is finite although the
daemon runs forever.

| Run | Setting | Shows |
|---|---|---|
| `RefreshTimer_margin` | lifetimes within the margin of each other; an exchange or a discovery may fail, a billet may be revoked | until the first failure `RenewedBeforeExpiry` and its inductive invariant `TimerInv`; whatever fails `DueIsTriedAgain` and its inductive invariant `DueInv`; types |

One unit is about 30 s: the floor is 1 and the default wait 2, as in the code. A
refresh takes up to one unit. The lifetimes 6 and 7 and the margin 4 are near the
edge of what `MarginCovers` allows: with a margin of 2 or a lifetime of 4
`RenewedBeforeExpiry` already fails. Longer lifetimes only add states in which the
loop sleeps. Failures come at any moment, once (`MaxFaults`): `TimerInv` says
nothing after the first, and `DueIsTriedAgain` speaks of each wait by itself.

## 4. QMClient.tla

One call of the Quartermaster client. `New` picks an `http.Client`; then methods
are called one after the other: `Call`, `Answer`, `Parse`, `Return`, with `Fail`
and `Timeout` possible until the body has been read.

The seventeen operations are one template in the code, and one in the model. What
tells them apart are three tables, each read off its own place: which codes the
generated parser decodes (`Parse...HTTP`, from `client.gen.go`), which codes the
method of `API` switches on and what it returns (`Method(...)`, from `api.go`),
and which errors `openapi.json` documents (`Operations`). The properties say that
the tables fit together. Methods that agree in all of them are one operation.

Of an answer the model keeps its status, whether its Content-Type contains "json"
and whether its body decodes; requests are not told apart.

`QMClient_calls` has every status in the tables, and a 502, which is in none.
`CallReturns` needs that `http.Client.Timeout` fires, which Go promises for the
client `daemon.New` builds and for no other, and that a method whose answer is
parsed returns. No answer ever has to arrive.

## 5. Startup.tla

From the file to the first exchange: `Load` (defaults, then validation),
`NewSource`, `NewDaemon` (`resolveTLS` with what each source makes of the
certificate files), `Credential` (what the first refresh presents). Each step
fails as the code does, and panics where the code dereferences a block that is
not there. AWS and GCP look at their block only in the last step; that `Load`
has looked before is what `NeverPanics` is about. The body of a 200 from GCP's
metadata server is its token, also when it is empty; an empty one is not sent, and
is the one exception `IdentityPresented` makes.

TLS settings are a certificate, roots, and what verifies the server. The settings of
a SPIRE source in mode mtls are go-spiffe's `MTLSClientConfig`, which is external:
as documented, it sets `InsecureSkipVerify` and verifies the server with the trust
bundle in `VerifyPeerCertificate`. `mergeRootCA` changes the roots and nothing else,
so they count only where the standard verification is on (`VerifiedWith`).
`CAFileOrBundle` says what does hold with a CA file; what `config.example.yaml`
promises, `CAFileVerifies`, is violated in `Startup_ca_file`.

`Startup` checks all configurations with at most one identity block, of the right
source or of another, and with each file good, bad or not named. Blocks do not
interact, and the proofs allow any combination.

## 6. Lifecycle.tla

The process around `Daemon`: `main`, `Run`, the goroutine that listens, the one
that shuts the server down, open requests and triggered refreshes. A refresh is
two steps here, its start and its end, with or without an error, or with a panic:
`Daemon` shows that a 200 which is not JSON causes one, and nothing recovers it. The
exit code is 0 or 1 from `main`, and 2 after a panic.

`Lifecycle_signals` lets a signal come at any moment. Its fairness is that of
`main` once the context is cancelled: all that `identity.New` and `Run` wait for has
that context, and ends with it. Before a signal nothing has to end. Two requests and
two triggered refreshes overlap each other and the shutdown; more behave alike, and
the proof has no bound.

## 7. Naming.tla

What a client gets that asks under a path, or subscribes with names of its
choice. Here a name is a sequence of characters, as what is at stake is which
strings the conversions make equal. A character is a word that names it. The
alphabet has a blank, a dot, the unsafe "/" and ":", "_", which sanitizing
produces, two letters, and "aud" as one character, as nothing looks inside that
word. `Sorted` says what `sort.Strings` returns for names without repetitions; a
string that the code builds piece by piece is a `FlattenSeq` of its pieces.
`SubscriptionInv` says what a subscription's id and its list of billets have to do
with each other; `OneIdPerRequest` and `PlainRequestsOwnEntry` rest on it.

A handler or a refresh is one step, because `Daemon` has the interleavings.
`MCNaming` lists names that are padded, blank, repeated, reordered, in several
lists of a discovery, in need of sanitizing, equal after it, cleaned away by
`ServeMux`, or that read like the separator `__aud__`. Two subscriptions exist at
a time, since every property relates two.

`Plain` says which names are safe: sanitizing leaves them alone, and they neither
begin nor end with "_" nor have two in a row. For those `PlainRequestsOwnEntry`
holds; without it see the findings.

## 8. SubscriptionRead.tla

The handlers of `GET` against refreshes and `DELETE`, one lock operation or one
read at a time. `d.mu` is modelled as Go documents `sync.RWMutex`: a writer that
waits holds off new readers, and an unlocking writer lets in all that wait.

`handleSubscriptionToken`, `...Cert` and `...Key` read the status and the
credential after they have released the lock. What such a read returns while a
writer assigns is undefined in Go; the model allows the old value, the new one,
and a string that is neither (`Torn`), because a string is a pointer and a
length. A handler may also answer with an object deleted meanwhile, and with 404
if the first credential is being installed just then. An entry is also put
together from two reads, the status and the expiry; that they belong together
(`EntryIsSnapshot`) is due to the lock, and fails in the model without it.

`SubscriptionRead_handlers` has one request of any kind, two writers and a
deletion: a second writer can announce itself while the first one assigns, which
is where lock chains come from, and handlers block each other only through a
writer. Goroutines run on; strong fairness of `Announce` is Go's promise that the
mutex that orders the writers of an RWMutex starves nobody. The pages that need
no lock are served always (`ServeStatic`), so a deadlock among the others shows
as a violation of `NobodyWaitsForever`.

| Run | Shows |
|---|---|
| `QMClient_calls` | `ErrorIsSeen`, `ErrorExplained`, `NilOnlyWithoutJSON`, `CallReturns` |
| `Startup` | `NeverPanics`, `IdentityPresented`, `TokenTyped`, `CAFileOrBundle` |
| `Startup_ca_file` | **violated** `CAFileVerifies` |
| `Lifecycle_signals` | `ExitTellsWhy`, `SourceOpenForRun`, `SignalStops` |
| `Naming_names` | `AvailableOnce`, `SubscriptionReachable`, `OneIdPerRequest`, `PlainRequestsOwnEntry`, and what they rest on, `SubscriptionInv` |
| `SubscriptionRead_handlers` | `EntryIsSnapshot`, `ReadyIsFound`, `ReadInv`, `NobodyWaitsForever` |

## 9. Proofs

Each theorem holds for every value of the constants that satisfies the module's
`ConstantsAssumption`, and what is named with it.

| Module | Theorem | Says |
|---|---|---|
| `DaemonProofs` | `Invariance`, `TypeCorrect` | `Spec => []IInv`, `Spec => []TypeOK` |
| | `OwnTokens`, `SubscriptionKeys`, `KeysKept` | `ServesOwnToken`, `SubscriptionKeyPaired`, `KeyKeptWhileSubscribed` |
| | `BilletInvariance`, `BilletKeys` | with `BilletsConfigured`, `BilletKeysInv` and `BilletKeyPaired` |
| `DaemonRefinementProofs` | `ServiceImplemented` | `Spec => ImplementsService` |
| `RefreshTimerProofs` | `TimerTypes`, `TimerInvariance`, `RenewedInTime` | types; with `MarginCovers`, `TimerInv` and `RenewedBeforeExpiry` |
| | `DueInvariance`, `DueTriedAgain` | `DueInv`, `DueIsTriedAgain` |
| `NamingProofs` | `IdsOfRequests`, `OneId`, `ReachableById`, `PlainOwnEntry` | `SubscriptionInv`, `OneIdPerRequest`, `SubscriptionReachable`, `PlainRequestsOwnEntry` |
| | `EachNameOnce`, `NamingTypes` | `AvailableOnce`, types |
| `SubscriptionReadProofs` | `ReadInvariance`, `TypeCorrect`, `EntriesAreSnapshots`, `ReadyAlwaysFound` | `ReadInv`, types, `EntryIsSnapshot`, `ReadyIsFound` |
| `QMClientProofs` | `TypeCorrect`, `ErrorsAreSeen`, `ErrorsAreExplained`, `NilsHaveNoJSON` | types, `ErrorIsSeen`, `ErrorExplained`, `NilOnlyWithoutJSON` |
| `StartupProofs` | `TypeCorrect`, `StartNeverPanics`, `IdentityAlwaysPresented`, `TokenAlwaysTyped`, `CAFileOrBundleVerifies` | types, `NeverPanics`, `IdentityPresented`, `TokenTyped`, `CAFileOrBundle` |
| `Lifecycle` | `TypeCorrect`, `CleanExit`, `SourceStaysOpen` | types, `ExitTellsWhy`, `SourceOpenForRun` |

*DaemonProofs.* The argument is one inductive invariant, `IInv`, which
`Daemon_configured` checks. None of the properties is inductive by itself:
each depends on what a refresh carries in its locals.

1. `ControlInv`: a refresh visits only billets in the first loop and only
   subscription objects in the second. Such an object exists and its request has
   the id under which the refresh found it. This holds because an object is
   collected only when nothing points to it.
2. `ScopeInv`: what an object holds, and what an exchange brings back for it, was
   asked for with the object's own request. It is why writing through an old
   pointer does no harm: the write goes to the old object and not to its
   successor.
3. `KeyInv`: as long as the object a refresh exchanges for is the subscription
   (`Live`), `d.keys` has not changed under its id since the refresh looked there.
   What it found is the key the CSR was signed with, so a certificate, if one
   comes, is for it. The only steps that could change it are the two of `keyPEM`, which look again
   under the lock, the clean-up, which spares ids of subscriptions, and `DELETE`,
   which ends `Live`.

`ConstantsAssumption` says that a request names at least one billet (the handler
refuses an empty list), that ids are a function of requests, that configured
billets are billets, and that `None` differs from everything else. Nothing says
that ids differ from billet names or from each other: the theorems hold when they
collide.

*Keys of billets*, the last section of `DaemonProofs`. `BilletsConfigured` says that there is a configured list and
that no name in it is a subscription's id. Then all refreshes have the same
billets (`AgreedInv`), so no clean-up and no `DELETE` removes the key of one, and
a key that is there stays. `BilletKeysInv` says of billets what `KeyInv` says of
subscriptions: every key on the way to `d.credentials`, or in it, is the one in
`d.keys`, and so is that of every certificate. Without either half of the assumption the property is
false: discovery is the first finding, and `DELETE` takes the key of a billet that
has the name of an id.

*DaemonRefinementProofs.* From `IInv` every step of the daemon leaves all entries
alone or changes one of them as `SubscriptionService` allows. That an install
renews with the same key is `KeyInv`; that it hits the entry the exchange was for
is `ControlInv`. `NoEntryAssumption` is the one assumption added.

*RefreshTimerProofs.* `MarginCovers` answers how large the margin must be: a token
lives longer than three refreshes and a default wait, and the margin exceeds two
refreshes plus the difference of any two lifetimes. The last part is needed:
with tokens of 6 and of 14, `RefreshTimer_lifetimes.cfg` serves an expired one.
`TimerInv` holds until something fails:

1. `InHandInv`: what a refresh has received ages no faster than the refresh
   itself, so it is at most `MaxDuration` old when it is stored.
2. `AsleepInv`: while the loop sleeps, what is served outlives the sleep and one
   refresh after it. A triggered refresh that stores a shorter token during the
   sleep is where the difference of the lifetimes is needed.
3. `AwakeInv`: while the loop refreshes, what is served outlives that refresh.
4. `RenewedInv`: what the loop's refresh has been through is new again, up to what
   an overlapping refresh had received before and stored after it. It
   re-establishes `AsleepInv` when the loop goes back to sleep.

`DueIsTriedAgain` needs neither `MarginCovers` nor that nothing fails. `DueInv`
keeps `InHandInv` and bounds the loop's sleep twice: by what some lifetime
allows, which is what protects it when a triggered refresh stores a token of
another lifetime meanwhile, and by what each token that is served allows, which
is what the property says. A tick takes as much from the sleep as from the
tokens. The property had only been checked for one failure; the proof has no
bound on them.

*NamingProofs.* Names, lists of them and ids have any length here, over the eight
characters of the alphabet, so what the operators compute is proved by induction.
The induction theorems of the library take an operator and cannot be used; `UpTo`
is induction for a set, and follows from the least element of the numbers outside
it (`Least`, from `WFMin`).

1. `Flatten` turns a concatenation into the list of its first parts, which all
   other facts about `FlattenSeq` come from.
2. `SanitizeSafe` and `SanitizeKeeps`: sanitizing returns a name of safe
   characters that is not empty (so `subscriptionID` always appends an audience),
   and leaves such a name alone. An id is made of safe characters
   (`IdIsFixed`), so the lookup by path, which sanitizes ids, compares ids:
   `ReachableById`.
3. `BeforeTotal`, `BeforeTransitive` and `SortedSorts`: the order of strings is
   one, so every finite set of names has a sorted list. That list depends on the
   set alone: `OneId`.
4. `NoSeparator` and `LastName`: in a plain name there is no `__`, and none that
   begins in it can end in the next separator, so the last name of an id can be
   read back, and so can the others, one after the other (`JoinedInjective`,
   `IdInjective`): `PlainOwnEntry`.
5. `FirstsDistinct`: what `unionDiscoveredBillets` keeps of its lists has no name
   twice: `EachNameOnce`.

*SubscriptionReadProofs.* `LockInv` is what `sync.RWMutex` gives: a handler has
the read lock once, exactly where its code is between `RLock` and `RUnlock`, and
a writer that assigns excludes all of them. So `Render` reads the object as it is,
and `SeenInv` says the handler has seen it. For the reads without the lock
`SeenInv` also says that what a writer is about to leave has been seen, and that
what is ready has a credential: if all of it was ready, none of the three reads
can come out empty. Of a deletion only the handlers that have yet to look up the
pointer notice anything.

*QMClientProofs.* `ClientInv` ties the result to the answer and the operation that
led to it; `TablesAgree` is the finite comparison of the tables, by itself.

*StartupProofs.* `StartInv` carries from stage to stage what `Load` has checked
and what the later steps have made of it. The types rest on it too: a form is one
only because the block it is made of is there. `TLSInv` ties what verifies the
server to the origin of the settings.

*Lifecycle.* `StageInv` adds that `Run` returns only when cancelled, and that
nothing is `ready` before the first refresh. A panic needs neither: its exit code is
its own.

Only model-checked are

- liveness: `Converges`, `SubscriptionBecomesReady`, `CallReturns`,
  `SignalStops`, `NobodyWaitsForever`. Liveness under fairness is outside the
  prover's reach;
- the properties under Findings, which are false.

Every invariant of a passing run is a theorem.

## 10. Findings

A listed run shows each of these:

1. `BilletKeyPaired` fails with discovery (`Daemon_billet_key`). Two refreshes
   disagree on the billets; one deletes the key of a billet while the other waits
   for its certificate, and then makes a new key to serve with it
   (`daemon.go:331`, `daemon.go:255`).
2. `RunsUntilCancelled` fails (`Daemon_nil_response`): a 200 that is not JSON is a
   nil response with a nil error, and is dereferenced (`daemon.go:317`).
3. `CAFileVerifies` fails (`Startup_ca_file`): with SPIRE in mode mtls the CA file
   is merged into roots that the SPIFFE library's settings do not consult
   (`daemon.go:84`).

The configurations of nine further ones are kept beside the listed runs. Each
checks one property, whose comment in its module says what it contradicts, and
TLC finds a counterexample:

4. `Daemon_last_billet.cfg`, `RevokedWithdrawn`: an empty discovery leaves the
   credentials as they are (`daemon.go:213`).
5. `Daemon_waiting.cfg`, `WaitingIsCurrent`: the refresh with the older discovery
   may be the last to write a subscription's status (`daemon.go:280`).
6. `Daemon_leaked_key.cfg`, `KeysOwned`: a key is stored for an id that was
   deleted during the exchange (`daemon.go:366`), and without automatic billets
   nothing removes it.
7. `RefreshTimer_lifetimes.cfg`, `RenewedBeforeExpiry`: `config.example.yaml:72`
   and `README.md:66` say that billets are exchanged a margin before the earliest
   token expires, but a token stored by a triggered refresh while the loop
   sleeps, and expiring before that sleep ends, does not shorten the sleep
   (`daemon.go:145`).
8. `QMClient_api_error.cfg`, `NonSuccessIsAPIError`: a status outside the tables,
   or without a JSON body, is a plain error and no `APIError`.
9. `Lifecycle_listen.cfg`, `ServesWhileRunning`: a server that cannot listen is
   logged and the loop goes on (`daemon.go:128`).
10. `Naming_paths.cfg`, `PathServesBillet`: billets "a/b" and "a_b" have one path,
    and either token may be served under it, now this one and now that
    (`server.go:92`).
11. `Naming_collisions.cfg`, `PostAnswersRequest`: different requests may have the
    same id, and the second client gets the first one's subscription
    (`server.go:177`).
12. `SubscriptionRead_unlocked.cfg`, `TokenWhenReady`: a token may be read while a
    renewal assigns it (`server.go:247`).

## 11. Plan

Done, in this order: `Daemon` and its proofs; `RefreshTimer` and its proofs;
`SubscriptionService` and the refinement, checked and proved; `Naming`;
`SubscriptionRead`; `Lifecycle`; `Startup`; `QMClient`; `BilletKeyPaired` proved for
configured billets; `EntryIsSnapshot` and `ReadyIsFound` proved for any number of
handlers and writers; `DueIsTriedAgain` proved for any failures; the invariants of
`Naming` proved for names of any length; the types of every module proved.

Left to prove: the safety part of the liveness properties, that is, which states
only the fairness assumed leads out of. First that of `NobodyWaitsForever`: a
handler that waits for the lock waits for somebody who is not waiting. Then
that a subscription which is entitled and `pending` has a refresh that will
visit it, behind `SubscriptionBecomesReady`. What is not modelled is listed next.

## 12. Not modelled

- How AWS, GCP and SPIRE produce a credential: one step that may fail. The
  SPIFFE library is external; of it the model has what `MTLSClientConfig` is
  documented to verify the server with.
- How the generated client builds a request from its parameters: requests are not
  told apart, as nothing in the daemon depends on it.
- What the API description says. The three documents are compiled into the
  program and are only served; their promises are what the findings quote.
- Logging, wording and formatting.
