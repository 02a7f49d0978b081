------------------------------- MODULE Daemon -------------------------------
(***************************************************************************)
(* The credential daemon of internal/daemon: the refresh loop, the         *)
(* refreshes that POST /subscriptions starts beside it, and the handlers   *)
(* that change the daemon's maps.                                          *)
(*                                                                         *)
(* Every critical section of d.mu is one step and every call that leaves   *)
(* the process (identity source, discovery, token exchange) is a step of   *)
(* its own, so two refreshes and the handlers interleave exactly where the *)
(* code lets them.  The GET handlers change nothing; what they serve is    *)
(* the state functions at the end.  Time is left out: the loop may wake    *)
(* whenever it sleeps.                                                     *)
(***************************************************************************)
EXTENDS Naturals

CONSTANTS
  Billets,        \* billet names
  SubIds,         \* subscription ids
  Requests,       \* normalized POST /subscriptions bodies
  BilletsOf,      \* [Requests -> SUBSET Billets], the billets they name
  IdOf,           \* [Requests -> id], what subscriptionID computes
  Objects,        \* heap cells for *subscription; bounds the live objects
  Serials,        \* tells apart the keys generated for one key id; a bound
  Loop,           \* the goroutine in Run
  Workers,        \* goroutines of triggerRefresh; bounds those alive at once
  Configured,     \* exchange.billets; empty means discovery
  AutoPerBillet,  \* exchange.auto_per_billet
  CSREnabled,     \* csr.enabled
  MaxFaults,      \* bounds what the environment does to the daemon
  None            \* nil, the empty string, an absent map entry

Procs == {Loop} \cup Workers
KeyIds == Billets \cup SubIds
Keys == KeyIds \X Serials
MaybeKey == Keys \cup {None}

\* A billet credential is for its name, a subscription's for its request.
\* cert is the key the certificate was issued for.
Credential == [scope : Billets \cup Requests, cert : MaybeKey, key : MaybeKey]
MaybeCredential == Credential \cup {None}

\* waiting is the set of billets the reason of a pending subscription names.
Subscription == [req : Requests, status : {"pending", "ready"},
                 waiting : SUBSET Billets, cred : MaybeCredential]

Target == [keyID : KeyIds, obj : Objects \cup {None}]

ASSUME ConstantsAssumption ==
  /\ BilletsOf \in [Requests -> SUBSET Billets]
  /\ \A r \in Requests : BilletsOf[r] # {}
  /\ IdOf \in [Requests -> SubIds]
  /\ Configured \subseteq Billets
  /\ AutoPerBillet \in BOOLEAN
  /\ CSREnabled \in BOOLEAN
  /\ MaxFaults \in Nat
  /\ Loop \notin Workers
  /\ None \notin Objects
  /\ None \notin Keys
  /\ None \notin Credential
  /\ None \notin Subscription
  /\ None \notin Target

VARIABLES
  phase,          \* the process: starting, running, stopped or crashed
  entitled,       \* Quartermaster: the billets this workload is entitled to
  faults,         \* how often the environment has interfered
  available,      \* d.available
  credentials,    \* d.credentials; d.manifest always has the same entries
  subscriptions,  \* d.subscriptions: id -> cell of heap
  keys,           \* d.keys
  heap,           \* the *subscription objects
  pc,             \* where each refresh is
  discovered,     \* its billets
  todo,           \* what the running for loop has not visited
  target,         \* what it is exchanging for
  csrKey,         \* the key that signed the CSR it sent
  response,       \* the credential it built from the response
  updated,        \* the credentials map it is filling
  firstErr        \* refreshErr # nil in Run's first refresh

env == <<entitled, faults>>
store == <<available, credentials, subscriptions, keys, heap>>
local == <<discovered, todo, target, csrKey, response, updated, firstErr>>
vars == <<phase, env, store, pc, local>>

Steps == {"idle", "discover", "publish", "clear", "billets", "snapshot",
          "subs", "generate", "exchange", "respond", "regenerate", "install"}

TypeOK ==
  /\ phase \in {"starting", "running", "stopped", "crashed"}
  /\ entitled \in SUBSET Billets
  /\ faults \in 0..MaxFaults
  /\ available \in SUBSET Billets
  /\ credentials \in [Billets -> MaybeCredential]
  /\ subscriptions \in [SubIds -> Objects \cup {None}]
  /\ keys \in [KeyIds -> MaybeKey]
  /\ heap \in [Objects -> Subscription \cup {None}]
  /\ pc \in [Procs -> Steps]
  /\ discovered \in [Procs -> SUBSET Billets]
  /\ todo \in [Procs -> SUBSET Target]
  /\ target \in [Procs -> Target \cup {None}]
  /\ csrKey \in [Procs -> MaybeKey]
  /\ response \in [Procs -> MaybeCredential]
  /\ updated \in [Procs -> [Billets -> MaybeCredential]]
  /\ firstErr \in BOOLEAN

NoCredentials == [b \in Billets |-> None]

Init ==
  /\ phase = "starting"
  /\ entitled \in SUBSET Billets
  /\ faults = 0
  /\ available = {}
  /\ credentials = NoCredentials
  /\ subscriptions = [id \in SubIds |-> None]
  /\ keys = [n \in KeyIds |-> None]
  /\ heap = [o \in Objects |-> None]
  /\ pc = [p \in Procs |-> IF p = Loop THEN "discover" ELSE "idle"]
  /\ discovered = [p \in Procs |-> {}]
  /\ todo = [p \in Procs |-> {}]
  /\ target = [p \in Procs |-> None]
  /\ csrKey = [p \in Procs |-> None]
  /\ response = [p \in Procs |-> None]
  /\ updated = [p \in Procs |-> NoCredentials]
  /\ firstErr = FALSE

-----------------------------------------------------------------------------
(* The environment.                                                        *)

Up == phase \in {"starting", "running"}

Fault == faults < MaxFaults /\ faults' = faults + 1

\* An administrator grants or revokes billets at Quartermaster.
ChangeEntitlement ==
  /\ Up
  /\ Fault
  /\ entitled' \in SUBSET Billets \ {entitled}
  /\ UNCHANGED <<phase, store, pc, local>>

Goto(p, step) == pc' = [pc EXCEPT ![p] = step]

-----------------------------------------------------------------------------
(* refresh: discovery, then d.available.                                   *)

Wake(p) ==
  /\ pc[p] = "idle"
  /\ Goto(p, "discover")

\* time.After(wait) fires in Run.
WakeLoop ==
  /\ phase = "running"
  /\ Wake(Loop)
  /\ UNCHANGED <<phase, env, store, local>>

\* Run sees ctx.Done while it waits: main returns and the process is gone.
StopLoop ==
  /\ phase = "running"
  /\ pc[Loop] = "idle"
  /\ phase' = "stopped"
  /\ UNCHANGED <<env, store, pc, local>>

FirstRefresh(p) == p = Loop /\ phase = "starting"

\* The refresh returns err.  Only Run's first refresh matters to the process:
\* if it fails Run returns and main exits, later errors are logged.
Return(p, err) ==
  /\ Goto(p, "idle")
  /\ phase' = IF FirstRefresh(p) THEN IF err THEN "crashed" ELSE "running"
                                 ELSE phase
  /\ discovered' = [discovered EXCEPT ![p] = {}]
  /\ todo' = [todo EXCEPT ![p] = {}]
  /\ target' = [target EXCEPT ![p] = None]
  /\ csrKey' = [csrKey EXCEPT ![p] = None]
  /\ response' = [response EXCEPT ![p] = None]
  /\ updated' = [updated EXCEPT ![p] = NoCredentials]
  /\ firstErr' = (firstErr /\ p # Loop)

\* The identity source answers and so does discovery, if it is asked.  A 200
\* whose body is not JSON is a nil response, read as no billets at all.
Discover(p) ==
  /\ Up
  /\ pc[p] = "discover"
  /\ \/ /\ discovered' = [discovered EXCEPT ![p] =
                            IF Configured # {} THEN Configured ELSE entitled]
        /\ UNCHANGED faults
     \/ /\ Configured = {}
        /\ Fault
        /\ discovered' = [discovered EXCEPT ![p] = {}]
  /\ Goto(p, "publish")
  /\ UNCHANGED <<phase, entitled, store, todo, target, csrKey, response,
                 updated, firstErr>>

\* Either of the two calls fails: refresh returns before it changes anything.
DiscoverFails(p) ==
  /\ Up
  /\ pc[p] = "discover"
  /\ Fault
  /\ Return(p, TRUE)
  /\ UNCHANGED <<entitled, store>>

PublishAvailable(p) ==
  /\ Up
  /\ pc[p] = "publish"
  /\ available' = discovered[p]
  /\ IF AutoPerBillet
     THEN /\ Goto(p, IF discovered[p] # {} THEN "billets" ELSE "snapshot")
          /\ todo' = [todo EXCEPT ![p] =
                        [keyID : discovered[p], obj : {None}]]
     ELSE Goto(p, "clear") /\ UNCHANGED todo
  /\ UNCHANGED <<phase, env, credentials, subscriptions, keys, heap,
                 discovered, target, csrKey, response, updated, firstErr>>

ClearBillets(p) ==
  /\ Up
  /\ pc[p] = "clear"
  /\ credentials' = NoCredentials
  /\ Goto(p, "snapshot")
  /\ UNCHANGED <<phase, env, available, subscriptions, keys, heap, local>>

-----------------------------------------------------------------------------
(* exchangeBillets and credentialFromResponse, for a billet or for a       *)
(* subscription.                                                           *)

IsSub(t) == t.obj # None
LoopHead(t) == IF IsSub(t) THEN "subs" ELSE "billets"
\* Mutant: the token is recorded under the key id for subscriptions too.
ScopeOf_KeyID(t) == t.keyID

ScopeOf(t) == IF IsSub(t) THEN heap[t.obj].req ELSE t.keyID
BilletsFor(t) == IF IsSub(t) THEN BilletsOf[heap[t.obj].req] ELSE {t.keyID}

\* The keys a refresh holds or the daemon can serve; one it generates is none
\* of them.
KeysInUse ==
  LET creds == {credentials[b] : b \in Billets}
               \cup {updated[p][b] : p \in Procs, b \in Billets}
               \cup {response[p] : p \in Procs}
               \cup {heap[subscriptions[id]].cred :
                       id \in {i \in SubIds : subscriptions[i] # None}}
  IN  {keys[n] : n \in KeyIds} \cup {csrKey[p] : p \in Procs}
      \cup UNION {{c.cert, c.key} : c \in creds \ {None}}

\* Mutant: keyPEM does not look again and overwrites.
KeyChoices_NoRecheck(n) == ({n} \X Serials) \ KeysInUse

\* keyPEM generates outside the lock and looks again under it: an entry that
\* appeared in the meantime wins.
KeyChoices(n) ==
  IF keys[n] # None THEN {keys[n]} ELSE ({n} \X Serials) \ KeysInUse

\* createCSR reads d.keys under the read lock; on a miss keyPEM generates.
StartExchange(p, t) ==
  /\ todo' = [todo EXCEPT ![p] = @ \ {t}]
  /\ target' = [target EXCEPT ![p] = t]
  /\ IF CSREnabled
     THEN /\ csrKey' = [csrKey EXCEPT ![p] = keys[t.keyID]]
          /\ Goto(p, IF keys[t.keyID] # None THEN "exchange" ELSE "generate")
     ELSE UNCHANGED csrKey /\ Goto(p, "exchange")

GenerateKey(p) ==
  /\ Up
  /\ pc[p] = "generate"
  /\ LET n == target[p].keyID
     IN  \E k \in KeyChoices(n) :
           /\ keys' = [keys EXCEPT ![n] = k]
           /\ csrKey' = [csrKey EXCEPT ![p] = k]
  /\ Goto(p, "exchange")
  /\ UNCHANGED <<phase, env, available, credentials, subscriptions, heap,
                 discovered, todo, target, response, updated, firstErr>>

\* POST /token succeeds: a token for the billets asked for and, if there was a
\* CSR, a certificate for its key; certificate_chain may also be missing.
ExchangeSucceeds(p) ==
  /\ Up
  /\ pc[p] = "exchange"
  /\ BilletsFor(target[p]) \subseteq entitled
  /\ \E cert \in {csrKey[p], None} :
       response' = [response EXCEPT ![p] =
         [scope |-> ScopeOf(target[p]), cert |-> cert, key |-> None]]
  /\ Goto(p, "respond")
  /\ UNCHANGED <<phase, env, store, discovered, todo, target, csrKey,
                 updated, firstErr>>

\* An error joins refreshErr and the loop goes on with its next entry.
ExchangeFails(p) ==
  /\ Up
  /\ pc[p] = "exchange"
  /\ \/ ~ (BilletsFor(target[p]) \subseteq entitled) /\ UNCHANGED faults
     \/ Fault
  /\ firstErr' = (firstErr \/ FirstRefresh(p))
  /\ Goto(p, LoopHead(target[p]))
  /\ target' = [target EXCEPT ![p] = None]
  /\ csrKey' = [csrKey EXCEPT ![p] = None]
  /\ UNCHANGED <<phase, entitled, store, discovered, todo, response, updated>>

\* A 200 that is not JSON: ExchangeToken returns nil and a nil error, and
\* credentialFromResponse dereferences it, in whichever goroutine this is.
ExchangePanics(p) ==
  /\ Up
  /\ pc[p] = "exchange"
  /\ Fault
  /\ phase' = "crashed"
  /\ UNCHANGED <<entitled, store, pc, local>>

\* credentialFromResponse is done: a billet's credential goes to the map being
\* filled, a subscription's waits for the lock.
Collect(p, k) ==
  LET cred == [response[p] EXCEPT !.key = k]
  IN  /\ IF IsSub(target[p])
         THEN /\ response' = [response EXCEPT ![p] = cred]
              /\ Goto(p, "install")
              /\ UNCHANGED <<target, updated>>
         ELSE /\ updated' = [updated EXCEPT ![p][target[p].keyID] = cred]
              /\ response' = [response EXCEPT ![p] = None]
              /\ target' = [target EXCEPT ![p] = None]
              /\ Goto(p, "billets")
      /\ csrKey' = [csrKey EXCEPT ![p] = None]

\* credentialFromResponse asks keyPEM again for the key it will serve.
Respond(p) ==
  /\ Up
  /\ pc[p] = "respond"
  /\ LET k == keys[target[p].keyID]
     IN  IF CSREnabled /\ k = None
         THEN Goto(p, "regenerate")
              /\ UNCHANGED <<target, csrKey, response, updated>>
         ELSE Collect(p, IF CSREnabled THEN k ELSE None)
  /\ UNCHANGED <<phase, env, store, discovered, todo, firstErr>>

RegenerateKey(p) ==
  /\ Up
  /\ pc[p] = "regenerate"
  /\ LET n == target[p].keyID
     IN  \E k \in KeyChoices(n) :
           keys' = [keys EXCEPT ![n] = k] /\ Collect(p, k)
  /\ UNCHANGED <<phase, env, available, credentials, subscriptions, heap,
                 discovered, todo, firstErr>>

-----------------------------------------------------------------------------
(* refreshAutoBillets.                                                     *)

NextBillet(p) ==
  /\ Up
  /\ pc[p] = "billets"
  /\ \E t \in todo[p] : StartExchange(p, t)
  /\ UNCHANGED <<phase, env, store, discovered, response, updated, firstErr>>

\* Mutant: the clean-up forgets that subscriptions keep keys in the same map.
Retired_IgnoresSubs(p, n) == n \notin discovered[p]

\* Mutant: a billet counts as active only once its exchange has succeeded.
Retired_Exchanged(p, n) ==
  /\ n \in Billets => updated[p][n] = None
  /\ n \in SubIds => subscriptions[n] = None

\* A key goes when its name is neither one of this refresh's billets nor, now,
\* a subscription.
Retired(p, n) ==
  /\ n \notin discovered[p]
  /\ n \in SubIds => subscriptions[n] = None

\* Mutant: the new credentials are merged into the old map.
CommitBillets_Merges(p) ==
  /\ Up
  /\ pc[p] = "billets"
  /\ todo[p] = {}
  /\ credentials' = [b \in Billets |->
       IF updated[p][b] # None THEN updated[p][b] ELSE credentials[b]]
  /\ keys' = [n \in KeyIds |-> IF Retired(p, n) THEN None ELSE keys[n]]
  /\ updated' = [updated EXCEPT ![p] = NoCredentials]
  /\ Goto(p, "snapshot")
  /\ UNCHANGED <<phase, env, available, subscriptions, heap, discovered, todo,
                 target, csrKey, response, firstErr>>

CommitBillets(p) ==
  /\ Up
  /\ pc[p] = "billets"
  /\ todo[p] = {}
  /\ credentials' = updated[p]
  /\ keys' = [n \in KeyIds |-> IF Retired(p, n) THEN None ELSE keys[n]]
  /\ updated' = [updated EXCEPT ![p] = NoCredentials]
  /\ Goto(p, "snapshot")
  /\ UNCHANGED <<phase, env, available, subscriptions, heap, discovered, todo,
                 target, csrKey, response, firstErr>>

-----------------------------------------------------------------------------
(* refreshSubscriptions.                                                   *)

\* Mutant: only the subscriptions that are ready are renewed.
SnapshotSubscriptions_ReadyOnly(p) ==
  /\ Up
  /\ pc[p] = "snapshot"
  /\ todo' = [todo EXCEPT ![p] =
       {[keyID |-> id, obj |-> subscriptions[id]] :
          id \in {i \in SubIds : /\ subscriptions[i] # None
                                 /\ heap[subscriptions[i]].status = "ready"}}]
  /\ Goto(p, "subs")
  /\ UNCHANGED <<phase, env, store, discovered, target, csrKey, response,
                 updated, firstErr>>

SnapshotSubscriptions(p) ==
  /\ Up
  /\ pc[p] = "snapshot"
  /\ todo' = [todo EXCEPT ![p] =
       {[keyID |-> id, obj |-> subscriptions[id]] :
          id \in {i \in SubIds : subscriptions[i] # None}}]
  /\ Goto(p, "subs")
  /\ UNCHANGED <<phase, env, store, discovered, target, csrKey, response,
                 updated, firstErr>>

\* billetsAvailable: what target t waits for.
Missing(p, t) == BilletsFor(t) \ discovered[p]

NextSubscription(p) ==
  /\ Up
  /\ pc[p] = "subs"
  /\ \E t \in todo[p] :
       /\ Missing(p, t) = {}
       /\ StartExchange(p, t)
  /\ UNCHANGED <<phase, env, store, discovered, response, updated, firstErr>>

MarkPending(p) ==
  /\ Up
  /\ pc[p] = "subs"
  /\ \E t \in todo[p] :
       /\ Missing(p, t) # {}
       /\ heap' = [heap EXCEPT ![t.obj] =
            [@ EXCEPT !.status = "pending", !.waiting = Missing(p, t)]]
       /\ todo' = [todo EXCEPT ![p] = @ \ {t}]
  /\ UNCHANGED <<phase, env, available, credentials, subscriptions, keys, pc,
                 discovered, target, csrKey, response, updated, firstErr>>

\* Mutant: the result is stored in whatever d.subscriptions[id] is by now.
InstallSubscription_ById(p) ==
  /\ Up
  /\ pc[p] = "install"
  /\ LET o == subscriptions[target[p].keyID]
     IN  heap' = IF o = None THEN heap
                 ELSE [heap EXCEPT ![o] =
                   [@ EXCEPT !.status = "ready", !.waiting = {},
                             !.cred = response[p]]]
  /\ Goto(p, "subs")
  /\ target' = [target EXCEPT ![p] = None]
  /\ response' = [response EXCEPT ![p] = None]
  /\ UNCHANGED <<phase, env, available, credentials, subscriptions, keys,
                 discovered, todo, csrKey, updated, firstErr>>

InstallSubscription(p) ==
  /\ Up
  /\ pc[p] = "install"
  /\ heap' = [heap EXCEPT ![target[p].obj] =
       [@ EXCEPT !.status = "ready", !.waiting = {}, !.cred = response[p]]]
  /\ Goto(p, "subs")
  /\ target' = [target EXCEPT ![p] = None]
  /\ response' = [response EXCEPT ![p] = None]
  /\ UNCHANGED <<phase, env, available, credentials, subscriptions, keys,
                 discovered, todo, csrKey, updated, firstErr>>

FinishRefresh(p) ==
  /\ Up
  /\ pc[p] = "subs"
  /\ todo[p] = {}
  /\ Return(p, firstErr)
  /\ UNCHANGED <<env, store>>

-----------------------------------------------------------------------------
(* The handlers that write.                                                *)

\* What refresh p holds pointers to.
Visits(p) == todo[p] \cup ({target[p]} \ {None})

\* The garbage collector frees a *subscription nobody points to.
Reachable == {subscriptions[id] : id \in SubIds}
             \cup {t.obj : t \in UNION {Visits(p) : p \in Procs}}

\* Mutant: an id that exists gets a new entry.
CreateSubscription_Replaces(r, w) ==
  /\ Up
  /\ Wake(w)
  /\ \E o \in Objects \ Reachable :
       /\ subscriptions' = [subscriptions EXCEPT ![IdOf[r]] = o]
       /\ heap' = [heap EXCEPT ![o] =
            [req |-> r, status |-> "pending", waiting |-> {}, cred |-> None]]
  /\ UNCHANGED <<phase, env, available, credentials, keys, local>>

\* POST /subscriptions: an id that exists is left as it is; either way a
\* goroutine of its own starts a refresh.
CreateSubscription(r, w) ==
  /\ Up
  /\ Wake(w)
  /\ IF subscriptions[IdOf[r]] # None
     THEN UNCHANGED <<subscriptions, heap>>
     ELSE \E o \in Objects \ Reachable :
            /\ subscriptions' = [subscriptions EXCEPT ![IdOf[r]] = o]
            /\ heap' = [heap EXCEPT ![o] =
                 [req |-> r, status |-> "pending", waiting |-> {},
                  cred |-> None]]
  /\ UNCHANGED <<phase, env, available, credentials, keys, local>>

\* DELETE /subscriptions/{id}
DeleteSubscription(id) ==
  /\ Up
  /\ subscriptions[id] # None
  /\ subscriptions' = [subscriptions EXCEPT ![id] = None]
  /\ keys' = [keys EXCEPT ![id] = None]
  /\ UNCHANGED <<phase, env, available, credentials, heap, pc, local>>

-----------------------------------------------------------------------------

RefreshStep(p) ==
  \/ Discover(p) \/ DiscoverFails(p)
  \/ PublishAvailable(p) \/ ClearBillets(p)
  \/ NextBillet(p) \/ CommitBillets(p)
  \/ SnapshotSubscriptions(p) \/ NextSubscription(p) \/ MarkPending(p)
  \/ InstallSubscription(p) \/ FinishRefresh(p)
  \/ GenerateKey(p) \/ RegenerateKey(p) \/ Respond(p)
  \/ ExchangeSucceeds(p) \/ ExchangeFails(p) \/ ExchangePanics(p)

\* The process is gone, and its memory with it.
Exited == ~ Up /\ UNCHANGED vars

Next ==
  \/ ChangeEntitlement
  \/ WakeLoop
  \/ StopLoop
  \/ \E p \in Procs : RefreshStep(p)
  \/ \E r \in Requests, w \in Workers : CreateSubscription(r, w)
  \/ \E id \in SubIds : DeleteSubscription(id)
  \/ Exited

Spec == Init /\ [][Next]_vars

\* time.After fires, and calls return: those of a triggered refresh because its
\* context has a timeout, discovery and exchanges because the client has one.
\* Only the loop asks its identity source on a context without a deadline.
\* Nothing makes the environment or a client act.
Fairness ==
  /\ WF_vars(WakeLoop)
  /\ WF_vars(RefreshStep(Loop) /\ pc[Loop] # "discover")
  /\ \A w \in Workers : WF_vars(RefreshStep(w))

FairSpec == Spec /\ Fairness

-----------------------------------------------------------------------------
(* What the GET handlers serve.                                            *)

Subscribed(id) == subscriptions[id] # None
Sub(id) == heap[subscriptions[id]]
Ready(id) == Subscribed(id) /\ Sub(id).status = "ready"
Quiescent == Up /\ \A p \in Procs : pc[p] = "idle"

\* The private key served next to a certificate is the certificate's.
Paired(c) == c # None => (c.cert # None => c.key = c.cert)

-----------------------------------------------------------------------------
(* Safety.                                                                 *)

\* A certificate served for a subscription comes with its own private key,
\* whatever DELETE, clean-up and other refreshes did to d.keys while the
\* exchange was away.
SubscriptionKeyPaired ==
  \A id \in SubIds : Subscribed(id) => Paired(Sub(id).cred)

\* A client fetches cert.pem and key.pem with two requests: as long as the
\* subscription is not deleted, renewals in between keep its private key.
KeyKeptWhileSubscribed ==
  [][\A id \in SubIds :
       /\ Subscribed(id)
       /\ subscriptions'[id] = subscriptions[id]
       /\ Sub(id).cred # None
       => Sub(id)'.cred # None /\ Sub(id)'.cred.key = Sub(id).cred.key]_vars

\* A subscription serves a token for its own billets and audience, never one
\* exchanged for a deleted subscription that had the same id.
ServesOwnToken ==
  \A id \in SubIds : Subscribed(id) =>
    /\ IdOf[Sub(id).req] = id
    /\ Ready(id) => Sub(id).cred # None
    /\ Sub(id).cred # None => Sub(id).cred.scope = Sub(id).req

\* The same for billets, "Returns the EC private key PEM paired with the
\* billet certificate": it holds for a configured list and is violated when
\* discovery lets two refreshes disagree on the billets.
BilletKeyPaired == \A b \in Billets : Paired(credentials[b])

\* While no refresh runs, a pending subscription does not claim to wait for a
\* billet that the manifest lists as available.
WaitingIsCurrent ==
  Quiescent => \A id \in SubIds : Subscribed(id) =>
                 Sub(id).waiting \cap available = {}

\* While no refresh runs, d.keys holds no key under the id of a subscription
\* that does not exist (any more).
KeysOwned ==
  Quiescent => \A id \in SubIds : keys[id] # None => Subscribed(id)

\* Run keeps "the refresh loop" going "until ctx is cancelled": once the first
\* refresh has succeeded, no answer to a later one ends the process.  Violated:
\* see ExchangePanics.
RunsUntilCancelled ==
  [][phase = "running" => phase' \in {"running", "stopped"}]_vars

-----------------------------------------------------------------------------
(* Liveness, under FairSpec: the environment interferes at most MaxFaults  *)
(* times, so it eventually leaves the daemon alone.  What the loop ends up *)
(* with depends on an identity source that answers it.                     *)

LoopIdentified == []<>(Up => pc[Loop] # "discover")

Served == {b \in Billets : credentials[b] # None}
Entitled(id) == Subscribed(id) /\ BilletsOf[Sub(id).req] \subseteq entitled

\* The daemon ends up serving exactly what the workload is entitled to, and no
\* refresh that started before the last change undoes it: unless nothing is
\* left, see RevokedWithdrawn.
Converges ==
  LoopIdentified =>
    <>[](Up /\ entitled # {} => /\ available = entitled
                                /\ Served = entitled
                                /\ \A id \in SubIds : Ready(id) => Entitled(id))

\* A subscription whose billets the workload has becomes ready.
SubscriptionBecomesReady ==
  LoopIdentified =>
    \A id \in SubIds : Entitled(id) ~> (~ Up \/ ~ Entitled(id) \/ Ready(id))

\* The manifest shows "entitled billets and active credentials": the
\* credential of a revoked billet is eventually withdrawn.  Violated when it
\* was the last one: an empty discovery leaves d.credentials alone.
RevokedWithdrawn == LoopIdentified => <>[](Up => Served \subseteq entitled)

-----------------------------------------------------------------------------
(* The inductive invariant behind TypeOK, ServesOwnToken,                  *)
(* SubscriptionKeyPaired and KeyKeptWhileSubscribed.                       *)

InExchange(p) ==
  pc[p] \in {"generate", "exchange", "respond", "regenerate", "install"}
Answered(p) == pc[p] \in {"respond", "regenerate", "install"}

\* A refresh visits billets in refreshAutoBillets and objects that exist, under
\* their ids, in refreshSubscriptions, and has what its next step needs.
ControlAt(p) ==
  /\ InExchange(p) <=> target[p] # None
  /\ Answered(p) => response[p] # None
  /\ \A t \in Visits(p) :
       /\ IsSub(t) => heap[t.obj] # None /\ t.keyID = IdOf[heap[t.obj].req]
       /\ ~ IsSub(t) => t.keyID \in Billets
       /\ pc[p] \in {"subs", "install"} => IsSub(t)
       /\ pc[p] = "billets" => ~ IsSub(t)
       /\ target[p] # None => (IsSub(t) <=> IsSub(target[p]))

\* An id leads to an object with that id.
ControlInv ==
  /\ \A p \in Procs : ControlAt(p)
  /\ \A id \in SubIds : Subscribed(id) =>
       Sub(id) # None /\ IdOf[Sub(id).req] = id

\* What an object holds was exchanged for its request.
ScopeInv ==
  /\ \A o \in Objects : heap[o] # None =>
       /\ heap[o].status = "ready" => heap[o].cred # None
       /\ heap[o].cred # None => heap[o].cred.scope = heap[o].req
  /\ \A p \in Procs : Answered(p) /\ IsSub(target[p]) =>
       response[p].scope = heap[target[p].obj].req

\* The object a refresh exchanges for is still the subscription.
Live(p) == /\ InExchange(p)
           /\ IsSub(target[p])
           /\ subscriptions[target[p].keyID] = target[p].obj

\* Once a refresh has read or made the key of a subscription, d.keys keeps it
\* until the subscription is deleted: every key on its way to a live
\* subscription is the one in d.keys, and so is that of every certificate.
KeyOf(c, id) == /\ c.cert \in {keys[id], None}
                /\ c.key = keys[id]
                /\ CSREnabled => keys[id] # None

KeyAt(p) ==
  LET key == keys[target[p].keyID]
  IN  /\ pc[p] # "generate" /\ CSREnabled => key # None
      /\ pc[p] \in {"exchange", "respond", "regenerate"} => csrKey[p] = key
      /\ Answered(p) => response[p].cert \in {key, None}
      /\ pc[p] = "install" => response[p].key = key

NoKeys == /\ \A n \in KeyIds : keys[n] = None
          /\ \A p \in Procs : /\ csrKey[p] = None
                               /\ pc[p] \notin {"generate", "regenerate"}

KeyInv ==
  /\ \A id \in SubIds :
       Subscribed(id) /\ Sub(id).cred # None => KeyOf(Sub(id).cred, id)
  /\ \A p \in Procs : Live(p) => KeyAt(p)
  /\ ~ CSREnabled => NoKeys

IInv == TypeOK /\ ControlInv /\ ScopeInv /\ KeyInv

-----------------------------------------------------------------------------
(* The same for the billets of a configured list.                          *)

\* No subscription id is the name of a configured billet.
BilletsConfigured == Configured # {} /\ Configured \cap SubIds = {}

\* All refreshes have the same billets, so none cleans up another's keys.
AgreedInv ==
  \A p \in Procs :
    /\ pc[p] \notin {"idle", "discover"} => discovered[p] = Configured
    /\ \A t \in Visits(p) : ~ IsSub(t) => t.keyID \in Configured

\* Every key on its way to a billet, or there, is the one d.keys has for it, and
\* so is that of every certificate.
BilletKeysInv ==
  /\ AgreedInv
  /\ \A p \in Procs : InExchange(p) /\ ~ IsSub(target[p]) => KeyAt(p)
  /\ \A c \in {credentials} \cup {updated[p] : p \in Procs} :
       \A b \in Billets : c[b] # None => b \in Configured /\ KeyOf(c[b], b)

=============================================================================
