---------------------------- MODULE DaemonProofs ----------------------------
(* Theorems about Daemon, for every value of its constants.                *)
EXTENDS Daemon, TLAPS

USE DEF Procs, KeyIds, Keys, MaybeKey, MaybeCredential

\* The initial state is typed and every refresh is where ControlInv wants it.
LEMMA InitTypes == Init => TypeOK /\ ControlInv
  <1> SUFFICES ASSUME Init PROVE TypeOK /\ ControlInv
    OBVIOUS
  <1>1. TypeOK
    <2>1. 0 \in 0..MaxFaults
      BY ConstantsAssumption
    <2> QED
      BY <2>1 DEF Init, TypeOK, NoCredentials, Steps
  <1>2. \A p \in Procs : /\ Visits(p) = {} /\ target[p] = None
                          /\ ~ InExchange(p) /\ ~ Answered(p)
    BY DEF Init, Visits, InExchange, Answered
  <1>3. \A id \in SubIds : ~ Subscribed(id)
    BY DEF Init, Subscribed
  <1>4. ControlInv
    BY <1>2, <1>3, Zenon DEF ControlInv, ControlAt
  <1> QED
    BY <1>1, <1>4

\* Collect, the end of credentialFromResponse, keeps the locals typed.
LEMMA CollectTypes ==
  ASSUME TypeOK, NEW p \in Procs, NEW k \in MaybeKey,
         target[p] \in Target, response[p] \in Credential, Collect(p, k)
  PROVE  /\ pc' \in [Procs -> Steps]
         /\ target' \in [Procs -> Target \cup {None}]
         /\ csrKey' \in [Procs -> MaybeKey]
         /\ response' \in [Procs -> MaybeCredential]
         /\ updated' \in [Procs -> [Billets -> MaybeCredential]]
  <1> DEFINE cred == [response[p] EXCEPT !.key = k]
  <1>1. cred \in Credential
    BY DEF Credential
  <1>2. /\ IF IsSub(target[p])
           THEN /\ response' = [response EXCEPT ![p] = cred]
                /\ Goto(p, "install")
                /\ UNCHANGED <<target, updated>>
           ELSE /\ updated' = [updated EXCEPT ![p][target[p].keyID] = cred]
                /\ response' = [response EXCEPT ![p] = None]
                /\ target' = [target EXCEPT ![p] = None]
                /\ Goto(p, "billets")
        /\ csrKey' = [csrKey EXCEPT ![p] = None]
    BY DEF Collect
  <1> HIDE DEF cred
  <1>3. CASE IsSub(target[p])
    BY <1>1, <1>2, <1>3 DEF Goto, TypeOK, Steps
  <1>4. CASE ~ IsSub(target[p])
    BY <1>1, <1>2, <1>4, SMTT(30) DEF Goto, TypeOK, Steps
  <1> QED
    BY <1>3, <1>4

\* MarkPending replaces one existing object.
LEMMA MarkPendingEffect ==
  ASSUME TypeOK, NEW p \in Procs, ControlAt(p), MarkPending(p)
  PROVE  \E t \in todo[p], s \in Subscription :
           /\ t.obj \in Objects /\ heap[t.obj] \in Subscription
           /\ heap' = [heap EXCEPT ![t.obj] = s]
           /\ s.req = heap[t.obj].req /\ s.cred = heap[t.obj].cred
           /\ s.status = "pending"
           /\ todo' = [todo EXCEPT ![p] = @ \ {t}]
  <1>1. PICK t \in todo[p] :
          /\ heap' = [heap EXCEPT ![t.obj] =
               [@ EXCEPT !.status = "pending", !.waiting = Missing(p, t)]]
          /\ todo' = [todo EXCEPT ![p] = @ \ {t}]
    BY DEF MarkPending
  <1> DEFINE s == [heap[t.obj] EXCEPT !.status = "pending",
                                      !.waiting = Missing(p, t)]
  <1>2. IsSub(t) /\ t.obj \in Objects /\ heap[t.obj] \in Subscription
    BY <1>1 DEF MarkPending, TypeOK, ControlAt, Visits, IsSub, Target
  <1>3. Missing(p, t) \subseteq Billets
    BY <1>2, ConstantsAssumption DEF Missing, BilletsFor, Subscription
  <1>4. /\ s \in Subscription /\ s.status = "pending"
        /\ s.req = heap[t.obj].req /\ s.cred = heap[t.obj].cred
    BY <1>2, <1>3 DEF Subscription
  <1>5. heap' = [heap EXCEPT ![t.obj] = s]
    BY <1>1, Zenon
  <1> HIDE DEF s
  <1> QED
    BY <1>1, <1>2, <1>4, <1>5

\* InstallSubscription replaces the object it exchanged for.
LEMMA InstallEffect ==
  ASSUME TypeOK, NEW p \in Procs, ControlAt(p), InstallSubscription(p)
  PROVE  LET o == target[p].obj
         IN  /\ target[p] \in Visits(p) /\ IsSub(target[p])
             /\ o \in Objects /\ heap[o] \in Subscription
             /\ response[p] \in Credential
             /\ \E s \in Subscription :
                  /\ heap' = [heap EXCEPT ![o] = s]
                  /\ s.req = heap[o].req /\ s.cred = response[p]
                  /\ s.status = "ready"
  <1> DEFINE o == target[p].obj
             s == [heap[o] EXCEPT !.status = "ready", !.waiting = {},
                                  !.cred = response[p]]
  <1>1. target[p] \in Target /\ target[p] \in Visits(p) /\ IsSub(target[p])
    BY DEF InstallSubscription, TypeOK, ControlAt, Visits, InExchange
  <1>2. o \in Objects /\ heap[o] \in Subscription /\ response[p] \in Credential
    BY <1>1 DEF InstallSubscription, TypeOK, ControlAt, Answered, IsSub, Target
  <1>3. /\ s \in Subscription /\ s.req = heap[o].req /\ s.cred = response[p]
        /\ s.status = "ready"
    BY <1>2 DEF Subscription
  <1>4. heap' = [heap EXCEPT ![o] = s]
    BY Zenon DEF InstallSubscription
  <1> HIDE DEF s
  <1> QED
    BY <1>1, <1>2, <1>3, <1>4

\* RegenerateKey passes on a key for what it exchanged for.
LEMMA RegenerateEffect ==
  ASSUME TypeOK, NEW p \in Procs, ControlAt(p), RegenerateKey(p)
  PROVE  LET n == target[p].keyID
         IN  /\ target[p] \in Target /\ response[p] \in Credential
             /\ \E k \in MaybeKey : /\ k \in KeyChoices(n)
                                   /\ keys' = [keys EXCEPT ![n] = k]
                                   /\ Collect(p, k)
  <1> DEFINE n == target[p].keyID
  <1>1. target[p] \in Target /\ response[p] \in Credential
    BY DEF RegenerateKey, TypeOK, ControlAt, InExchange, Answered
  <1>2. PICK k \in KeyChoices(n) :
          keys' = [keys EXCEPT ![n] = k] /\ Collect(p, k)
    BY DEF RegenerateKey
  <1>3. n \in KeyIds /\ k \in MaybeKey
    BY <1>1 DEF KeyChoices, Target, TypeOK
  <1> QED
    BY <1>1, <1>2, <1>3

\* So does Respond, unless it finds there is none.
LEMMA RespondEffect ==
  ASSUME TypeOK, NEW p \in Procs, ControlAt(p), Respond(p)
  PROVE  LET key == keys[target[p].keyID]
         IN  /\ target[p] \in Target /\ response[p] \in Credential
             /\ key \in MaybeKey
             /\ \/ /\ CSREnabled /\ key = None
                   /\ pc' = [pc EXCEPT ![p] = "regenerate"]
                   /\ UNCHANGED <<target, csrKey, response, updated>>
                \/ CSREnabled /\ key # None /\ Collect(p, key)
                \/ ~ CSREnabled /\ Collect(p, None)
  <1>1. target[p] \in Target /\ response[p] \in Credential
    BY DEF Respond, TypeOK, ControlAt, InExchange, Answered
  <1>2. keys[target[p].keyID] \in MaybeKey
    BY <1>1 DEF Target, TypeOK
  <1>3. CASE CSREnabled /\ keys[target[p].keyID] = None
    BY <1>1, <1>2, <1>3 DEF Respond, Goto
  <1>4. CASE ~ (CSREnabled /\ keys[target[p].keyID] = None)
    BY <1>1, <1>2, <1>4 DEF Respond
  <1> QED
    BY <1>3, <1>4

\* ExchangeSucceeds builds a credential for what was asked, with a certificate
\* for the key that signed the CSR or none.
LEMMA ExchangeEffect ==
  ASSUME TypeOK, NEW p \in Procs, ControlAt(p), ExchangeSucceeds(p)
  PROVE  \E c \in Credential : /\ response' = [response EXCEPT ![p] = c]
                               /\ c.scope = ScopeOf(target[p])
                               /\ c.cert \in {csrKey[p], None}
  <1>0. PICK cert \in {csrKey[p], None} :
          response' = [response EXCEPT ![p] =
            [scope |-> ScopeOf(target[p]), cert |-> cert, key |-> None]]
    BY DEF ExchangeSucceeds
  <1> DEFINE c == [scope |-> ScopeOf(target[p]), cert |-> cert, key |-> None]
  <1>1. target[p] \in Target /\ target[p] \in Visits(p)
    BY DEF ExchangeSucceeds, TypeOK, ControlAt, InExchange, Visits
  <1>2. ScopeOf(target[p]) \in Billets \cup Requests
    BY <1>1 DEF ControlAt, ScopeOf, IsSub, TypeOK, Target, Subscription
  <1>3. c \in Credential /\ c.scope = ScopeOf(target[p]) /\ c.cert = cert
    BY <1>0, <1>2 DEF Credential, TypeOK, MaybeKey
  <1>4. response' = [response EXCEPT ![p] = c]
    BY <1>0
  <1> HIDE DEF c
  <1> QED
    BY <1>3, <1>4

\* Every step keeps the types.
LEMMA NextTypes == TypeOK /\ ControlInv /\ [Next]_vars => TypeOK'
  <1> SUFFICES ASSUME TypeOK, ControlInv, [Next]_vars
               PROVE  TypeOK'
    OBVIOUS
  <1>0. /\ MaxFaults \in Nat
        /\ IdOf \in [Requests -> SubIds]
        /\ Configured \subseteq Billets
    BY ConstantsAssumption
  <1>1. CASE ChangeEntitlement
    BY <1>0, <1>1 DEF ChangeEntitlement, TypeOK, Fault, store, local
  <1>2. CASE WakeLoop
    BY <1>2 DEF WakeLoop, Wake, Goto, TypeOK, env, store, local, Steps
  <1>3. CASE StopLoop
    BY <1>3 DEF StopLoop, TypeOK, env, store, local
  <1>4. ASSUME NEW p \in Procs, Discover(p) PROVE TypeOK'
    BY <1>0, <1>4, SMTT(30) DEF Discover, Goto, Fault, TypeOK, store, Steps
  <1>5. ASSUME NEW p \in Procs, DiscoverFails(p) PROVE TypeOK'
    BY <1>0, <1>5
    DEF DiscoverFails, Return, Goto, Fault, TypeOK, store, Steps, NoCredentials
  <1>6. ASSUME NEW p \in Procs, PublishAvailable(p) PROVE TypeOK'
    <2>1. [keyID : discovered[p], obj : {None}] \subseteq Target
      BY DEF TypeOK, Target
    <2> DEFINE T == [keyID : discovered[p], obj : {None}]
    <2>2. /\ IF AutoPerBillet
             THEN /\ Goto(p, IF discovered[p] # {} THEN "billets"
                                                ELSE "snapshot")
                  /\ todo' = [todo EXCEPT ![p] = T]
             ELSE Goto(p, "clear") /\ UNCHANGED todo
          /\ available' = discovered[p]
          /\ UNCHANGED <<phase, env, credentials, subscriptions, keys, heap,
                         discovered, target, csrKey, response, updated,
                         firstErr>>
      BY <1>6 DEF PublishAvailable
    <2> HIDE DEF T
    <2> QED
      BY <2>1, <2>2, ZenonT(60) DEF Goto, TypeOK, env, Steps, T
  <1>7. ASSUME NEW p \in Procs, ClearBillets(p) PROVE TypeOK'
    BY <1>7 DEF ClearBillets, Goto, TypeOK, env, local, Steps, NoCredentials
  <1>8. ASSUME NEW p \in Procs, NextBillet(p) PROVE TypeOK'
    BY <1>8
    DEF NextBillet, StartExchange, Goto, TypeOK, env, store, Steps, Target
  <1>9. ASSUME NEW p \in Procs, CommitBillets(p) PROVE TypeOK'
    BY <1>9 DEF CommitBillets, Goto, TypeOK, env, Steps, NoCredentials
  <1>10. ASSUME NEW p \in Procs, SnapshotSubscriptions(p) PROVE TypeOK'
    BY <1>10 DEF SnapshotSubscriptions, Goto, TypeOK, env, store, Steps, Target
  <1>11. ASSUME NEW p \in Procs, NextSubscription(p) PROVE TypeOK'
    BY <1>11
    DEF NextSubscription, StartExchange, Goto, TypeOK, env, store, Steps,
        Target
  <1>12. ASSUME NEW p \in Procs, MarkPending(p) PROVE TypeOK'
    <2>1. PICK t \in todo[p], s \in Subscription :
            t.obj \in Objects /\ heap' = [heap EXCEPT ![t.obj] = s]
            /\ todo' = [todo EXCEPT ![p] = @ \ {t}]
      BY <1>12, MarkPendingEffect DEF ControlInv
    <2> QED
      BY <1>12, <2>1 DEF MarkPending, TypeOK, env
  <1>13. ASSUME NEW p \in Procs, InstallSubscription(p) PROVE TypeOK'
    <2>1. PICK s \in Subscription : heap' = [heap EXCEPT ![target[p].obj] = s]
      BY <1>13, InstallEffect DEF ControlInv
    <2> QED
      BY <1>13, <2>1, ZenonT(60) DEF InstallSubscription, Goto, TypeOK, env, Steps
  <1>14. ASSUME NEW p \in Procs, FinishRefresh(p) PROVE TypeOK'
    BY <1>14
    DEF FinishRefresh, Return, Goto, TypeOK, env, store, Steps, NoCredentials
  <1>15. ASSUME NEW p \in Procs, GenerateKey(p) PROVE TypeOK'
    BY <1>15
    DEF GenerateKey, KeyChoices, Goto, TypeOK, ControlInv, ControlAt,
        InExchange, env, Steps, Target
  <1>16. ASSUME NEW p \in Procs, RegenerateKey(p) PROVE TypeOK'
    <2> DEFINE n == target[p].keyID
    <2>1. target[p] \in Target /\ response[p] \in Credential
      BY <1>16, RegenerateEffect DEF ControlInv
    <2>2. PICK k \in MaybeKey : keys' = [keys EXCEPT ![n] = k] /\ Collect(p, k)
      BY <1>16, RegenerateEffect DEF ControlInv
    <2> QED
      BY <1>16, <2>1, <2>2, CollectTypes DEF RegenerateKey, TypeOK, env
  <1>17. ASSUME NEW p \in Procs, Respond(p) PROVE TypeOK'
    <2>1. CASE UNCHANGED <<target, csrKey, response, updated>>
               /\ pc' = [pc EXCEPT ![p] = "regenerate"]
      BY <1>17, <2>1 DEF Respond, TypeOK, env, store, Steps
    <2>2. ASSUME NEW k \in MaybeKey, Collect(p, k) PROVE TypeOK'
      <3>1. target[p] \in Target /\ response[p] \in Credential
        BY <1>17, RespondEffect DEF ControlInv
      <3> QED
        BY <1>17, <2>2, <3>1, CollectTypes DEF Respond, TypeOK, env, store
    <2> QED
      BY <1>17, <2>1, <2>2, RespondEffect DEF ControlInv
  <1>18. ASSUME NEW p \in Procs, ExchangeSucceeds(p) PROVE TypeOK'
    <2>1. PICK c \in Credential : response' = [response EXCEPT ![p] = c]
      BY <1>18, ExchangeEffect DEF ControlInv
    <2> QED
      BY <1>18, <2>1 DEF ExchangeSucceeds, Goto, TypeOK, env, store, Steps
  <1>19. ASSUME NEW p \in Procs, ExchangeFails(p) PROVE TypeOK'
    BY <1>0, <1>19
    DEF ExchangeFails, Goto, Fault, LoopHead, TypeOK, store, Steps
  <1>20. ASSUME NEW p \in Procs, ExchangePanics(p) PROVE TypeOK'
    BY <1>0, <1>20 DEF ExchangePanics, Fault, TypeOK, store, local
  <1>21. ASSUME NEW r \in Requests, NEW w \in Workers, CreateSubscription(r, w)
         PROVE  TypeOK'
    BY <1>0, <1>21
    DEF CreateSubscription, Wake, Goto, TypeOK, env, local, Steps, Subscription
  <1>22. ASSUME NEW id \in SubIds, DeleteSubscription(id) PROVE TypeOK'
    BY <1>22 DEF DeleteSubscription, TypeOK, env, local
  <1>23. CASE UNCHANGED vars
    BY <1>23 DEF TypeOK, vars, env, store, local
  <1> QED
    BY <1>1, <1>2, <1>3, <1>4, <1>5, <1>6, <1>7, <1>8, <1>9, <1>10, <1>11,
       <1>12, <1>13, <1>14, <1>15, <1>16, <1>17, <1>18, <1>19, <1>20, <1>21,
       <1>22, <1>23
    DEF Next, RefreshStep, Exited

-----------------------------------------------------------------------------

\* The local variables of refresh q.
Same(q) ==
  /\ pc'[q] = pc[q] /\ todo'[q] = todo[q] /\ target'[q] = target[q]
  /\ csrKey'[q] = csrKey[q] /\ response'[q] = response[q]

\* A step of one refresh leaves the locals of the others alone.
LEMMA OthersSame ==
  ASSUME TypeOK, NEW p \in Procs, RefreshStep(p), NEW q \in Procs, q # p
  PROVE  Same(q)
  <1> USE DEF Same, TypeOK, Goto, local
  <1>1. CASE \/ Discover(p) \/ DiscoverFails(p)
             \/ PublishAvailable(p) \/ ClearBillets(p)
    BY <1>1 DEF Discover, DiscoverFails, Return, PublishAvailable, ClearBillets
  <1>2. CASE NextBillet(p) \/ NextSubscription(p)
    BY <1>2 DEF NextBillet, NextSubscription, StartExchange
  <1>3. CASE CommitBillets(p) \/ SnapshotSubscriptions(p) \/ MarkPending(p)
             \/ InstallSubscription(p) \/ FinishRefresh(p)
    BY <1>3 DEF CommitBillets, SnapshotSubscriptions, MarkPending,
                InstallSubscription, FinishRefresh, Return
  <1>4. CASE \/ GenerateKey(p) \/ ExchangeSucceeds(p)
             \/ ExchangeFails(p) \/ ExchangePanics(p)
    BY <1>4 DEF GenerateKey, ExchangeSucceeds, ExchangeFails, ExchangePanics
  <1>5. CASE Respond(p) \/ RegenerateKey(p)
    BY <1>5, ZenonT(60) DEF Respond, RegenerateKey, Collect
  <1> QED
    BY <1>1, <1>2, <1>3, <1>4, <1>5 DEF RefreshStep

\* Only three actions write objects.
LEMMA HeapFrame ==
  ASSUME [Next]_vars,
         \A p \in Procs : ~ MarkPending(p) /\ ~ InstallSubscription(p),
         \A r \in Requests, w \in Workers : ~ CreateSubscription(r, w)
  PROVE  UNCHANGED heap
  BY DEF Next, ChangeEntitlement, WakeLoop, StopLoop, DeleteSubscription, Exited,
     vars, store, RefreshStep, Discover, DiscoverFails, PublishAvailable,
     ClearBillets, NextBillet, CommitBillets, SnapshotSubscriptions,
     NextSubscription, FinishRefresh, GenerateKey, RegenerateKey, Respond,
     ExchangeSucceeds, ExchangeFails, ExchangePanics

\* Only the two handlers write d.subscriptions.
LEMMA SubscriptionsFrame ==
  ASSUME [Next]_vars,
         \A id \in SubIds : ~ DeleteSubscription(id),
         \A r \in Requests, w \in Workers : ~ CreateSubscription(r, w)
  PROVE  UNCHANGED subscriptions
  BY ZenonT(60) DEF Next, ChangeEntitlement, WakeLoop, StopLoop, Exited,
     vars, store, RefreshStep, Discover, DiscoverFails, PublishAvailable,
     ClearBillets, NextBillet, CommitBillets, SnapshotSubscriptions,
     NextSubscription, MarkPending, InstallSubscription, FinishRefresh, GenerateKey,
     RegenerateKey, Respond, ExchangeSucceeds, ExchangeFails, ExchangePanics

\* Only keyPEM, the clean-up and DELETE write d.keys.
LEMMA KeysFrame ==
  ASSUME [Next]_vars,
         \A p \in Procs : /\ ~ GenerateKey(p) /\ ~ RegenerateKey(p)
                          /\ ~ CommitBillets(p),
         \A id \in SubIds : ~ DeleteSubscription(id)
  PROVE  UNCHANGED keys
  BY ZenonT(60) DEF Next, ChangeEntitlement, WakeLoop, StopLoop, CreateSubscription,
     Exited, vars, store, RefreshStep, Discover, DiscoverFails,
     PublishAvailable, ClearBillets, NextBillet, SnapshotSubscriptions,
     NextSubscription, MarkPending, InstallSubscription, FinishRefresh,
     Respond, ExchangeSucceeds, ExchangeFails, ExchangePanics

\* A new subscription is a fresh object.
LEMMA CreateEffect ==
  ASSUME TypeOK, NEW r \in Requests, NEW w \in Workers, CreateSubscription(r, w)
  PROVE  \/ UNCHANGED <<subscriptions, heap>>
         \/ \E o \in Objects, s \in Subscription :
              /\ o \notin Reachable
              /\ subscriptions' = [subscriptions EXCEPT ![IdOf[r]] = o]
              /\ heap' = [heap EXCEPT ![o] = s]
              /\ s.req = r /\ s.status = "pending" /\ s.cred = None
  <1> DEFINE s == [req |-> r, status |-> "pending", waiting |-> {},
                   cred |-> None]
  <1>1. /\ s \in Subscription /\ s.req = r
        /\ s.status = "pending" /\ s.cred = None
    BY DEF Subscription
  <1>2. \/ UNCHANGED <<subscriptions, heap>>
        \/ \E o \in Objects \ Reachable :
             /\ subscriptions' = [subscriptions EXCEPT ![IdOf[r]] = o]
             /\ heap' = [heap EXCEPT ![o] = s]
    BY DEF CreateSubscription
  <1> HIDE DEF s
  <1> QED
    BY <1>1, <1>2

\* An object somebody points to keeps its request.
LEMMA RequestKept ==
  ASSUME TypeOK, ControlInv, [Next]_vars,
         NEW o \in Reachable, o \in Objects, heap[o] # None
  PROVE  heap'[o] # None /\ heap'[o].req = heap[o].req
  <1> USE DEF TypeOK, ControlInv
  <1>1. heap[o] \in Subscription /\ \A s \in Subscription : s # None
    BY ConstantsAssumption
  <1>2. CASE UNCHANGED heap
    BY <1>2
  <1>3. ASSUME NEW p \in Procs, MarkPending(p)
        PROVE  heap'[o] # None /\ heap'[o].req = heap[o].req
    BY <1>1, <1>3, MarkPendingEffect
  <1>4. ASSUME NEW p \in Procs, InstallSubscription(p)
        PROVE  heap'[o] # None /\ heap'[o].req = heap[o].req
    BY <1>1, <1>4, InstallEffect
  <1>5. ASSUME NEW r \in Requests, NEW w \in Workers, CreateSubscription(r, w)
        PROVE  heap'[o] # None /\ heap'[o].req = heap[o].req
    BY <1>5 DEF CreateSubscription
  <1> QED
    BY <1>2, <1>3, <1>4, <1>5, HeapFrame

\* What a refresh still has to visit stays as ControlAt says.
LEMMA VisitKept ==
  ASSUME TypeOK, ControlInv, [Next]_vars, NEW q \in Procs, NEW t \in Visits(q)
  PROVE  /\ IsSub(t) => heap'[t.obj] # None /\ t.keyID = IdOf[heap'[t.obj].req]
         /\ ~ IsSub(t) => t.keyID \in Billets
  <1>1. t \in Target
    BY DEF Visits, TypeOK
  <1>2. IsSub(t) => t.obj \in Objects
    BY <1>1 DEF IsSub, Target
  <1>3. t.obj \in Reachable
    BY DEF Reachable
  <1> QED
    BY <1>2, <1>3, RequestKept DEF ControlInv, ControlAt

\* Seen from refresh q a step is its own, its start, or somebody else's.
LEMMA StepOf ==
  ASSUME TypeOK, [Next]_vars, NEW q \in Procs
  PROVE  \/ Same(q)
         \/ RefreshStep(q)
         \/ pc[q] = "idle" /\ pc'[q] = "discover" /\ UNCHANGED local
  <1>1. CASE \E p \in Procs : RefreshStep(p)
    BY <1>1, OthersSame
  <1>2. CASE WakeLoop
    BY <1>2 DEF WakeLoop, Wake, Goto, Same, local, TypeOK
  <1>3. CASE \E r \in Requests, w \in Workers : CreateSubscription(r, w)
    BY <1>3 DEF CreateSubscription, Wake, Goto, Same, local, TypeOK
  <1>4. CASE ChangeEntitlement \/ StopLoop \/ Exited \/ UNCHANGED vars
             \/ \E id \in SubIds : DeleteSubscription(id)
    BY <1>4 DEF ChangeEntitlement, StopLoop, Exited, DeleteSubscription, vars,
                local, Same
  <1> QED
    BY <1>1, <1>2, <1>3, <1>4 DEF Next

\* Every step leaves every refresh with what its next step needs.
LEMMA NextControlAt ==
  ASSUME TypeOK, ControlInv, [Next]_vars, NEW q \in Procs
  PROVE  ControlAt(q)'
  <1> DEFINE Kept(t) == /\ IsSub(t) => /\ heap'[t.obj] # None
                                       /\ t.keyID = IdOf[heap'[t.obj].req]
                        /\ ~ IsSub(t) => t.keyID \in Billets
  <1>1. ControlAt(q) /\ \A t \in Visits(q) : Kept(t)
    BY VisitKept DEF ControlInv
  <1> HIDE DEF Kept
  <1>2. CASE Same(q)
    BY <1>1, <1>2
    DEF Same, ControlAt, Visits, InExchange, Answered, IsSub, Kept
  <1>3. CASE pc[q] = "idle" /\ pc'[q] = "discover" /\ UNCHANGED local
    BY <1>1, <1>3
    DEF local, ControlAt, Visits, InExchange, Answered, IsSub, Kept
  <1>4. CASE RefreshStep(q)
    <2> USE DEF TypeOK, Goto, InExchange, Answered, IsSub
    <2>0. ASSUME NEW t \in todo[q], StartExchange(q, t), UNCHANGED response,
                 pc[q] \in {"billets", "subs"}
          PROVE  ControlAt(q)'
      <3>1. /\ target'[q] = t /\ todo'[q] = todo[q] \ {t} /\ t # None
            /\ pc'[q] \in {"generate", "exchange"}
        BY <2>0, ConstantsAssumption DEF StartExchange
      <3>2. \A u \in todo[q] : Kept(u) /\ (IsSub(u) <=> IsSub(t))
        BY <1>1, <2>0 DEF ControlAt, Visits
      <3> QED
        BY <2>0, <3>1, <3>2 DEF ControlAt, Visits, Kept
    <2>1. CASE Discover(q)
      BY <1>1, <2>1 DEF Discover, ControlAt, Visits, Kept
    <2>2. CASE DiscoverFails(q)
      BY <2>2 DEF DiscoverFails, Return, ControlAt, Visits
    <2>3. CASE PublishAvailable(q)
      <3>1. /\ target'[q] = None /\ ~ InExchange(q)' /\ ~ Answered(q)'
            /\ pc'[q] \notin {"subs", "install"}
        BY <1>1, <2>3 DEF PublishAvailable, ControlAt
      <3>2. CASE AutoPerBillet
        <4>0. /\ todo'[q] = [keyID : discovered[q], obj : {None}]
              /\ discovered[q] \subseteq Billets
          BY <2>3, <3>2, Zenon DEF PublishAvailable
        <4>1. \A t \in todo'[q] : ~ IsSub(t) /\ t.keyID \in Billets
          BY <4>0
        <4>2. Visits(q)' = todo'[q]
          BY <3>1 DEF Visits
        <4> QED
          BY <3>1, <4>1, <4>2 DEF ControlAt
      <3>3. CASE ~ AutoPerBillet
        BY <1>1, <2>3, <3>1, <3>3 DEF PublishAvailable, ControlAt, Visits, Kept
      <3> QED
        BY <3>2, <3>3
    <2>4. CASE ClearBillets(q)
      BY <1>1, <2>4 DEF ClearBillets, local, ControlAt, Visits, Kept
    <2>5. CASE NextBillet(q)
      <3>1. PICK t \in todo[q] : StartExchange(q, t)
        BY <2>5 DEF NextBillet
      <3> QED
        BY <1>1, <2>5, <2>0, <3>1 DEF NextBillet
    <2>6. CASE CommitBillets(q)
      BY <1>1, <2>6 DEF CommitBillets, ControlAt, Visits, Kept
    <2>7. CASE SnapshotSubscriptions(q)
      <3>1. \A t \in todo'[q] : /\ IsSub(t) /\ heap[t.obj] # None
                               /\ t.keyID = IdOf[heap[t.obj].req]
        BY <2>7 DEF SnapshotSubscriptions, ControlInv, Subscribed, Sub
      <3>2. /\ target'[q] = None /\ ~ InExchange(q)' /\ ~ Answered(q)'
            /\ pc'[q] = "subs" /\ UNCHANGED heap
        BY <1>1, <2>7 DEF SnapshotSubscriptions, ControlAt, store
      <3> QED
        BY <3>1, <3>2 DEF ControlAt, Visits
    <2>8. CASE NextSubscription(q)
      <3>1. PICK t \in todo[q] : StartExchange(q, t)
        BY <2>8 DEF NextSubscription
      <3> QED
        BY <1>1, <2>8, <2>0, <3>1 DEF NextSubscription
    <2>9. CASE MarkPending(q)
      BY <1>1, <2>9 DEF MarkPending, ControlAt, Visits, Kept
    <2>10. CASE InstallSubscription(q)
      BY <1>1, <2>10 DEF InstallSubscription, ControlAt, Visits, Kept
    <2>11. CASE FinishRefresh(q)
      BY <2>11 DEF FinishRefresh, Return, ControlAt, Visits
    <2>12. CASE GenerateKey(q)
      BY <1>1, <2>12 DEF GenerateKey, ControlAt, Visits, Kept
    <2>13. ASSUME NEW k \in MaybeKey, Collect(q, k), UNCHANGED todo,
                  response[q] \in Credential, target[q] # None,
                  pc[q] \in {"respond", "regenerate"}
           PROVE  ControlAt(q)'
      <3> DEFINE c == [response[q] EXCEPT !.key = k]
      <3>1. c # None
        BY <2>13, ConstantsAssumption, SMTT(30) DEF Credential
      <3>2. CASE IsSub(target[q])
        <4>1. response'[q] = c /\ pc'[q] = "install" /\ target'[q] = target[q]
          BY <2>13, <3>2 DEF Collect
        <4> HIDE DEF c
        <4> QED
          BY <1>1, <2>13, <3>1, <3>2, <4>1 DEF ControlAt, Visits, Kept
      <3>3. CASE ~ IsSub(target[q])
        <4>1. pc'[q] = "billets" /\ target'[q] = None
          BY <2>13, <3>3 DEF Collect
        <4> QED
          BY <1>1, <2>13, <3>3, <4>1 DEF ControlAt, Visits, Kept
      <3> QED
        BY <3>2, <3>3
    <2>14. CASE RegenerateKey(q)
      BY <1>1, <2>13, <2>14, RegenerateEffect DEF RegenerateKey, ControlAt
    <2>15. CASE Respond(q)
      <3>1. CASE UNCHANGED <<target, csrKey, response, updated>>
                 /\ pc' = [pc EXCEPT ![q] = "regenerate"]
        BY <1>1, <2>15, <3>1 DEF Respond, ControlAt, Visits, Kept
      <3>2. CASE \E k \in MaybeKey : Collect(q, k)
        BY <1>1, <2>13, <2>15, <3>2, RespondEffect DEF Respond, ControlAt
      <3> QED
        BY <1>1, <2>15, <3>1, <3>2, RespondEffect
    <2>16. CASE ExchangeSucceeds(q)
      <3>1. response'[q] # None
        BY <1>1, <2>16, ExchangeEffect, ConstantsAssumption
      <3> QED
        BY <1>1, <2>16, <3>1 DEF ExchangeSucceeds, ControlAt, Visits, Kept
    <2>17. CASE ExchangeFails(q)
      BY <1>1, <2>17 DEF ExchangeFails, LoopHead, ControlAt, Visits, Kept
    <2>18. CASE ExchangePanics(q)
      BY <1>1, <2>18 DEF ExchangePanics, local, ControlAt, Visits, Kept
    <2> QED
      BY <1>4, <2>1, <2>2, <2>3, <2>4, <2>5, <2>6, <2>7, <2>8, <2>9, <2>10, <2>11,
         <2>12, <2>13, <2>14, <2>15, <2>16, <2>17, <2>18 DEF RefreshStep
  <1> QED
    BY <1>2, <1>3, <1>4, StepOf

\* Every step leaves ids leading to objects with that id.
LEMMA NextSubscribed ==
  ASSUME TypeOK, ControlInv, [Next]_vars, NEW id \in SubIds, Subscribed(id)'
  PROVE  Sub(id)' # None /\ IdOf[Sub(id)'.req] = id
  <1> USE DEF Subscribed, Sub
  <1>1. CASE subscriptions'[id] = subscriptions[id]
    <2>1. subscriptions[id] \in Reachable /\ subscriptions[id] \in Objects
      BY <1>1 DEF TypeOK, Reachable
    <2> QED
      BY <1>1, <2>1, RequestKept DEF ControlInv
  <1>2. CASE subscriptions'[id] # subscriptions[id]
    <2>1. PICK r \in Requests, w \in Workers : CreateSubscription(r, w)
      BY <1>2, SubscriptionsFrame DEF DeleteSubscription, TypeOK
    <2>2. PICK o \in Objects, s \in Subscription :
            /\ subscriptions' = [subscriptions EXCEPT ![IdOf[r]] = o]
            /\ heap' = [heap EXCEPT ![o] = s]
            /\ s.req = r
      BY <1>2, <2>1, CreateEffect
    <2> QED
      BY <1>2, <2>2, ConstantsAssumption DEF TypeOK
  <1> QED
    BY <1>1, <1>2

\* Every step keeps ControlInv.
LEMMA NextControl == TypeOK /\ ControlInv /\ [Next]_vars => ControlInv'
  BY NextControlAt, NextSubscribed DEF ControlInv

-----------------------------------------------------------------------------

\* An id that leads to an object somebody pointed to has not changed.
LEMMA SubscriptionKept ==
  ASSUME TypeOK, [Next]_vars, NEW id \in SubIds, Subscribed(id)',
         subscriptions'[id] \in Reachable
  PROVE  subscriptions'[id] = subscriptions[id]
  <1> USE DEF TypeOK, Subscribed
  <1>1. ASSUME NEW r \in Requests, NEW w \in Workers, CreateSubscription(r, w)
        PROVE  subscriptions'[id] = subscriptions[id]
    BY <1>1, CreateEffect, ConstantsAssumption
  <1>2. ASSUME NEW i \in SubIds, DeleteSubscription(i)
        PROVE  subscriptions'[id] = subscriptions[id]
    BY <1>2 DEF DeleteSubscription
  <1> QED
    BY <1>1, <1>2, SubscriptionsFrame

\* The key of a subscription that stays, once there is one, stays.
LEMMA KeyKept ==
  ASSUME TypeOK, ControlInv, [Next]_vars, NEW id \in SubIds,
         Subscribed(id), subscriptions'[id] = subscriptions[id], keys[id] # None
  PROVE  keys'[id] = keys[id]
  <1> USE DEF TypeOK
  <1>1. ASSUME NEW p \in Procs, GenerateKey(p) PROVE keys'[id] = keys[id]
    BY <1>1 DEF GenerateKey, KeyChoices
  <1>2. ASSUME NEW p \in Procs, RegenerateKey(p) PROVE keys'[id] = keys[id]
    BY <1>2 DEF RegenerateKey, KeyChoices
  <1>3. ASSUME NEW p \in Procs, CommitBillets(p) PROVE keys'[id] = keys[id]
    BY <1>3 DEF CommitBillets, Retired, Subscribed
  <1>4. ASSUME NEW i \in SubIds, DeleteSubscription(i)
        PROVE  keys'[id] = keys[id]
    BY <1>4 DEF DeleteSubscription, Subscribed
  <1> QED
    BY <1>1, <1>2, <1>3, <1>4, KeysFrame

-----------------------------------------------------------------------------

\* No object exists initially.
LEMMA InitScope == Init => ScopeInv
  BY DEF Init, ScopeInv, Answered

\* Every step keeps the link between a request and what was exchanged for it.
LEMMA NextScope == TypeOK /\ ControlInv /\ ScopeInv /\ [Next]_vars => ScopeInv'
  <1> SUFFICES ASSUME TypeOK, ControlInv, ScopeInv, [Next]_vars
               PROVE  ScopeInv'
    OBVIOUS
  <1> DEFINE Good(s) == /\ s.status = "ready" => s.cred # None
                        /\ s.cred # None => s.cred.scope = s.req
  <1>1. ASSUME NEW o \in Objects, heap'[o] # None PROVE Good(heap'[o])
    <2>1. heap[o] # None => Good(heap[o])
      BY DEF ScopeInv
    <2>2. CASE UNCHANGED heap
      BY <1>1, <2>1, <2>2
    <2>3. ASSUME NEW p \in Procs, MarkPending(p) PROVE Good(heap'[o])
      <3>1. PICK t \in todo[p], s \in Subscription :
              /\ t.obj \in Objects /\ heap[t.obj] \in Subscription
              /\ heap' = [heap EXCEPT ![t.obj] = s]
              /\ s.req = heap[t.obj].req /\ s.cred = heap[t.obj].cred
              /\ s.status = "pending"
        BY <2>3, MarkPendingEffect DEF ControlInv
      <3>2. CASE o = t.obj
        BY <2>1, <3>1, <3>2, ConstantsAssumption DEF TypeOK
      <3>3. CASE o # t.obj
        BY <1>1, <2>1, <3>1, <3>3 DEF TypeOK
      <3> QED
        BY <3>2, <3>3
    <2>4. ASSUME NEW p \in Procs, InstallSubscription(p) PROVE Good(heap'[o])
      <3>1. PICK s \in Subscription :
              /\ heap' = [heap EXCEPT ![target[p].obj] = s]
              /\ s.req = heap[target[p].obj].req /\ s.cred = response[p]
        BY <2>4, InstallEffect DEF ControlInv
      <3>2. response[p].scope = heap[target[p].obj].req /\ response[p] # None
        BY <2>4, InstallEffect, ConstantsAssumption
        DEF ControlInv, ScopeInv, InstallSubscription, Answered
      <3>3. CASE o = target[p].obj
        BY <3>1, <3>2, <3>3 DEF TypeOK
      <3>4. CASE o # target[p].obj
        BY <1>1, <2>1, <3>1, <3>4 DEF TypeOK
      <3> QED
        BY <3>3, <3>4
    <2>5. ASSUME NEW r \in Requests, NEW w \in Workers, CreateSubscription(r, w)
          PROVE  Good(heap'[o])
      BY <1>1, <2>1, <2>2, <2>5, CreateEffect DEF TypeOK
    <2> HIDE DEF Good
    <2> QED
      BY <2>2, <2>3, <2>4, <2>5, HeapFrame
  <1>2. ASSUME NEW q \in Procs, Answered(q)', IsSub(target[q])'
        PROVE  response'[q].scope = heap'[target'[q].obj].req
    <2> USE DEF TypeOK, Answered, IsSub, Goto
    <2>1. ASSUME target'[q] = target[q], target[q] # None
          PROVE  heap'[target'[q].obj].req = heap[target[q].obj].req
      <3>1. target[q] \in Visits(q) /\ target[q] \in Target
        BY <2>1 DEF Visits
      <3>2. target[q].obj \in Reachable /\ target[q].obj \in Objects
        BY <1>2, <2>1, <3>1 DEF Reachable, Target
      <3>3. heap[target[q].obj] # None
        BY <1>2, <2>1, <3>1 DEF ControlInv, ControlAt
      <3> QED
        BY <2>1, <3>2, <3>3, RequestKept
    <2>2. CASE Same(q)
      BY <1>2, <2>1, <2>2 DEF Same, ScopeInv, ControlInv, ControlAt, InExchange
    <2>3. CASE RefreshStep(q)
      <3>1. CASE ExchangeSucceeds(q)
        <4>1. /\ target' = target
              /\ ControlAt(q) /\ InExchange(q)
          BY <3>1 DEF ExchangeSucceeds, ControlInv, InExchange
        <4>2. PICK c \in Credential : /\ response' = [response EXCEPT ![q] = c]
                                      /\ c.scope = ScopeOf(target[q])
          BY <3>1, <4>1, ExchangeEffect
        <4>3. response'[q].scope = ScopeOf(target[q])
          BY <4>2
        <4>4. target[q] # None /\ target[q].obj # None
          BY <1>2, <4>1 DEF ControlAt
        <4>5. ScopeOf(target[q]) = heap[target[q].obj].req
          BY <4>4 DEF ScopeOf
        <4> QED
          BY <2>1, <4>1, <4>3, <4>4, <4>5
      <3>2. ASSUME NEW k \in MaybeKey, Collect(q, k), response[q] \in Credential,
                   target[q] # None, pc[q] \in {"respond", "regenerate"}
            PROVE  response'[q].scope = heap'[target'[q].obj].req
        BY <1>2, <2>1, <3>2 DEF Collect, ScopeInv, Credential
      <3>3. CASE RegenerateKey(q)
        BY <3>2, <3>3, RegenerateEffect
        DEF RegenerateKey, ControlInv, ControlAt, InExchange
      <3>4. CASE Respond(q)
        BY <1>2, <2>1, <3>2, <3>4, RespondEffect, SMTT(30)
        DEF Respond, ControlInv, ControlAt, InExchange, ScopeInv
      <3>5. CASE ExchangePanics(q)
        BY <1>2, <2>1, <3>5
        DEF ExchangePanics, local, ControlInv, ControlAt, InExchange, ScopeInv
      <3>6. CASE \/ Discover(q) \/ DiscoverFails(q)
                 \/ PublishAvailable(q) \/ ClearBillets(q)
        BY <1>2, <3>6
        DEF Discover, DiscoverFails, Return, PublishAvailable, ClearBillets
      <3>7. CASE \/ NextBillet(q) \/ NextSubscription(q)
                 \/ GenerateKey(q) \/ ExchangeFails(q)
        BY <1>2, <3>7
        DEF NextBillet, NextSubscription, StartExchange, GenerateKey,
                          ExchangeFails, LoopHead
      <3>8. CASE CommitBillets(q) \/ SnapshotSubscriptions(q) \/ MarkPending(q)
                 \/ InstallSubscription(q) \/ FinishRefresh(q)
        BY <1>2, <3>8 DEF CommitBillets, SnapshotSubscriptions, MarkPending,
                          InstallSubscription, FinishRefresh, Return
      <3> QED
        BY <2>3, <3>1, <3>3, <3>4, <3>5, <3>6, <3>7, <3>8 DEF RefreshStep
    <2>4. CASE pc[q] = "idle" /\ pc'[q] = "discover"
      BY <1>2, <2>4
    <2> QED
      BY <2>2, <2>3, <2>4, StepOf
  <1> QED
    BY <1>1, <1>2 DEF ScopeInv

-----------------------------------------------------------------------------

\* No key exists initially.
LEMMA InitKeys == Init => KeyInv
  BY DEF Init, KeyInv, NoKeys, Subscribed, Live, InExchange

\* Without CSRs no key is ever made.
LEMMA NextNoKeys ==
  ASSUME TypeOK, ControlInv, [Next]_vars, ~ CSREnabled, NoKeys
  PROVE  NoKeys'
  <1> USE DEF TypeOK, NoKeys, Goto
  <1>1. ASSUME NEW n \in KeyIds PROVE keys'[n] = None
    <2>1. CASE UNCHANGED keys
      BY <2>1
    <2>2. ASSUME NEW p \in Procs, CommitBillets(p) PROVE keys'[n] = None
      BY <2>2 DEF CommitBillets
    <2>3. ASSUME NEW i \in SubIds, DeleteSubscription(i) PROVE keys'[n] = None
      BY <2>3 DEF DeleteSubscription
    <2> QED
      BY <2>1, <2>2, <2>3, KeysFrame DEF GenerateKey, RegenerateKey
  <1>2. ASSUME NEW q \in Procs
        PROVE  csrKey'[q] = None /\ pc'[q] \notin {"generate", "regenerate"}
    <2>1. CASE Same(q)
      BY <2>1 DEF Same
    <2>2. CASE RefreshStep(q)
      <3>1. CASE \/ Discover(q) \/ DiscoverFails(q)
                 \/ PublishAvailable(q) \/ ClearBillets(q)
        BY <3>1
        DEF Discover, DiscoverFails, Return, PublishAvailable, ClearBillets,
            local
      <3>2. CASE NextBillet(q) \/ NextSubscription(q)
        BY <3>2 DEF NextBillet, NextSubscription, StartExchange
      <3>3. CASE CommitBillets(q) \/ SnapshotSubscriptions(q) \/ MarkPending(q)
                 \/ InstallSubscription(q) \/ FinishRefresh(q)
        BY <3>3 DEF CommitBillets, SnapshotSubscriptions, MarkPending,
                    InstallSubscription, FinishRefresh, Return
      <3>4. CASE ExchangeSucceeds(q) \/ ExchangeFails(q) \/ ExchangePanics(q)
        BY <3>4
        DEF ExchangeSucceeds, ExchangeFails, ExchangePanics, LoopHead, local
      <3>5. CASE Respond(q)
        BY <3>5 DEF Respond, Collect
      <3> QED
        BY <2>2, <3>1, <3>2, <3>3, <3>4, <3>5
        DEF RefreshStep, GenerateKey, RegenerateKey
    <2>3. CASE pc[q] = "idle" /\ pc'[q] = "discover" /\ UNCHANGED local
      BY <2>3 DEF local
    <2> QED
      BY <2>1, <2>2, <2>3, StepOf
  <1> QED
    BY <1>1, <1>2

\* The key d.keys has for a subscription when its exchange is past createCSR.
LEMMA LiveKept ==
  ASSUME TypeOK, ControlInv, KeyInv, [Next]_vars, NEW q \in Procs,
         target'[q] = target[q], InExchange(q), Live(q)'
  PROVE  /\ Live(q) /\ target[q].keyID \in SubIds
         /\ ~ CSREnabled => keys'[target[q].keyID] = keys[target[q].keyID]
         /\ pc[q] # "generate" => keys'[target[q].keyID] = keys[target[q].keyID]
  <1> DEFINE id == target[q].keyID
  <1>1. /\ target[q] \in Target /\ IsSub(target[q]) /\ target[q] \in Visits(q)
        /\ target[q].obj \in Objects
    BY DEF TypeOK, ControlInv, ControlAt, Live, IsSub, Target, Visits
  <1>2. id \in SubIds
    BY <1>1, ConstantsAssumption
    DEF ControlInv, ControlAt, TypeOK, Subscription
  <1>3. subscriptions'[id] \in Reachable /\ subscriptions'[id] # None
    BY <1>1 DEF Live, Reachable, IsSub
  <1>4. subscriptions'[id] = subscriptions[id]
    BY <1>2, <1>3, SubscriptionKept DEF Subscribed
  <1>5. Live(q)
    BY <1>1, <1>4 DEF Live
  <1>6. CASE CSREnabled
    BY <1>2, <1>3, <1>4, <1>5, <1>6, KeyKept DEF KeyInv, KeyAt, Subscribed
  <1>7. CASE ~ CSREnabled
    BY <1>2, <1>5, <1>7, NextNoKeys DEF KeyInv, NoKeys
  <1> QED
    BY <1>2, <1>5, <1>6, <1>7

\* Every step keeps the keys on their way to a live subscription.
LEMMA NextKeyAt ==
  ASSUME TypeOK, ControlInv, KeyInv, [Next]_vars, NEW q \in Procs, Live(q)'
  PROVE  KeyAt(q)'
  <1> USE DEF TypeOK, Answered, Goto
  <1>1. InExchange(q)'
    BY DEF Live
  <1>2. CASE Same(q)
    <2>1. InExchange(q)
      BY <1>1, <1>2 DEF Same, InExchange
    <2>2. Live(q) /\ KeyAt(q)
      BY <1>2, <2>1, LiveKept DEF Same, KeyInv
    <2>3. CASE pc[q] = "generate"
      BY <1>2, <2>3 DEF Same, KeyAt
    <2>4. CASE pc[q] # "generate"
      BY <1>2, <2>1, <2>2, <2>4, LiveKept DEF Same, KeyAt
    <2> QED
      BY <2>3, <2>4
  <1>3. CASE RefreshStep(q)
    <2> DEFINE key == keys[target[q].keyID]
    <2>1. ASSUME NEW t \in todo[q], StartExchange(q, t),
                 UNCHANGED <<keys, response>>
          PROVE  KeyAt(q)'
      BY <2>1, NextNoKeys DEF StartExchange, KeyAt, KeyInv, NoKeys, Target
    <2>2. CASE NextBillet(q) \/ NextSubscription(q)
      BY <2>1, <2>2 DEF NextBillet, NextSubscription, store
    <2>3. CASE GenerateKey(q)
      <3>1. target[q] \in Target
        BY <2>3 DEF GenerateKey, ControlInv, ControlAt, InExchange
      <3>2. PICK k \in KeyChoices(target[q].keyID) :
              /\ keys' = [keys EXCEPT ![target[q].keyID] = k]
              /\ csrKey' = [csrKey EXCEPT ![q] = k]
        BY <2>3 DEF GenerateKey
      <3>3. k # None
        BY <3>1, <3>2, ConstantsAssumption DEF KeyChoices, Target
      <3> QED
        BY <2>3, <3>1, <3>2, <3>3 DEF GenerateKey, KeyAt, Target
    <2>4. CASE ExchangeSucceeds(q)
      <3>1. Live(q) /\ KeyAt(q) /\ UNCHANGED keys
        BY <2>4, LiveKept DEF ExchangeSucceeds, InExchange, KeyInv, store
      <3>2. response'[q].cert \in {csrKey[q], None}
        BY <2>4, ExchangeEffect DEF ControlInv
      <3> QED
        BY <2>4, <3>1, <3>2 DEF ExchangeSucceeds, KeyAt
    <2>5. ASSUME NEW k \in MaybeKey, Collect(q, k), response[q] \in Credential,
                 pc[q] \in {"respond", "regenerate"}
          PROVE  /\ target' = target /\ pc'[q] = "install"
                 /\ response'[q].cert = response[q].cert
                 /\ response'[q].key = k
      BY <1>1, <2>5 DEF Collect, Credential, InExchange
    <2>6. CASE RegenerateKey(q)
      <3>1. PICK k \in MaybeKey :
              k \in KeyChoices(target[q].keyID) /\ Collect(q, k)
        BY <2>6, RegenerateEffect DEF ControlInv
      <3>2. /\ target' = target /\ pc'[q] = "install"
            /\ response'[q].cert = response[q].cert /\ response'[q].key = k
        BY <2>5, <2>6, <3>1, RegenerateEffect DEF ControlInv, RegenerateKey
      <3>3. /\ Live(q) /\ KeyAt(q)
            /\ keys'[target[q].keyID] = keys[target[q].keyID]
        BY <2>6, <3>2, LiveKept DEF RegenerateKey, InExchange, KeyInv
      <3>4. CSREnabled
        BY <2>6 DEF RegenerateKey, KeyInv, NoKeys
      <3> QED
        BY <2>6, <3>1, <3>2, <3>3, <3>4 DEF KeyAt, RegenerateKey, KeyChoices
    <2>7. CASE Respond(q)
      <3>1. CASE pc' = [pc EXCEPT ![q] = "regenerate"]
                 /\ UNCHANGED <<target, csrKey, response, updated>>
        <4>1. Live(q) /\ KeyAt(q) /\ UNCHANGED keys
          BY <2>7, <3>1, LiveKept DEF Respond, InExchange, KeyInv, store
        <4> QED
          BY <2>7, <3>1, <4>1 DEF Respond, KeyAt
      <3>2. ASSUME NEW k \in MaybeKey, Collect(q, k),
                   k = IF CSREnabled THEN key ELSE None
            PROVE  KeyAt(q)'
        <4>1. /\ target' = target /\ pc'[q] = "install"
              /\ response'[q].cert = response[q].cert /\ response'[q].key = k
          BY <2>5, <2>7, <3>2, RespondEffect DEF ControlInv, Respond
        <4>2. Live(q) /\ KeyAt(q) /\ UNCHANGED keys
          BY <2>7, <4>1, LiveKept DEF Respond, InExchange, KeyInv, store
        <4>3. target[q].keyID \in KeyIds
          BY <2>7, RespondEffect DEF ControlInv, Target
        <4> QED
          BY <2>7, <3>2, <4>1, <4>2, <4>3 DEF KeyAt, Respond, KeyInv, NoKeys
      <3> QED
        BY <2>7, <3>1, <3>2, RespondEffect DEF ControlInv
    <2>8. CASE ExchangePanics(q)
      BY <1>2, <2>8 DEF ExchangePanics, Same, local
    <2>9. CASE \/ Discover(q) \/ DiscoverFails(q) \/ PublishAvailable(q)
               \/ ClearBillets(q) \/ ExchangeFails(q)
      BY <1>1, <2>9 DEF Discover, DiscoverFails, Return, PublishAvailable,
                        ClearBillets, ExchangeFails, LoopHead, InExchange
    <2>10. CASE CommitBillets(q) \/ SnapshotSubscriptions(q) \/ MarkPending(q)
                \/ InstallSubscription(q) \/ FinishRefresh(q)
      BY <1>1, <2>10 DEF CommitBillets, SnapshotSubscriptions, MarkPending,
                         InstallSubscription, FinishRefresh, Return, InExchange
    <2> QED
      BY <1>3, <2>2, <2>3, <2>4, <2>6, <2>7, <2>8, <2>9, <2>10 DEF RefreshStep
  <1>4. CASE pc'[q] = "discover"
    BY <1>1, <1>4 DEF InExchange
  <1> QED
    BY <1>2, <1>3, <1>4, StepOf

\* Every step leaves a subscription with a credential for its key in d.keys.
LEMMA NextServedKey ==
  ASSUME TypeOK, ControlInv, KeyInv, [Next]_vars, NEW id \in SubIds,
         Subscribed(id)', (Sub(id).cred # None)'
  PROVE  KeyOf(Sub(id).cred, id)'
  <1> USE DEF Subscribed, Sub
  <1>1. ASSUME subscriptions'[id] = subscriptions[id],
               heap[subscriptions[id]].cred # None,
               heap'[subscriptions[id]].cred = heap[subscriptions[id]].cred
        PROVE  KeyOf(Sub(id).cred, id)'
    <2>1. KeyOf(Sub(id).cred, id)
      BY <1>1 DEF KeyInv
    <2>2. keys'[id] = keys[id]
      BY <1>1, <2>1, KeyKept, NextNoKeys DEF KeyOf, KeyInv, NoKeys
    <2> QED
      BY <1>1, <2>1, <2>2 DEF KeyOf
  <1>2. CASE UNCHANGED <<heap>> /\ subscriptions'[id] = subscriptions[id]
    BY <1>1, <1>2
  <1>3. ASSUME NEW p \in Procs, MarkPending(p) PROVE KeyOf(Sub(id).cred, id)'
    <2>1. subscriptions' = subscriptions
      BY <1>3 DEF MarkPending
    <2>2. heap'[subscriptions[id]].cred = heap[subscriptions[id]].cred
      BY <1>3, <2>1, MarkPendingEffect DEF TypeOK, ControlInv
    <2> QED
      BY <1>1, <2>1, <2>2
  <1>4. ASSUME NEW p \in Procs, InstallSubscription(p)
        PROVE  KeyOf(Sub(id).cred, id)'
    <2> DEFINE o == target[p].obj
    <2>1. subscriptions' = subscriptions /\ keys' = keys
      BY <1>4 DEF InstallSubscription
    <2>2. PICK s \in Subscription : /\ heap' = [heap EXCEPT ![o] = s]
                                   /\ s.cred = response[p]
      BY <1>4, InstallEffect DEF ControlInv
    <2>3. CASE subscriptions[id] = o
      <3>1. target[p].keyID = id
        BY <1>4, <2>1, <2>3, InstallEffect DEF ControlInv, ControlAt
      <3>2. Live(p) /\ pc[p] = "install"
        BY <1>4, <2>3, <3>1, InstallEffect
        DEF Live, InExchange, InstallSubscription, ControlInv
      <3>3. KeyAt(p)
        BY <3>2 DEF KeyInv
      <3>4. /\ response[p].cert \in {keys[id], None} /\ response[p].key = keys[id]
            /\ CSREnabled => keys[id] # None
        BY <3>1, <3>2, <3>3 DEF KeyAt, Answered
      <3>5. (Sub(id).cred)' = response[p]
        BY <1>4, <2>1, <2>2, <2>3, InstallEffect DEF TypeOK, ControlInv
      <3> QED
        BY <2>1, <3>4, <3>5 DEF KeyOf
    <2>4. CASE subscriptions[id] # o
      BY <1>1, <2>1, <2>2, <2>4 DEF TypeOK
    <2> QED
      BY <2>3, <2>4
  <1>5. ASSUME NEW r \in Requests, NEW w \in Workers, CreateSubscription(r, w)
        PROVE  KeyOf(Sub(id).cred, id)'
    <2>1. CASE UNCHANGED <<subscriptions, heap>>
      BY <1>1, <2>1
    <2>2. ASSUME NEW o \in Objects, NEW s \in Subscription, o \notin Reachable,
                 subscriptions' = [subscriptions EXCEPT ![IdOf[r]] = o],
                 heap' = [heap EXCEPT ![o] = s], s.cred = None
          PROVE  KeyOf(Sub(id).cred, id)'
      <3>1. subscriptions[id] # o
        BY <2>2 DEF Reachable
      <3>2. id # IdOf[r]
        BY <2>2 DEF TypeOK
      <3> QED
        BY <1>1, <2>2, <3>1, <3>2 DEF TypeOK
    <2> QED
      BY <1>5, <2>1, <2>2, CreateEffect
  <1>6. ASSUME NEW i \in SubIds, DeleteSubscription(i)
        PROVE  KeyOf(Sub(id).cred, id)'
    BY <1>2, <1>6 DEF DeleteSubscription, TypeOK
  <1> QED
    BY <1>2, <1>3, <1>4, <1>5, <1>6, HeapFrame, SubscriptionsFrame

\* An object that is still the subscription does not lose its credential.
LEMMA CredentialKept ==
  ASSUME TypeOK, ControlInv, [Next]_vars, NEW id \in SubIds,
         Subscribed(id), subscriptions'[id] = subscriptions[id],
         Sub(id).cred # None
  PROVE  Sub(id)'.cred # None
  <1> USE DEF Subscribed, Sub, TypeOK
  <1>1. ASSUME NEW p \in Procs, MarkPending(p) PROVE Sub(id)'.cred # None
    BY <1>1, MarkPendingEffect DEF ControlInv
  <1>2. ASSUME NEW p \in Procs, InstallSubscription(p)
        PROVE  Sub(id)'.cred # None
    <2> DEFINE o == target[p].obj
    <2>1. /\ response[p] \in Credential
          /\ \E s \in Subscription : /\ heap' = [heap EXCEPT ![o] = s]
                                    /\ s.cred = response[p]
      BY <1>2, InstallEffect DEF ControlInv
    <2>2. response[p] # None
      BY <2>1, ConstantsAssumption
    <2> HIDE DEF o
    <2> QED
      BY <1>2, <2>1, <2>2 DEF InstallSubscription
  <1>3. ASSUME NEW r \in Requests, NEW w \in Workers, CreateSubscription(r, w)
        PROVE  Sub(id)'.cred # None
    BY <1>3, CreateEffect DEF Reachable
  <1>4. ASSUME heap' = heap PROVE Sub(id)'.cred # None
    BY <1>4
  <1> HIDE DEF Subscribed, Sub, TypeOK
  <1> QED
    BY <1>1, <1>2, <1>3, <1>4, HeapFrame

\* Every step keeps KeyInv.
LEMMA NextKeys == TypeOK /\ ControlInv /\ KeyInv /\ [Next]_vars => KeyInv'
  <1> SUFFICES ASSUME TypeOK, ControlInv, KeyInv, [Next]_vars
               PROVE  KeyInv'
    OBVIOUS
  <1>1. ~ CSREnabled => NoKeys'
    BY NextNoKeys DEF KeyInv, NoKeys
  <1> QED
    BY <1>1, NextKeyAt, NextServedKey DEF KeyInv, NoKeys

\* The inductive invariant holds in every reachable state: the pointers, scopes
\* and keys that refresh and the handlers of daemon.go and server.go leave in
\* the daemon's maps fit together.
THEOREM Invariance == Spec => []IInv
  <1>1. Init => IInv
    BY InitTypes, InitScope, InitKeys DEF IInv
  <1>2. IInv /\ [Next]_vars => IInv'
    BY NextTypes, NextControl, NextScope, NextKeys DEF IInv
  <1> QED
    BY <1>1, <1>2, PTL DEF Spec

\* The daemon's maps, objects and refreshes stay within their types.
THEOREM TypeCorrect == Spec => []TypeOK
  BY Invariance, PTL DEF IInv

\* handleSubscriptionToken serves a token that was exchanged for this
\* subscription's billets and audience, whatever was deleted, re-created or
\* refreshed meanwhile and whichever requests share an id.
THEOREM OwnTokens == Spec => []ServesOwnToken
  <1>1. IInv => ServesOwnToken
    BY DEF IInv, ControlInv, ScopeInv, ServesOwnToken, TypeOK, Subscribed, Sub, Ready
  <1> QED
    BY <1>1, Invariance, PTL

\* handleSubscriptionCert and handleSubscriptionKey serve a certificate and a
\* private key that belong together, whatever DELETE, the clean-up in
\* refreshAutoBillets and other refreshes do to d.keys.
THEOREM SubscriptionKeys == Spec => []SubscriptionKeyPaired
  <1>1. IInv => SubscriptionKeyPaired
    BY DEF IInv, KeyInv, KeyOf, SubscriptionKeyPaired, Paired
  <1> QED
    BY <1>1, Invariance, PTL

\* Renewals do not change the private key of a subscription, so a client that
\* fetches cert.pem and key.pem in two requests gets a pair.
THEOREM KeysKept == Spec => KeyKeptWhileSubscribed
  <1> DEFINE Kept ==
        \A id \in SubIds :
           /\ Subscribed(id)
           /\ subscriptions'[id] = subscriptions[id]
           /\ Sub(id).cred # None
           => Sub(id)'.cred # None /\ Sub(id)'.cred.key = Sub(id).cred.key
  <1>1. ASSUME IInv, IInv', [Next]_vars, NEW id \in SubIds, Subscribed(id),
               subscriptions'[id] = subscriptions[id], Sub(id).cred # None
        PROVE  Sub(id)'.cred # None /\ Sub(id)'.cred.key = Sub(id).cred.key
    <2>1. KeyOf(Sub(id).cred, id)
      BY <1>1 DEF IInv, KeyInv
    <2>2. keys'[id] = keys[id]
      BY <1>1, <2>1, KeyKept, NextNoKeys DEF IInv, KeyOf, KeyInv, NoKeys
    <2>3. Sub(id)'.cred # None
      BY <1>1, CredentialKept DEF IInv
    <2>4. KeyOf(Sub(id).cred, id)'
      BY <1>1, <2>3 DEF IInv, KeyInv, Subscribed
    <2> QED
      BY <2>1, <2>2, <2>3, <2>4 DEF KeyOf
  <1>2. IInv /\ IInv' /\ [Next]_vars => Kept
    BY <1>1
  <1> QED
    BY <1>2, Invariance, PTL DEF Spec, KeyKeptWhileSubscribed
-----------------------------------------------------------------------------
(***************************************************************************)
(* The keys of billets, when the billets are configured: refreshes that    *)
(* agree on the billets never clean up each other's keys.                  *)
(***************************************************************************)

\* Collect writes to the map of its own refresh, if at all.
LEMMA CollectUpdates ==
  ASSUME TypeOK, NEW p \in Procs, NEW k, Collect(p, k), NEW q \in Procs, q # p
  PROVE  updated'[q] = updated[q]
  <1> DEFINE c == [response[p] EXCEPT !.key = k]
  <1>1. \/ UNCHANGED updated
        \/ updated' = [updated EXCEPT ![p][target[p].keyID] = c]
    BY DEF Collect
  <1> HIDE DEF c
  <1> QED
    BY <1>1 DEF TypeOK

\* The map a refresh fills is written by that refresh only.
LEMMA OthersUpdated ==
  ASSUME TypeOK, [Next]_vars, NEW q \in Procs, ~ RefreshStep(q)
  PROVE  updated'[q] = updated[q] /\ discovered'[q] = discovered[q]
  <1> USE DEF TypeOK, local
  <1>1. ASSUME NEW p \in Procs, p # q, RefreshStep(p)
        PROVE  updated'[q] = updated[q] /\ discovered'[q] = discovered[q]
    <2>1. CASE \/ Discover(p) \/ DiscoverFails(p) \/ PublishAvailable(p)
               \/ ClearBillets(p) \/ CommitBillets(p) \/ FinishRefresh(p)
      BY <1>1, <2>1 DEF Discover, DiscoverFails, Return, PublishAvailable,
                        ClearBillets, CommitBillets, FinishRefresh
    <2>2. CASE \/ NextBillet(p) \/ NextSubscription(p) \/ MarkPending(p)
               \/ SnapshotSubscriptions(p) \/ InstallSubscription(p)
      BY <2>2 DEF NextBillet, NextSubscription, MarkPending,
                  SnapshotSubscriptions, InstallSubscription
    <2>3. CASE \/ GenerateKey(p) \/ ExchangeSucceeds(p)
               \/ ExchangeFails(p) \/ ExchangePanics(p)
      BY <2>3
      DEF GenerateKey, ExchangeSucceeds, ExchangeFails, ExchangePanics
    <2>4. CASE Respond(p)
      BY <1>1, <2>4, CollectUpdates DEF Respond
    <2>5. CASE RegenerateKey(p)
      BY <1>1, <2>5, CollectUpdates DEF RegenerateKey
    <2> QED
      BY <1>1, <2>1, <2>2, <2>3, <2>4, <2>5 DEF RefreshStep
  <1> QED
    BY <1>1 DEF Next, ChangeEntitlement, WakeLoop, StopLoop, CreateSubscription,
                DeleteSubscription, Exited, vars

\* A refresh has the configured billets from its discovery to its end.
LEMMA NextAgreed ==
  ASSUME TypeOK, ControlInv, AgreedInv, BilletsConfigured, [Next]_vars
  PROVE  AgreedInv'
  <1> DEFINE Agreed(q) ==
        /\ pc[q] \notin {"idle", "discover"} => discovered[q] = Configured
        /\ \A t \in Visits(q) : ~ IsSub(t) => t.keyID \in Configured
  <1> SUFFICES ASSUME NEW q \in Procs PROVE Agreed(q)'
    BY DEF AgreedInv, IsSub
  <1>0. Agreed(q)
    BY DEF AgreedInv
  <1> USE DEF TypeOK, Goto, IsSub
  <1>1. CASE Same(q) /\ discovered'[q] = discovered[q]
    BY <1>0, <1>1 DEF Same, Visits
  <1>2. CASE RefreshStep(q)
    <2>1. CASE Discover(q)
      BY <1>0, <2>1 DEF Discover, Visits, BilletsConfigured
    <2>2. CASE DiscoverFails(q) \/ FinishRefresh(q)
      BY <1>0, <2>2 DEF DiscoverFails, FinishRefresh, Return, Visits
    <2>3. CASE PublishAvailable(q)
      <3>1. /\ discovered'[q] = Configured /\ discovered[q] = Configured
            /\ target'[q] = target[q]
        BY <1>0, <2>3 DEF PublishAvailable
      <3>2. \/ todo' = [todo EXCEPT ![q] = [keyID : discovered[q], obj : {None}]]
            \/ UNCHANGED todo
        BY <2>3 DEF PublishAvailable
      <3>3. todo'[q] = [keyID : Configured, obj : {None}] \/ todo'[q] = todo[q]
        BY <3>1, <3>2
      <3>4. \A t \in [keyID : Configured, obj : {None}] : t.keyID \in Configured
        OBVIOUS
      <3> QED
        BY <1>0, <3>1, <3>3, <3>4 DEF Visits
    <2>4. CASE ClearBillets(q) \/ CommitBillets(q)
      BY <1>0, <2>4 DEF ClearBillets, CommitBillets, Visits, local
    <2>5. ASSUME todo'[q] \subseteq todo[q], target'[q] \in Visits(q) \cup {None},
                 discovered'[q] = discovered[q], pc[q] \notin {"idle", "discover"}
          PROVE  Agreed(q)'
      BY <1>0, <2>5 DEF Visits
    <2>6. CASE SnapshotSubscriptions(q)
      BY <1>0, <2>6 DEF SnapshotSubscriptions, Visits, IsSub
    <2>7. CASE NextBillet(q) \/ NextSubscription(q)
      <3>1. PICK t \in todo[q] : StartExchange(q, t)
        BY <2>7 DEF NextBillet, NextSubscription
      <3>2. t \in Visits(q)
        BY DEF Visits
      <3> QED
        BY <2>5, <2>7, <3>1, <3>2
        DEF StartExchange, NextBillet, NextSubscription
    <2>8. target[q] \in Visits(q) \cup {None}
      BY DEF Visits
    <2>9. CASE MarkPending(q) \/ InstallSubscription(q)
      <3>1. \/ UNCHANGED todo
            \/ \E t \in todo[q] : todo' = [todo EXCEPT ![q] = @ \ {t}]
        BY <2>9 DEF MarkPending, InstallSubscription
      <3>2. todo'[q] \subseteq todo[q]
        BY <3>1
      <3> QED
        BY <2>5, <2>8, <2>9, <3>2 DEF MarkPending, InstallSubscription
    <2>10. CASE GenerateKey(q) \/ ExchangeSucceeds(q) \/ ExchangeFails(q)
      BY <2>5, <2>8, <2>10 DEF GenerateKey, ExchangeSucceeds, ExchangeFails
    <2>11. CASE ExchangePanics(q)
      BY <2>5, <2>8, <2>11 DEF ExchangePanics, local
    <2>12. CASE Respond(q) \/ RegenerateKey(q)
      <3>1. target'[q] = target[q] \/ target'[q] = None
        BY <2>12 DEF Respond, RegenerateKey, Collect
      <3> QED
        BY <2>5, <2>8, <2>12, <3>1 DEF Respond, RegenerateKey
    <2> QED
      BY <1>2, <2>1, <2>2, <2>3, <2>4, <2>6, <2>7, <2>9, <2>10, <2>11, <2>12
      DEF RefreshStep
  <1>3. CASE pc'[q] = "discover" /\ UNCHANGED local
    BY <1>0, <1>3 DEF local, Visits
  <1> QED
    BY <1>1, <1>2, <1>3, StepOf, OthersUpdated

\* The key of a configured billet, once there is one, stays.
LEMMA BilletKeyKept ==
  ASSUME TypeOK, KeyInv, ControlInv, AgreedInv, BilletsConfigured, [Next]_vars,
         NEW b \in Configured, CSREnabled => keys[b] # None
  PROVE  keys'[b] = keys[b]
  <1> USE DEF TypeOK
  <1>0. b \in Billets /\ b \notin SubIds /\ b \in KeyIds
    BY ConstantsAssumption DEF BilletsConfigured, KeyIds
  <1>1. CASE ~ CSREnabled
    BY <1>0, <1>1, NextNoKeys DEF KeyInv, NoKeys
  <1>2. CASE CSREnabled
    <2>1. ASSUME NEW p \in Procs, GenerateKey(p) PROVE keys'[b] = keys[b]
      BY <1>0, <1>2, <2>1 DEF GenerateKey, KeyChoices
    <2>2. ASSUME NEW p \in Procs, RegenerateKey(p) PROVE keys'[b] = keys[b]
      BY <1>0, <1>2, <2>2 DEF RegenerateKey, KeyChoices
    <2>3. ASSUME NEW p \in Procs, CommitBillets(p) PROVE keys'[b] = keys[b]
      BY <1>0, <2>3 DEF CommitBillets, Retired, AgreedInv
    <2>4. ASSUME NEW i \in SubIds, DeleteSubscription(i)
          PROVE  keys'[b] = keys[b]
      BY <1>0, <2>4 DEF DeleteSubscription
    <2> QED
      BY <2>1, <2>2, <2>3, <2>4, KeysFrame
  <1> QED
    BY <1>1, <1>2

-----------------------------------------------------------------------------

\* A refresh that exchanges for a billet.
ForBillet(q) == InExchange(q) /\ ~ IsSub(target[q])

LEMMA ForBilletKept ==
  ASSUME TypeOK, IInv, BilletKeysInv, BilletsConfigured, [Next]_vars,
         NEW q \in Procs, ForBillet(q)
  PROVE  LET b == target[q].keyID
         IN  /\ b \in Configured /\ b \in KeyIds /\ KeyAt(q)
             /\ ~ CSREnabled => keys'[b] = None /\ keys[b] = None
             /\ pc[q] # "generate" => keys'[b] = keys[b]
  <1> DEFINE b == target[q].keyID
  <1>1. target[q] \in Visits(q) /\ KeyAt(q)
    BY DEF IInv, ControlInv, ControlAt, BilletKeysInv, ForBillet, Visits
  <1>2. b \in Configured /\ b \in KeyIds
    BY <1>1, ConstantsAssumption DEF BilletKeysInv, AgreedInv, ForBillet, KeyIds
  <1>3. ~ CSREnabled => keys'[b] = None /\ keys[b] = None
    BY <1>2, NextNoKeys DEF IInv, KeyInv, NoKeys
  <1>4. pc[q] # "generate" => (CSREnabled => keys[b] # None)
    BY <1>1 DEF KeyAt
  <1>5. pc[q] # "generate" => keys'[b] = keys[b]
    BY <1>2, <1>4, BilletKeyKept DEF IInv, BilletKeysInv
  <1> QED
    BY <1>1, <1>2, <1>3, <1>5

\* Every step keeps the keys on their way to a billet.
LEMMA NextBilletKeyAt ==
  ASSUME TypeOK, IInv, BilletKeysInv, BilletsConfigured, [Next]_vars,
         NEW q \in Procs, ForBillet(q)'
  PROVE  KeyAt(q)'
  <1> USE DEF TypeOK, Answered, Goto
  <1>1. InExchange(q)' /\ ~ IsSub(target'[q])
    BY DEF ForBillet, IsSub
  <1>2. CASE Same(q)
    <2>1. ForBillet(q)
      BY <1>1, <1>2 DEF Same, InExchange, ForBillet, IsSub
    <2> QED
      BY <1>2, <2>1, ForBilletKept DEF Same, KeyAt
  <1>3. CASE RefreshStep(q)
    <2>0. ASSUME NEW k, Collect(q, k) PROVE FALSE
      <3>1. CASE IsSub(target[q])
        BY <1>1, <2>0, <3>1 DEF Collect
      <3>2. CASE ~ IsSub(target[q])
        BY <1>1, <2>0, <3>2 DEF Collect, InExchange
      <3> QED
        BY <3>1, <3>2
    <2>1. CASE NextBillet(q)
      <3>1. PICK t \in todo[q] : StartExchange(q, t)
        BY <2>1 DEF NextBillet
      <3> QED
        BY <2>1, <3>1, NextNoKeys
        DEF NextBillet, StartExchange, KeyAt, IInv, KeyInv, NoKeys, Target,
            store
    <2>2. CASE NextSubscription(q)
      BY <1>1, <2>2
      DEF NextSubscription, StartExchange, IInv, ControlInv, ControlAt, Visits
    <2>3. CASE GenerateKey(q)
      <3>1. target[q] \in Target
        BY <2>3 DEF GenerateKey, IInv, ControlInv, ControlAt, InExchange
      <3>2. PICK k \in KeyChoices(target[q].keyID) :
              /\ keys' = [keys EXCEPT ![target[q].keyID] = k]
              /\ csrKey' = [csrKey EXCEPT ![q] = k]
        BY <2>3 DEF GenerateKey
      <3>3. k # None
        BY <3>1, <3>2, ConstantsAssumption DEF KeyChoices, Target, Keys
      <3> QED
        BY <2>3, <3>1, <3>2, <3>3 DEF GenerateKey, KeyAt, Target
    <2>4. CASE ExchangeSucceeds(q)
      <3>1. ForBillet(q) /\ UNCHANGED keys /\ target' = target
        BY <1>1, <2>4 DEF ExchangeSucceeds, InExchange, ForBillet, store
      <3>2. response'[q].cert \in {csrKey[q], None}
        BY <2>4, ExchangeEffect DEF IInv, ControlInv
      <3> QED
        BY <2>4, <3>1, <3>2, ForBilletKept DEF ExchangeSucceeds, KeyAt
    <2>5. CASE Respond(q)
      <3>1. /\ pc' = [pc EXCEPT ![q] = "regenerate"]
            /\ UNCHANGED <<target, csrKey, response, keys>>
            /\ pc[q] = "respond"
        BY <2>0, <2>5 DEF Respond, store
      <3>2. ForBillet(q)
        BY <1>1, <3>1 DEF InExchange, ForBillet
      <3> QED
        BY <3>1, <3>2, ForBilletKept DEF KeyAt
    <2>6. CASE RegenerateKey(q)
      BY <2>0, <2>6 DEF RegenerateKey
    <2>7. CASE ExchangePanics(q)
      BY <1>2, <2>7 DEF ExchangePanics, Same, local
    <2>8. CASE \/ Discover(q) \/ DiscoverFails(q) \/ PublishAvailable(q)
               \/ ClearBillets(q) \/ ExchangeFails(q)
      BY <1>1, <2>8 DEF Discover, DiscoverFails, Return, PublishAvailable,
                        ClearBillets, ExchangeFails, LoopHead, InExchange
    <2>9. CASE CommitBillets(q) \/ SnapshotSubscriptions(q) \/ MarkPending(q)
               \/ InstallSubscription(q) \/ FinishRefresh(q)
      BY <1>1, <2>9 DEF CommitBillets, SnapshotSubscriptions, MarkPending,
                        InstallSubscription, FinishRefresh, Return, InExchange
    <2> QED
      BY <1>3, <2>1, <2>2, <2>3, <2>4, <2>5, <2>6, <2>7, <2>8, <2>9
      DEF RefreshStep
  <1>4. CASE pc'[q] = "discover"
    BY <1>1, <1>4 DEF InExchange
  <1> QED
    BY <1>2, <1>3, <1>4, StepOf

-----------------------------------------------------------------------------

\* A credential c with the key k, if keys are made at all, and with a
\* certificate for it or none.
PairOf(c, k) ==
  c.cert \in {k, None} /\ c.key = k /\ (CSREnabled => k # None)

\* What is stored for billet b is a pair with the key d.keys has for it.
Stored(c, b) == c[b] # None => b \in Configured /\ PairOf(c[b], keys[b])

LEMMA StoredKept ==
  ASSUME IInv, BilletKeysInv, BilletsConfigured, [Next]_vars,
         NEW b \in Billets, NEW c, Stored(c, b)
  PROVE  c[b] # None => b \in Configured /\ PairOf(c[b], keys'[b])
  BY BilletKeyKept DEF IInv, BilletKeysInv, Stored, PairOf

\* Both ways to the end of credentialFromResponse give a billet the key its
\* certificate, if there is one, is for.
LEMMA CollectedKey ==
  ASSUME IInv, BilletKeysInv, BilletsConfigured, [Next]_vars,
         NEW q \in Procs, ForBillet(q), Respond(q) \/ RegenerateKey(q),
         updated' # updated
  PROVE  LET b == target[q].keyID
         IN  \E c \in Credential :
               /\ updated' = [updated EXCEPT ![q][b] = c]
               /\ b \in Configured
               /\ PairOf(c, keys'[b])
  <1> DEFINE b == target[q].keyID
             cred(k) == [response[q] EXCEPT !.key = k]
  <1>1. TypeOK /\ ControlAt(q) /\ ~ IsSub(target[q])
    BY DEF IInv, ControlInv, ForBillet
  <1>2. pc[q] \in {"respond", "regenerate"} /\ response[q] \in Credential
    BY <1>1, RespondEffect, RegenerateEffect DEF Respond, RegenerateKey
  <1>3. /\ b \in Configured /\ b \in KeyIds
        /\ ~ CSREnabled => keys'[b] = None /\ keys[b] = None
        /\ CSREnabled => keys[b] # None
        /\ keys'[b] = keys[b] /\ response[q].cert \in {keys[b], None}
    BY <1>1, <1>2, ForBilletKept DEF KeyAt, Answered
  <1>4. PICK k \in MaybeKey : Collect(q, k) /\ k = keys[b]
    <2>1. CASE Respond(q)
      BY <1>1, <1>3, <2>1, RespondEffect
    <2>2. CASE RegenerateKey(q)
      <3>1. CSREnabled
        BY <2>2 DEF RegenerateKey, IInv, KeyInv, NoKeys
      <3>2. PICK k \in MaybeKey : k \in KeyChoices(b) /\ Collect(q, k)
        BY <1>1, <2>2, RegenerateEffect
      <3> QED
        BY <1>3, <3>1, <3>2 DEF KeyChoices
    <2> QED
      BY <2>1, <2>2
  <1>5. updated' = [updated EXCEPT ![q][b] = cred(k)]
    BY <1>1, <1>4 DEF Collect
  <1>6. /\ cred(k) \in Credential
        /\ cred(k).cert = response[q].cert /\ cred(k).key = k
    BY <1>2, <1>4 DEF Credential
  <1> HIDE DEF cred
  <1>7. PairOf(cred(k), keys'[b])
    BY <1>3, <1>4, <1>6 DEF PairOf
  <1> QED
    BY <1>3, <1>5, <1>6, <1>7

\* Every step keeps the pairs in the map a refresh fills.
LEMMA NextUpdated ==
  ASSUME IInv, BilletKeysInv, BilletsConfigured, [Next]_vars,
         NEW q \in Procs, NEW b \in Billets, updated'[q][b] # None
  PROVE  b \in Configured /\ PairOf(updated'[q][b], keys'[b])
  <1> USE DEF TypeOK
  <1>0. TypeOK /\ Stored(updated[q], b)
    BY DEF IInv, BilletKeysInv, Stored, KeyOf, PairOf
  <1>1. CASE updated'[q][b] = updated[q][b]
    BY <1>0, <1>1, StoredKept
  <1>2. CASE \/ DiscoverFails(q) \/ FinishRefresh(q) \/ CommitBillets(q)
    BY <1>0, <1>2
    DEF DiscoverFails, FinishRefresh, Return, CommitBillets, NoCredentials
  <1>3. CASE (Respond(q) \/ RegenerateKey(q)) /\ updated' # updated
    <2>1. ForBillet(q)
      BY <1>3
      DEF Respond, RegenerateKey, Collect, ForBillet, InExchange
    <2>2. PICK c \in Credential :
            /\ updated' = [updated EXCEPT ![q][target[q].keyID] = c]
            /\ target[q].keyID \in Configured
            /\ PairOf(c, keys'[target[q].keyID])
      BY <1>3, <2>1, CollectedKey
    <2>3. CASE b = target[q].keyID
      BY <1>0, <2>2, <2>3
    <2>4. CASE b # target[q].keyID
      BY <1>0, <1>1, <2>2, <2>4
    <2> QED
      BY <2>3, <2>4
  <1>4. CASE RefreshStep(q) /\ updated' = updated
    BY <1>1, <1>4
  <1>5. CASE ~ RefreshStep(q)
    BY <1>0, <1>1, <1>5, OthersUpdated
  <1>6. ASSUME RefreshStep(q), updated' # updated
        PROVE  \/ DiscoverFails(q) \/ FinishRefresh(q) \/ CommitBillets(q)
               \/ Respond(q) \/ RegenerateKey(q)
    BY <1>6 DEF RefreshStep, Discover, PublishAvailable, ClearBillets,
       NextBillet, SnapshotSubscriptions, NextSubscription, MarkPending,
       InstallSubscription, GenerateKey, ExchangeSucceeds, ExchangeFails,
       ExchangePanics, local
  <1> QED
    BY <1>2, <1>3, <1>4, <1>5, <1>6

\* Only two actions write d.credentials.
LEMMA CredentialsFrame ==
  ASSUME [Next]_vars,
         \A p \in Procs : ~ CommitBillets(p) /\ ~ ClearBillets(p)
  PROVE  UNCHANGED credentials
  BY ZenonT(60) DEF Next, ChangeEntitlement, WakeLoop, StopLoop, CreateSubscription,
     DeleteSubscription, Exited, vars, store, RefreshStep, Discover,
     DiscoverFails, PublishAvailable, NextBillet, SnapshotSubscriptions,
     NextSubscription, MarkPending, InstallSubscription, FinishRefresh,
     GenerateKey, RegenerateKey, Respond, ExchangeSucceeds, ExchangeFails,
     ExchangePanics

\* Every step keeps the pairs in d.credentials.
LEMMA NextCredentials ==
  ASSUME IInv, BilletKeysInv, BilletsConfigured, [Next]_vars,
         NEW b \in Billets, credentials'[b] # None
  PROVE  b \in Configured /\ PairOf(credentials'[b], keys'[b])
  <1>1. CASE UNCHANGED credentials
    <2>1. Stored(credentials, b)
      BY DEF BilletKeysInv, Stored, KeyOf, PairOf
    <2> QED
      BY <1>1, <2>1, StoredKept
  <1>2. ASSUME NEW p \in Procs, CommitBillets(p)
        PROVE  b \in Configured /\ PairOf(credentials'[b], keys'[b])
    <2>1. Stored(updated[p], b)
      BY DEF BilletKeysInv, Stored, KeyOf, PairOf
    <2>2. credentials' = updated[p]
      BY <1>2 DEF CommitBillets
    <2> QED
      BY <2>1, <2>2, StoredKept
  <1>3. ASSUME NEW p \in Procs, ClearBillets(p) PROVE FALSE
    BY <1>3 DEF ClearBillets, NoCredentials
  <1> QED
    BY <1>1, <1>2, <1>3, CredentialsFrame

-----------------------------------------------------------------------------

\* The inductive invariant for configured billets, on top of IInv.
THEOREM BilletInvariance ==
  ASSUME BilletsConfigured
  PROVE  Spec => []BilletKeysInv
  <1>1. Init => BilletKeysInv
    BY DEF Init, BilletKeysInv, AgreedInv, Visits, InExchange, NoCredentials
  <1>2. IInv /\ BilletKeysInv /\ [Next]_vars => BilletKeysInv'
    <2> SUFFICES ASSUME IInv, BilletKeysInv, [Next]_vars PROVE BilletKeysInv'
      OBVIOUS
    <2>1. AgreedInv'
      BY NextAgreed DEF IInv, BilletKeysInv
    <2>2. \A q \in Procs : ForBillet(q)' => KeyAt(q)'
      BY NextBilletKeyAt DEF IInv
    <2> QED
      BY <2>1, <2>2, NextUpdated, NextCredentials
      DEF BilletKeysInv, ForBillet, KeyOf, PairOf
  <1> QED
    BY <1>1, <1>2, Invariance, PTL DEF Spec

\* With a configured list, no name of which is an id of a subscription, a billet
\* is served with the private key of its certificate, whatever refreshes
\* overlap: the keys in d.keys never change under them.
THEOREM BilletKeys ==
  ASSUME BilletsConfigured
  PROVE  Spec => []BilletKeyPaired
  <1>1. BilletKeysInv => BilletKeyPaired
    BY DEF BilletKeysInv, BilletKeyPaired, Paired, KeyOf
  <1> QED
    BY <1>1, BilletInvariance, PTL
=============================================================================
