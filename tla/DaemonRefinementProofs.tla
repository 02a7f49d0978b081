------------------------ MODULE DaemonRefinementProofs ------------------------
(* Daemon implements SubscriptionService, for every value of its constants. *)
EXTENDS DaemonProofs, DaemonRefinement

\* What a client sees under an id depends on the pointer and its object only.
LEMMA EntryFrame ==
  ASSUME NEW id \in SubIds, subscriptions'[id] = subscriptions[id],
         Subscribed(id) => heap'[subscriptions[id]] = heap[subscriptions[id]]
  PROVE  EntryOf(id)' = EntryOf(id)
  BY DEF EntryOf, Sub, Subscribed

\* Two ids never lead to one object.
LEMMA OneIdPerObject ==
  ASSUME ControlInv, NEW i \in SubIds, NEW j \in SubIds, Subscribed(i),
         subscriptions[i] = subscriptions[j]
  PROVE  i = j
  BY DEF ControlInv, Subscribed, Sub

\* An object that is replaced is seen under the id it is subscribed as, if any.
LEMMA OneEntryChanges ==
  ASSUME TypeOK, ControlInv, NEW o \in Objects, NEW s \in Subscription,
         heap' = [heap EXCEPT ![o] = s], UNCHANGED subscriptions
  PROVE  \/ \A j \in SubIds : EntryOf(j)' = EntryOf(j)
         \/ \E id \in SubIds :
              /\ subscriptions[id] = o
              /\ EntryOf(id) = [req |-> heap[o].req, status |-> heap[o].status,
                                cred |-> heap[o].cred]
              /\ EntryOf(id)' = [req |-> s.req, status |-> s.status,
                                 cred |-> s.cred]
              /\ \A j \in SubIds \ {id} : EntryOf(j)' = EntryOf(j)
  <1>1. CASE \A id \in SubIds : subscriptions[id] # o
    BY <1>1, EntryFrame DEF TypeOK
  <1>2. ASSUME NEW id \in SubIds, subscriptions[id] = o
        PROVE  /\ EntryOf(id) = [req |-> heap[o].req, status |-> heap[o].status,
                                 cred |-> heap[o].cred]
               /\ EntryOf(id)' = [req |-> s.req, status |-> s.status,
                                  cred |-> s.cred]
               /\ \A j \in SubIds \ {id} : EntryOf(j)' = EntryOf(j)
    <2>1. o # None /\ Subscribed(id)
      BY <1>2, ConstantsAssumption DEF Subscribed
    <2>2. \A j \in SubIds \ {id} : subscriptions[j] # o
      BY <1>2, <2>1, OneIdPerObject
    <2>3. \A j \in SubIds \ {id} : EntryOf(j)' = EntryOf(j)
      BY <2>2, EntryFrame DEF TypeOK
    <2>4. heap'[o] = s
      BY DEF TypeOK
    <2> QED
      BY <1>2, <2>1, <2>3, <2>4 DEF EntryOf, Sub
  <1> QED
    BY <1>1, <1>2

\* Only steps that leave the subscriptions alone end the process.
LEMMA UpStep ==
  ASSUME [Next]_vars
  PROVE  \/ UNCHANGED phase
         \/ Up /\ UNCHANGED <<subscriptions, heap>>
  BY ZenonT(60) DEF Next, ChangeEntitlement, WakeLoop, StopLoop, CreateSubscription,
     DeleteSubscription, Exited, vars, store, Up, RefreshStep, Discover,
     DiscoverFails, PublishAvailable, ClearBillets, NextBillet, CommitBillets,
     SnapshotSubscriptions, NextSubscription, MarkPending, InstallSubscription,
     FinishRefresh, GenerateKey, RegenerateKey, Respond, ExchangeSucceeds,
     ExchangeFails, ExchangePanics

\* A subscription has an entry.
LEMMA HasEntry ==
  ASSUME TypeOK, ControlInv, NEW id \in SubIds, Subscribed(id)
  PROVE  EntryOf(id) \in Entries /\ EntryOf(id) # None
  <1>1. Sub(id) \in Subscription
    BY DEF TypeOK, ControlInv, Subscribed, Sub
  <1>2. EntryOf(id) = [req |-> Sub(id).req, status |-> Sub(id).status,
                       cred |-> Sub(id).cred]
    BY DEF EntryOf, Subscribed
  <1>3. EntryOf(id) \in Entries
    BY <1>1, <1>2 DEF Entries, Subscription
  <1> QED
    BY <1>3, NoEntryAssumption

\* MarkPending suspends the subscription it visits, if it still is one.
LEMMA MarkPendingImplements ==
  ASSUME IInv, NEW p \in Procs, MarkPending(p)
  PROVE  [Service!Next]_(Service!vars)
  <1>1. PICK t \in todo[p], s \in Subscription :
          /\ t.obj \in Objects
          /\ heap' = [heap EXCEPT ![t.obj] = s]
          /\ s.req = heap[t.obj].req /\ s.cred = heap[t.obj].cred
          /\ s.status = "pending"
    BY MarkPendingEffect DEF IInv, ControlInv
  <1>2. Up /\ Up' = Up /\ UNCHANGED subscriptions
    BY DEF MarkPending, Up
  <1>3. CASE \A j \in SubIds : EntryOf(j)' = EntryOf(j)
    BY <1>2, <1>3 DEF Service!vars
  <1>4. ASSUME NEW id \in SubIds,
               EntryOf(id) = [req |-> heap[t.obj].req,
                              status |-> heap[t.obj].status,
                              cred |-> heap[t.obj].cred],
               EntryOf(id)' = [req |-> s.req, status |-> s.status,
                               cred |-> s.cred],
               subscriptions[id] = t.obj,
               \A j \in SubIds \ {id} : EntryOf(j)' = EntryOf(j)
        PROVE  Service!Suspend(id)
    <2>1. Subscribed(id)
      BY <1>1, <1>4, ConstantsAssumption DEF Subscribed
    <2>2. EntryOf(id) # None
      BY <2>1, HasEntry DEF IInv
    <2>3. EntryOf(id)' = Service!Entry(EntryOf(id).req, "pending", EntryOf(id).cred)
      BY <1>1, <1>4 DEF Service!Entry
    <2> QED
      BY <1>2, <1>4, <2>2, <2>3 DEF Service!Suspend
  <1>5. \/ \A j \in SubIds : EntryOf(j)' = EntryOf(j)
        \/ \E id \in SubIds : Service!Suspend(id)
    <2>1. TypeOK /\ ControlInv
      BY DEF IInv
    <2>2. heap' = [heap EXCEPT ![t.obj] = s] /\ UNCHANGED subscriptions
      BY <1>1, <1>2
    <2>3. \/ \A j \in SubIds : EntryOf(j)' = EntryOf(j)
          \/ \E id \in SubIds :
               /\ subscriptions[id] = t.obj
               /\ EntryOf(id) = [req |-> heap[t.obj].req,
                                 status |-> heap[t.obj].status,
                                 cred |-> heap[t.obj].cred]
               /\ EntryOf(id)' = [req |-> s.req, status |-> s.status,
                                  cred |-> s.cred]
               /\ \A j \in SubIds \ {id} : EntryOf(j)' = EntryOf(j)
      BY <1>1, <2>1, <2>2, OneEntryChanges, ZenonT(120)
    <2> QED
      BY <1>4, <2>3
  <1> QED
    BY <1>3, <1>5 DEF Service!Next

\* InstallSubscription grants the subscription a credential, if it still is
\* one: KeyInv says that a renewal's key is the one it has.
LEMMA InstallImplements ==
  ASSUME IInv, IInv', NEW p \in Procs, InstallSubscription(p)
  PROVE  [Service!Next]_(Service!vars)
  <1>1. PICK c \in Objects, s \in Subscription :
          /\ heap' = [heap EXCEPT ![c] = s]
          /\ s.req = heap[c].req /\ s.cred = response[p]
          /\ s.status = "ready"
          /\ response[p] \in Credential
    BY InstallEffect DEF IInv, ControlInv
  <1>2. Up /\ Up' = Up /\ UNCHANGED subscriptions /\ UNCHANGED keys
    BY DEF InstallSubscription, Up
  <1>3. CASE \A j \in SubIds : EntryOf(j)' = EntryOf(j)
    BY <1>2, <1>3 DEF Service!vars
  <1>4. ASSUME NEW id \in SubIds,
               EntryOf(id) = [req |-> heap[c].req, status |-> heap[c].status,
                              cred |-> heap[c].cred],
               EntryOf(id)' = [req |-> s.req, status |-> s.status,
                               cred |-> s.cred],
               subscriptions[id] = c,
               \A j \in SubIds \ {id} : EntryOf(j)' = EntryOf(j)
        PROVE  Service!Grant(id)
    <2>1. Subscribed(id) /\ Subscribed(id)' /\ Sub(id) = heap[c] /\ Sub(id)' = s
      BY <1>1, <1>2, <1>4, ConstantsAssumption DEF Subscribed, Sub, IInv, TypeOK
    <2>2. EntryOf(id) # None
      BY <2>1, HasEntry DEF IInv
    <2>3. s.cred # None
      BY <1>1, ConstantsAssumption
    <2>4. s.cred.cert \in {keys[id], None} /\ s.cred.key = keys[id]
      BY <1>2, <2>1, <2>3 DEF IInv, KeyInv, KeyOf
    <2>5. heap[c].cred # None => keys[id] = heap[c].cred.key
      BY <2>1 DEF IInv, KeyInv, KeyOf
    <2>6. s.cred.scope = heap[c].req
      <3>1. heap'[c] = s
        BY <1>1 DEF IInv, TypeOK
      <3>2. s # None
        BY ConstantsAssumption
      <3> QED
        BY <1>1, <2>3, <3>1, <3>2 DEF IInv, ScopeInv
    <2>7. s.cred \in Service!Credentials(heap[c].req)
      <3>1. s.cred \in Credential /\ s.cred.cert \in {s.cred.key, None}
        BY <1>1, <2>4
      <3> QED
        BY <2>6, <3>1 DEF Credential, MaybeKey, Service!Credentials
    <2>8. EntryOf(id)' = Service!Entry(EntryOf(id).req, "ready", s.cred)
      BY <1>1, <1>4 DEF Service!Entry
    <2>9. EntryOf(id).req = heap[c].req /\ EntryOf(id).cred = heap[c].cred
      BY <1>4
    <2>10. EntryOf(id).cred # None => s.cred.key = EntryOf(id).cred.key
      BY <2>4, <2>5, <2>9
    <2> QED
      BY <1>2, <1>4, <2>2, <2>7, <2>8, <2>9, <2>10 DEF Service!Grant
  <1>5. \/ \A j \in SubIds : EntryOf(j)' = EntryOf(j)
        \/ \E id \in SubIds : Service!Grant(id)
    <2>1. TypeOK /\ ControlInv
      BY DEF IInv
    <2>2. heap' = [heap EXCEPT ![c] = s] /\ UNCHANGED subscriptions
      BY <1>1, <1>2
    <2>3. \/ \A j \in SubIds : EntryOf(j)' = EntryOf(j)
          \/ \E id \in SubIds :
               /\ subscriptions[id] = c
               /\ EntryOf(id) = [req |-> heap[c].req, status |-> heap[c].status,
                                 cred |-> heap[c].cred]
               /\ EntryOf(id)' = [req |-> s.req, status |-> s.status,
                                  cred |-> s.cred]
               /\ \A j \in SubIds \ {id} : EntryOf(j)' = EntryOf(j)
      BY <2>1, <2>2, OneEntryChanges, ZenonT(120)
    <2> QED
      BY <1>4, <2>3
  <1> QED
    BY <1>3, <1>5 DEF Service!Next

\* POST creates the entry of its id or changes none: the new object is fresh,
\* so no other id leads to it.
LEMMA CreateImplements ==
  ASSUME IInv, NEW r \in Requests, NEW w \in Workers, CreateSubscription(r, w)
  PROVE  [Service!Next]_(Service!vars)
  <1> DEFINE id == IdOf[r]
  <1>1. id \in SubIds /\ Up /\ Up' = Up
    BY ConstantsAssumption DEF CreateSubscription, Up
  <1>2. CASE UNCHANGED <<subscriptions, heap>>
    BY <1>1, <1>2, EntryFrame DEF Service!vars
  <1>3. ASSUME NEW o \in Objects, NEW s \in Subscription, o \notin Reachable,
               subscriptions' = [subscriptions EXCEPT ![id] = o],
               heap' = [heap EXCEPT ![o] = s],
               s.req = r, s.status = "pending", s.cred = None,
               subscriptions[id] = None
        PROVE  Service!Create(r)
    <2>1. EntryOf(id) = None
      BY <1>3 DEF EntryOf
    <2>2. \A j \in SubIds \ {id} : EntryOf(j)' = EntryOf(j)
      BY <1>1, <1>3, EntryFrame DEF IInv, TypeOK, Reachable
    <2>3. subscriptions'[id] = o /\ heap'[o] = s /\ o # None
      BY <1>1, <1>3, ConstantsAssumption DEF IInv, TypeOK
    <2>4. EntryOf(id)' = Service!Entry(r, "pending", None)
      BY <1>3, <2>3 DEF EntryOf, Sub, Service!Entry
    <2> HIDE DEF id
    <2>5. [j \in SubIds |-> EntryOf(j)]'
            = [[j \in SubIds |-> EntryOf(j)] EXCEPT ![id]
                 = Service!Entry(r, "pending", None)]
      BY <1>1, <2>2, <2>4
    <2> QED
      BY <1>1, <2>1, <2>5 DEF Service!Create, id
  <1>4. \/ UNCHANGED <<subscriptions, heap>>
        \/ /\ subscriptions[id] = None
           /\ \E o \in Objects, s \in Subscription :
                /\ o \notin Reachable
                /\ subscriptions' = [subscriptions EXCEPT ![id] = o]
                /\ heap' = [heap EXCEPT ![o] = s]
                /\ s.req = r /\ s.status = "pending" /\ s.cred = None
    <2>1. CASE subscriptions[id] # None
      BY <2>1 DEF CreateSubscription
    <2>2. CASE subscriptions[id] = None
      BY <2>2, CreateEffect DEF IInv
    <2> QED
      BY <2>1, <2>2
  <1> HIDE DEF id
  <1>5. \/ UNCHANGED <<subscriptions, heap>>
        \/ Service!Create(r)
    BY <1>3, <1>4
  <1> QED
    BY <1>2, <1>5 DEF Service!Next

\* DELETE removes the entry and no other.
LEMMA DeleteImplements ==
  ASSUME IInv, NEW id \in SubIds, DeleteSubscription(id)
  PROVE  Service!Delete(id)
  <1>1. /\ Subscribed(id) /\ Up /\ Up' = Up /\ UNCHANGED heap
        /\ subscriptions' = [subscriptions EXCEPT ![id] = None]
    BY DEF DeleteSubscription, Up, Subscribed
  <1>2. EntryOf(id) # None
    BY <1>1, HasEntry DEF IInv
  <1>3. \A j \in SubIds \ {id} : EntryOf(j)' = EntryOf(j)
    BY <1>1, EntryFrame DEF IInv, TypeOK
  <1>4. EntryOf(id)' = None
    BY <1>1 DEF EntryOf, IInv, TypeOK
  <1>5. [j \in SubIds |-> EntryOf(j)]'
          = [[j \in SubIds |-> EntryOf(j)] EXCEPT ![id] = None]
    BY <1>3, <1>4
  <1> QED
    BY <1>1, <1>2, <1>5 DEF Service!Delete

\* Every step of the daemon is a step of the service or changes nothing a
\* client sees.
LEMMA StepImplements ==
  ASSUME IInv, IInv', [Next]_vars
  PROVE  [Service!Next]_(Service!vars)
  <1>1. CASE UNCHANGED <<subscriptions, heap>>
    <2>1. UNCHANGED [id \in SubIds |-> EntryOf(id)]
      BY <1>1, EntryFrame
    <2>2. Up' = Up \/ (Up /\ ~ Up')
      BY UpStep DEF Up
    <2>3. Up' = Up \/ (Up = TRUE /\ Up' = FALSE)
      BY <2>2
    <2> QED
      BY <2>1, <2>3 DEF Service!Next, Service!Stop, Service!vars
  <1>2. ASSUME NEW p \in Procs, MarkPending(p) PROVE [Service!Next]_(Service!vars)
    BY <1>2, MarkPendingImplements
  <1>3. ASSUME NEW p \in Procs, InstallSubscription(p)
        PROVE  [Service!Next]_(Service!vars)
    BY <1>3, InstallImplements
  <1>4. ASSUME NEW r \in Requests, NEW w \in Workers, CreateSubscription(r, w)
        PROVE  [Service!Next]_(Service!vars)
    BY <1>4, CreateImplements
  <1>5. ASSUME NEW id \in SubIds, DeleteSubscription(id)
        PROVE  [Service!Next]_(Service!vars)
    BY <1>5, DeleteImplements DEF Service!Next
  <1> QED
    BY <1>1, <1>2, <1>3, <1>4, <1>5, HeapFrame, SubscriptionsFrame

\* The handlers of /subscriptions and refreshSubscriptions, with any number of
\* refreshes at once, give each client the abstract service.
THEOREM ServiceImplemented == Spec => ImplementsService
  <1>1. Init => Service!Init
    BY DEF Init, Service!Init, Up, EntryOf
  <1>2. IInv /\ IInv' /\ [Next]_vars => [Service!Next]_(Service!vars)
    BY StepImplements
  <1> QED
    BY <1>1, <1>2, Invariance, PTL DEF Spec, ImplementsService, Service!Spec
=============================================================================
