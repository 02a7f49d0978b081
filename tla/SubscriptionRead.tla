--------------------------- MODULE SubscriptionRead ---------------------------
(***************************************************************************)
(* The GET handlers that read one subscription while refreshes and DELETE  *)
(* write it: which reads are under d.mu, a sync.RWMutex, and which are     *)
(* not.                                                                    *)
(*                                                                         *)
(* A credential is the number of its exchange; its token, certificate and  *)
(* key are assigned together and read one at a time.  What an unlocked     *)
(* read returns while a writer assigns is left to the build: the old       *)
(* value, the new one, or, as a string is a pointer and a length, neither. *)
(***************************************************************************)
EXTENDS Naturals, FiniteSets

CONSTANTS
  Handlers,      \* goroutines that serve GET requests
  Writers,       \* goroutines that take the write lock
  MaxExchanges,  \* bounds the successful exchanges
  None

ASSUME ConstantsAssumption ==
  /\ Handlers \cap Writers = {}
  /\ None \notin Handlers \cup Writers
  /\ None \notin [status : {"pending", "ready"}, cred : Nat]
  /\ MaxExchanges \in Nat

\* GET /manifest.json and GET /subscriptions render all entries at once,
\* GET /subscriptions/{id} one; the others serve a part of the credential.
Kinds == {"all", "entry", "token", "pem"}
Parts == {"token", "pem"}

VARIABLES
  subscribed,  \* the object is in d.subscriptions
  object,      \* *subscription: its status and credential, 0 for none
  exchanged,   \* the successful exchanges so far
  announced,   \* RWMutex: the writer that waits for the readers or is active
  holds,       \* RWMutex: how many read locks a handler has
  waiting,     \* RWMutex: the handlers blocked in RLock
  pc,
  kind,        \* what a handler serves
  write,       \* the object as a writer will leave it
  answer,      \* the status and what else of the object a handler answers
               \* with, None for not found
  seen         \* the states of the object from its request to its answer

mutex == <<announced, holds, waiting>>
data == <<subscribed, object, exchanged>>
vars == <<data, mutex, pc, kind, write, answer, seen>>

State(status, cred) == [status |-> status, cred |-> cred]
States == [status : {"pending", "ready"}, cred : 0..MaxExchanges]
Torn == MaxExchanges + 1

\* Outside of a critical section a ready subscription has a credential, and
\* handlers wait in RLock only for a writer.
TypeOK ==
  /\ subscribed \in BOOLEAN
  /\ object \in States
  /\ object.status = "ready" => object.cred # 0
  /\ exchanged \in 0..MaxExchanges
  /\ announced \in Writers \cup {None}
  /\ holds \in [Handlers -> 0..2]
  /\ waiting \subseteq Handlers
  /\ waiting # {} => announced # None
  /\ pc \in [Handlers \cup Writers ->
               {"idle", "find", "relock", "render", "status", "check", "read",
                "done", "lock", "assign"}]
  /\ kind \in [Handlers -> Kinds]
  /\ write \in [Writers -> States]
  /\ answer \in [Handlers -> [status : {"pending", "ready"}, cred : 0..Torn]
                              \cup {None}]
  /\ seen \in [Handlers -> SUBSET States]

\* POST /subscriptions has just created it.
Init ==
  /\ subscribed = TRUE
  /\ object = State("pending", 0)
  /\ exchanged = 0
  /\ announced = None
  /\ holds = [h \in Handlers |-> 0]
  /\ waiting = {}
  /\ pc = [p \in Handlers \cup Writers |-> "idle"]
  /\ kind = [h \in Handlers |-> "entry"]
  /\ write = [w \in Writers |-> object]
  /\ answer = [h \in Handlers |-> None]
  /\ seen = [h \in Handlers |-> {}]

Goto(p, step) == pc' = [pc EXCEPT ![p] = step]

-----------------------------------------------------------------------------
(* sync.RWMutex: a writer announces itself, which holds off new readers,   *)
(* and waits for those it finds; Unlock lets in all that wait by then.     *)

RLock(h) ==
  /\ IF announced = None
     THEN holds' = [holds EXCEPT ![h] = @ + 1] /\ UNCHANGED waiting
     ELSE waiting' = waiting \cup {h} /\ UNCHANGED holds
  /\ UNCHANGED announced

RUnlock(h) ==
  /\ holds' = [holds EXCEPT ![h] = @ - 1]
  /\ UNCHANGED <<announced, waiting>>

Holds(h) == holds[h] > 0 /\ h \notin waiting

Lock(w) ==
  /\ announced = None
  /\ announced' = w
  /\ UNCHANGED <<holds, waiting>>

Unlock ==
  /\ announced' = None
  /\ holds' = [h \in Handlers |-> IF h \in waiting THEN holds[h] + 1
                                                   ELSE holds[h]]
  /\ waiting' = {}

-----------------------------------------------------------------------------
(* The writers.                                                            *)

\* A refresh whose discovery lacks a billet, or whose exchange has succeeded,
\* writes through the pointer it copied, whether or not DELETE comes between.
StartWrite(w) ==
  /\ pc[w] = "idle"
  /\ subscribed
  /\ \/ /\ write' = [write EXCEPT ![w] = State("pending", 0)]
        /\ UNCHANGED exchanged
     \/ /\ exchanged < MaxExchanges
        /\ exchanged' = exchanged + 1
        /\ write' = [write EXCEPT ![w] = State("ready", exchanged')]
  /\ Goto(w, "lock")
  /\ UNCHANGED <<subscribed, object, mutex, kind, answer, seen>>

Announce(w) ==
  /\ pc[w] = "lock"
  /\ Lock(w)
  /\ UNCHANGED <<data, pc, kind, write, answer, seen>>

\* Mutant: a subscription that has to wait loses its credential but not its
\* status.
Assigned_StatusKept(w) ==
  IF write[w].status = "pending" THEN [object EXCEPT !.cred = 0] ELSE write[w]

\* A pending subscription keeps its old credential.
Assigned(w) ==
  IF write[w].status = "pending" THEN [object EXCEPT !.status = "pending"]
                                 ELSE write[w]

Shows(new) ==
  seen' = [h \in Handlers |-> IF pc[h] \in {"idle", "done"} THEN seen[h]
                                               ELSE seen[h] \cup {new}]

\* The last reader has left: the assignments begin.
EnterWrite(w) ==
  /\ pc[w] = "lock"
  /\ announced = w
  /\ \A h \in Handlers : holds[h] = 0
  /\ Goto(w, "assign")
  /\ Shows(Assigned(w))
  /\ UNCHANGED <<data, mutex, kind, write, answer>>

LeaveWrite(w) ==
  /\ pc[w] = "assign"
  /\ object' = Assigned(w)
  /\ Shows(object')
  /\ Unlock
  /\ Goto(w, "idle")
  /\ write' = [write EXCEPT ![w] = State("pending", 0)]
  /\ UNCHANGED <<subscribed, exchanged, kind, answer>>

\* DELETE /subscriptions/{id} has nothing to do under its lock but this.
DeleteSubscription ==
  /\ subscribed
  /\ announced = None
  /\ \A h \in Handlers : holds[h] = 0
  /\ subscribed' = FALSE
  /\ UNCHANGED <<object, exchanged, mutex, pc, kind, write, answer, seen>>

-----------------------------------------------------------------------------
(* The readers.                                                            *)

Reply(h, what) == Goto(h, "done") /\ answer' = [answer EXCEPT ![h] = what]

Request(h, k) ==
  /\ pc[h] = "idle"
  /\ kind' = [kind EXCEPT ![h] = k]
  /\ Goto(h, IF k = "all" THEN "render" ELSE "find")
  /\ RLock(h)
  /\ seen' = [seen EXCEPT ![h] = {object}]
  /\ UNCHANGED <<data, write, answer>>

\* Mutant: the entry is rendered before the lock of the lookup is released.
FindSubscription_KeepsLock(h) ==
  /\ pc[h] = "find"
  /\ Holds(h)
  /\ IF ~ subscribed THEN RUnlock(h) /\ Reply(h, None)
     ELSE /\ IF kind[h] = "entry" THEN Goto(h, "relock") /\ UNCHANGED mutex
                                  ELSE Goto(h, "status") /\ RUnlock(h)
          /\ UNCHANGED answer
  /\ UNCHANGED <<data, kind, write, seen>>

\* findSubscription returns the pointer and releases the lock.
FindSubscription(h) ==
  /\ pc[h] = "find"
  /\ Holds(h)
  /\ RUnlock(h)
  /\ IF ~ subscribed THEN Reply(h, None)
     ELSE /\ Goto(h, IF kind[h] = "entry" THEN "relock" ELSE "status")
          /\ UNCHANGED answer
  /\ UNCHANGED <<data, kind, write, seen>>

Relock(h) ==
  /\ pc[h] = "relock"
  /\ Goto(h, "render")
  /\ RLock(h)
  /\ UNCHANGED <<data, kind, write, answer, seen>>

\* What a read may return; under the lock there is nobody assigning.
Assigning == {w \in Writers : pc[w] = "assign"}
StatusSeen == {object.status} \cup {Assigned(w).status : w \in Assigning}
\* Mutant: the old credential is dropped before the new one is assigned.
CredSeen_ClearedFirst ==
  {object.cred} \cup {Assigned(w).cred : w \in Assigning}
  \cup (IF Assigning = {} THEN {} ELSE {0})

CredSeen ==
  LET after == {Assigned(w).cred : w \in Assigning}
  IN  {object.cred} \cup after
      \cup (IF after \subseteq {object.cred} THEN {} ELSE {Torn})

\* Mutant: the entry is rendered without the lock.
Render_Unlocked(h) ==
  /\ pc[h] = "render"
  /\ IF Holds(h) THEN RUnlock(h)
     ELSE waiting' = waiting \ {h} /\ UNCHANGED <<announced, holds>>
  /\ IF kind[h] = "all" /\ ~ subscribed THEN Reply(h, None)
     ELSE \E s \in StatusSeen, c \in CredSeen : Reply(h, State(s, c))
  /\ UNCHANGED <<data, kind, write, seen>>

\* manifestSubscription: the status, and the expiry of the credential, read one
\* after the other.
Render(h) ==
  /\ pc[h] = "render"
  /\ Holds(h)
  /\ RUnlock(h)
  /\ IF kind[h] = "all" /\ ~ subscribed THEN Reply(h, None)
     ELSE \E s \in StatusSeen, c \in CredSeen : Reply(h, State(s, c))
  /\ UNCHANGED <<data, kind, write, seen>>

\* sub.status is read, then a string of sub.cred to see whether it is empty,
\* then the string again to serve it.
ReadStatus(h) ==
  /\ pc[h] = "status"
  /\ \E s \in StatusSeen :
       IF s = "ready" THEN Goto(h, "check") /\ UNCHANGED answer
                      ELSE Reply(h, None)
  /\ UNCHANGED <<data, mutex, kind, write, seen>>

\* A token is never empty; an exchange may come without a certificate.
CheckEmpty(h) ==
  /\ pc[h] = "check"
  /\ \/ /\ CredSeen # {0}
        /\ Goto(h, "read")
        /\ UNCHANGED answer
     \/ /\ 0 \in CredSeen \/ kind[h] # "token"
        /\ Reply(h, None)
  /\ UNCHANGED <<data, mutex, kind, write, seen>>

ReadPart(h) ==
  /\ pc[h] = "read"
  /\ \E c \in CredSeen : Reply(h, IF c = 0 THEN None ELSE State("ready", c))
  /\ UNCHANGED <<data, mutex, kind, write, seen>>

\* The handler returns.
Finish(h) ==
  /\ pc[h] = "done"
  /\ Goto(h, "idle")
  /\ kind' = [kind EXCEPT ![h] = "entry"]
  /\ answer' = [answer EXCEPT ![h] = None]
  /\ seen' = [seen EXCEPT ![h] = {}]
  /\ UNCHANGED <<data, mutex, write>>

-----------------------------------------------------------------------------

HandlerStep(h) ==
  \/ FindSubscription(h) \/ Relock(h) \/ Render(h)
  \/ ReadStatus(h) \/ CheckEmpty(h) \/ ReadPart(h)
  \/ Finish(h)

\* GET /, /openapi.json and /docs need no lock and are served even if all
\* others wait.
ServeStatic == UNCHANGED vars

Next ==
  \/ \E w \in Writers :
       StartWrite(w) \/ Announce(w) \/ EnterWrite(w) \/ LeaveWrite(w)
  \/ \E h \in Handlers :
       HandlerStep(h) \/ \E k \in Kinds : Request(h, k)
  \/ DeleteSubscription
  \/ ServeStatic

Spec == Init /\ [][Next]_vars

\* Goroutines run on, and a sync.Mutex, which orders the writers of a
\* RWMutex, starves nobody.
Fairness ==
  /\ \A h \in Handlers : WF_vars(HandlerStep(h))
  /\ \A w \in Writers : /\ SF_vars(Announce(w))
                        /\ WF_vars(EnterWrite(w))
                        /\ WF_vars(LeaveWrite(w))

FairSpec == Spec /\ Fairness

-----------------------------------------------------------------------------

Answered(h) == pc[h] = "done" /\ answer[h] # None

\* The status and the expiry a client reads in one entry belong together: the
\* subscription, or the one deleted meanwhile, had both at one moment since
\* the request.
EntryIsSnapshot ==
  \A h \in Handlers :
    Answered(h) /\ kind[h] \notin Parts => answer[h] \in seen[h]

\* A subscription that is ready, and not deleted, from the request to the answer
\* is never answered with "not found" by the handler of its token, although
\* that looks at it three times outside the lock while renewals assign it.
ReadyIsFound ==
  \A h \in Handlers :
    /\ pc[h] = "done"
    /\ kind[h] = "token"
    /\ subscribed
    /\ \A s \in seen[h] : s.status = "ready"
    => answer[h] # None

\* Whatever the order of requests, renewals and deletions, the read locks that
\* one handler takes never block each other through a writer in between: every
\* request is answered, and every refresh gets to write.
NobodyWaitsForever ==
  \A p \in Handlers \cup Writers : pc[p] # "idle" ~> pc[p] = "idle"

\* "Returns the combined Quartermaster access token when subscription status is
\* ready": a request for the token of a subscription that is ready all the time
\* gets a token it had in that time.  Violated: a renewal may assign the string
\* while it is read.
TokenWhenReady ==
  \A h \in Handlers :
    /\ Answered(h)
    /\ kind[h] = "token"
    /\ \A s \in seen[h] : s.status = "ready"
    => answer[h] \in seen[h]

-----------------------------------------------------------------------------
(* The inductive invariant behind EntryIsSnapshot and ReadyIsFound.        *)

Locking(h) == pc[h] \in {"find", "render"}
Unlocked(h) == pc[h] \in {"status", "check", "read"}

\* A handler holds the read lock once, where it waits for it or has it, and a
\* writer that assigns holds off all of them.
LockInv ==
  /\ \A h \in Handlers :
       /\ pc[h] \notin {"lock", "assign"}
       /\ h \in waiting => Locking(h)
       /\ holds[h] = IF Locking(h) /\ h \notin waiting THEN 1 ELSE 0
       /\ Unlocked(h) => kind[h] \in Parts
       /\ pc[h] \in {"relock", "render"} => kind[h] \notin Parts
       /\ pc[h] = "find" => kind[h] # "all"
  /\ \A w \in Writers :
       /\ pc[w] \in {"idle", "lock", "assign"}
       /\ pc[w] = "assign" => announced = w /\ \A h \in Handlers : holds[h] = 0

\* A handler has seen what the object is and, if it reads without the lock,
\* what it is about to be; whatever is ready has a credential.
SeenInv ==
  /\ \A h \in Handlers :
       /\ pc[h] \notin {"idle", "done"} => object \in seen[h]
       /\ Unlocked(h) => \A w \in Assigning : Assigned(w) \in seen[h]
       /\ \A s \in seen[h] : s.status = "ready" => s.cred # 0
  /\ \A w \in Writers : write[w].status = "ready" => write[w].cred # 0

ReadInv == TypeOK /\ LockInv /\ SeenInv /\ EntryIsSnapshot /\ ReadyIsFound

=============================================================================
