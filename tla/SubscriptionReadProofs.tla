------------------------ MODULE SubscriptionReadProofs ------------------------
(***************************************************************************)
(* What GET handlers answer, for any number of handlers, writers and       *)
(* exchanges: who holds d.mu when, and what a handler has seen by then.    *)
(***************************************************************************)
EXTENDS SubscriptionRead, TLAPS

\* What a writer is about to leave is a state of a subscription; if it is
\* ready it has a credential.
LEMMA AssignedState ==
  ASSUME TypeOK, SeenInv, NEW w \in Writers
  PROVE  /\ Assigned(w) \in States
         /\ Assigned(w).status = "ready" => Assigned(w).cred # 0
  <1>1. object \in States /\ write[w] \in States
    BY DEF TypeOK
  <1>2. CASE write[w].status = "pending"
    BY <1>1, <1>2 DEF Assigned, States
  <1>3. CASE write[w].status # "pending"
    BY <1>1, <1>3 DEF Assigned, States, SeenInv
  <1> QED
    BY <1>2, <1>3

\* What a read returns has a type, under the lock or not.
LEMMA SeenTypes ==
  ASSUME TypeOK, SeenInv
  PROVE  /\ \A s \in StatusSeen : s \in {"pending", "ready"}
         /\ \A c \in CredSeen : c \in 0..Torn
  <1>1. MaxExchanges \in Nat
    BY ConstantsAssumption
  <1>2. object.status \in {"pending", "ready"} /\ object.cred \in 0..MaxExchanges
    BY DEF TypeOK, States
  <1>3. \A w \in Assigning : /\ Assigned(w).status \in {"pending", "ready"}
                             /\ Assigned(w).cred \in 0..MaxExchanges
    BY AssignedState DEF Assigning, States
  <1>4. \A s \in StatusSeen : s \in {"pending", "ready"}
    BY <1>2, <1>3 DEF StatusSeen
  <1>5. \A c \in CredSeen : c \in 0..MaxExchanges \/ c = Torn
    BY <1>2, <1>3 DEF CredSeen
  <1> QED
    BY <1>1, <1>4, <1>5 DEF Torn

\* A handler that has the lock reads the object as it is.
LEMMA LockedRead ==
  ASSUME TypeOK, LockInv, NEW h \in Handlers, Holds(h)
  PROVE  /\ Assigning = {} /\ StatusSeen = {object.status}
         /\ CredSeen = {object.cred}
  <1>1. Assigning = {}
    BY DEF TypeOK, LockInv, Holds, Assigning
  <1> QED
    BY <1>1 DEF StatusSeen, CredSeen

-----------------------------------------------------------------------------

\* What the handlers see of a write.
LEMMA ShowsTypes ==
  ASSUME TypeOK, NEW s \in States, Shows(s)
  PROVE  seen' \in [Handlers -> SUBSET States]
  BY DEF Shows, TypeOK

\* The lock's variables stay typed.
LEMMA LockTypes ==
  ASSUME TypeOK, LockInv, NEW h \in Handlers
  PROVE  /\ RLock(h) /\ ~ Locking(h) =>
              /\ announced' \in Writers \cup {None}
              /\ holds' \in [Handlers -> 0..2]
              /\ waiting' \subseteq Handlers
              /\ waiting' # {} => announced' # None
         /\ RUnlock(h) /\ Holds(h) =>
              /\ announced' \in Writers \cup {None}
              /\ holds' \in [Handlers -> 0..2]
              /\ waiting' \subseteq Handlers
              /\ waiting' # {} => announced' # None
  BY DEF TypeOK, LockInv, RLock, RUnlock, Holds

\* Every step keeps the types.
LEMMA NextTypes ==
  ASSUME TypeOK, LockInv, SeenInv, [Next]_vars
  PROVE  TypeOK'
  <1> USE DEF TypeOK, Goto, data, mutex
  <1>1. ASSUME NEW w \in Writers, StartWrite(w) PROVE TypeOK'
    <2>1. MaxExchanges \in Nat /\ exchanged' \in 0..MaxExchanges
      BY <1>1, ConstantsAssumption DEF StartWrite
    <2>2. \E s \in States : write' = [write EXCEPT ![w] = s]
      BY <1>1, <2>1 DEF StartWrite, State, States
    <2> QED
      BY <1>1, <2>1, <2>2 DEF StartWrite
  <1>2. ASSUME NEW w \in Writers, Announce(w) PROVE TypeOK'
    BY <1>2, ConstantsAssumption DEF Announce, Lock
  <1>3. ASSUME NEW w \in Writers, EnterWrite(w) PROVE TypeOK'
    BY <1>3, AssignedState, ShowsTypes DEF EnterWrite
  <1>4. ASSUME NEW w \in Writers, LeaveWrite(w) PROVE TypeOK'
    <2>1. object' \in States /\ (object'.status = "ready" => object'.cred # 0)
      BY <1>4, AssignedState DEF LeaveWrite
    <2>2. seen' \in [Handlers -> SUBSET States]
      BY <1>4, <2>1, ShowsTypes DEF LeaveWrite
    <2>3. State("pending", 0) \in States
      BY ConstantsAssumption DEF State, States
    <2>4. /\ announced' = None /\ waiting' = {}
          /\ holds' \in [Handlers -> 0..2]
      BY <1>4 DEF LeaveWrite, Unlock, LockInv
    <2> QED
      BY <1>4, <2>1, <2>2, <2>3, <2>4 DEF LeaveWrite
  <1>5. CASE DeleteSubscription
    BY <1>5 DEF DeleteSubscription
  <1>6. ASSUME NEW h \in Handlers, NEW k \in Kinds, Request(h, k) PROVE TypeOK'
    <2>1. {object} \subseteq States
      OBVIOUS
    <2> QED
      BY <1>6, <2>1, LockTypes DEF Request, Locking
  <1>7. ASSUME NEW h \in Handlers, FindSubscription(h) PROVE TypeOK'
    BY <1>7, LockTypes DEF FindSubscription, Reply
  <1>8. ASSUME NEW h \in Handlers, Relock(h) PROVE TypeOK'
    BY <1>8, LockTypes DEF Relock, Locking
  <1>9. ASSUME NEW h \in Handlers, NEW s \in {"pending", "ready"},
               NEW c \in 0..Torn
        PROVE  State(s, c) \in [status : {"pending", "ready"}, cred : 0..Torn]
    BY DEF State
  <1>10. ASSUME NEW h \in Handlers, Render(h) PROVE TypeOK'
    <2>1. \E a \in [status : {"pending", "ready"}, cred : 0..Torn] \cup {None} :
            Reply(h, a)
      BY <1>9, <1>10, SeenTypes DEF Render
    <2> QED
      BY <1>10, <2>1, LockTypes DEF Render, Reply
  <1>11. ASSUME NEW h \in Handlers, ReadStatus(h) PROVE TypeOK'
    BY <1>11 DEF ReadStatus, Reply
  <1>12. ASSUME NEW h \in Handlers, CheckEmpty(h) PROVE TypeOK'
    BY <1>12 DEF CheckEmpty, Reply
  <1>13. ASSUME NEW h \in Handlers, ReadPart(h) PROVE TypeOK'
    <2>1. \E a \in [status : {"pending", "ready"}, cred : 0..Torn] \cup {None} :
            Reply(h, a)
      BY <1>9, <1>13, SeenTypes DEF ReadPart
    <2> QED
      BY <1>13, <2>1 DEF ReadPart, Reply
  <1>14. ASSUME NEW h \in Handlers, Finish(h) PROVE TypeOK'
    BY <1>14 DEF Finish, Kinds
  <1>15. CASE UNCHANGED vars
    BY <1>15 DEF vars
  <1> QED
    BY <1>1, <1>2, <1>3, <1>4, <1>5, <1>6, <1>7, <1>8, <1>10, <1>11, <1>12,
       <1>13, <1>14, <1>15
    DEF Next, HandlerStep, ServeStatic

-----------------------------------------------------------------------------

\* The part of LockInv about a handler, and about a writer.
HandlerLock(h) ==
  /\ pc[h] \notin {"lock", "assign"}
  /\ h \in waiting => Locking(h)
  /\ holds[h] = IF Locking(h) /\ h \notin waiting THEN 1 ELSE 0
  /\ Unlocked(h) => kind[h] \in Parts
  /\ pc[h] \in {"relock", "render"} => kind[h] \notin Parts
  /\ pc[h] = "find" => kind[h] # "all"

WriterLock(w) ==
  /\ pc[w] \in {"idle", "lock", "assign"}
  /\ pc[w] = "assign" => announced = w /\ \A h \in Handlers : holds[h] = 0

\* Every step keeps the locks as LockInv says.
LEMMA NextLocks ==
  ASSUME TypeOK, LockInv, [Next]_vars
  PROVE  LockInv'
  <1> USE DEF TypeOK, Goto, data, mutex
  <1>0. /\ \A h \in Handlers : HandlerLock(h) /\ h \notin Writers
        /\ \A w \in Writers : WriterLock(w) /\ w \notin Handlers
    BY ConstantsAssumption DEF LockInv, HandlerLock, WriterLock
  <1> SUFFICES /\ \A h \in Handlers : HandlerLock(h)'
               /\ \A w \in Writers : WriterLock(w)'
    BY DEF LockInv, HandlerLock, WriterLock
  <1> USE DEF HandlerLock, WriterLock, Locking, Unlocked, Parts
  <1>1. ASSUME NEW w \in Writers, StartWrite(w) \/ Announce(w)
        PROVE  /\ \A h \in Handlers : HandlerLock(h)'
               /\ \A v \in Writers : WriterLock(v)'
    <2>1. CASE StartWrite(w)
      BY <1>0, <2>1 DEF StartWrite
    <2>2. CASE Announce(w)
      BY <1>0, <2>2, ConstantsAssumption DEF Announce, Lock
    <2> QED
      BY <1>1, <2>1, <2>2
  <1>2. ASSUME NEW w \in Writers, EnterWrite(w)
        PROVE  /\ \A h \in Handlers : HandlerLock(h)'
               /\ \A v \in Writers : WriterLock(v)'
    BY <1>0, <1>2 DEF EnterWrite
  <1>3. ASSUME NEW w \in Writers, LeaveWrite(w)
        PROVE  /\ \A h \in Handlers : HandlerLock(h)'
               /\ \A v \in Writers : WriterLock(v)'
    BY <1>0, <1>3 DEF LeaveWrite, Unlock
  <1>4. ASSUME NEW g \in Handlers, NEW k \in Kinds, Request(g, k)
        PROVE  /\ \A h \in Handlers : HandlerLock(h)'
               /\ \A v \in Writers : WriterLock(v)'
    BY <1>0, <1>4, ConstantsAssumption DEF Request, RLock, Kinds
  <1>5. ASSUME NEW g \in Handlers, FindSubscription(g)
        PROVE  /\ \A h \in Handlers : HandlerLock(h)'
               /\ \A v \in Writers : WriterLock(v)'
    BY <1>0, <1>5 DEF FindSubscription, RUnlock, Reply, Holds, Kinds
  <1>6. ASSUME NEW g \in Handlers, Relock(g)
        PROVE  /\ \A h \in Handlers : HandlerLock(h)'
               /\ \A v \in Writers : WriterLock(v)'
    BY <1>0, <1>6, ConstantsAssumption DEF Relock, RLock
  <1>7. ASSUME NEW g \in Handlers, Render(g)
        PROVE  /\ \A h \in Handlers : HandlerLock(h)'
               /\ \A v \in Writers : WriterLock(v)'
    BY <1>0, <1>7 DEF Render, RUnlock, Reply, Holds
  <1>8. ASSUME NEW g \in Handlers,
               ReadStatus(g) \/ CheckEmpty(g) \/ ReadPart(g) \/ Finish(g)
        PROVE  /\ \A h \in Handlers : HandlerLock(h)'
               /\ \A v \in Writers : WriterLock(v)'
    BY <1>0, <1>8 DEF ReadStatus, CheckEmpty, ReadPart, Finish, Reply
  <1>9. CASE DeleteSubscription \/ UNCHANGED vars
    BY <1>0, <1>9 DEF DeleteSubscription, vars
  <1> QED
    BY <1>1, <1>2, <1>3, <1>4, <1>5, <1>6, <1>7, <1>8, <1>9
    DEF Next, HandlerStep, ServeStatic

-----------------------------------------------------------------------------

\* The part of SeenInv about a handler.
HandlerSeen(h) ==
  /\ pc[h] \notin {"idle", "done"} => object \in seen[h]
  /\ Unlocked(h) => \A w \in Assigning : Assigned(w) \in seen[h]
  /\ \A s \in seen[h] : s.status = "ready" => s.cred # 0

\* Steps of a handler leave the writers and the object alone.
LEMMA WritersSame ==
  ASSUME TypeOK, LockInv, NEW g \in Handlers,
         HandlerStep(g) \/ \E k \in Kinds : Request(g, k)
  PROVE  /\ object' = object /\ write' = write /\ Assigning' = Assigning
         /\ \A w \in Writers : Assigned(w)' = Assigned(w)
         /\ \A h \in Handlers \ {g} :
              /\ pc'[h] = pc[h] /\ seen'[h] = seen[h] /\ kind'[h] = kind[h]
              /\ answer'[h] = answer[h]
         /\ subscribed' = subscribed
  <1>1. \A w \in Writers : w # g
    BY ConstantsAssumption
  <1>2. /\ object' = object /\ write' = write /\ subscribed' = subscribed
        /\ \A w \in Writers : pc'[w] = pc[w]
        /\ \A h \in Handlers \ {g} :
             /\ pc'[h] = pc[h] /\ seen'[h] = seen[h] /\ kind'[h] = kind[h]
             /\ answer'[h] = answer[h]
    BY <1>1 DEF HandlerStep, Request, FindSubscription, Relock, Render,
       ReadStatus, CheckEmpty, ReadPart, Finish, Reply, Goto, TypeOK, data
  <1> QED
    BY <1>2 DEF Assigning, Assigned

\* Every step keeps what handlers have seen.
LEMMA NextSeen ==
  ASSUME TypeOK, LockInv, SeenInv, [Next]_vars
  PROVE  SeenInv'
  <1> USE DEF TypeOK, Goto, data, mutex
  <1>0. /\ \A h \in Handlers : HandlerSeen(h) /\ h \notin Writers
        /\ \A w \in Writers : write[w].status = "ready" => write[w].cred # 0
    BY ConstantsAssumption DEF SeenInv, HandlerSeen
  <1> SUFFICES /\ \A h \in Handlers : HandlerSeen(h)'
               /\ \A w \in Writers : write'[w].status = "ready" =>
                                       write'[w].cred # 0
    BY DEF SeenInv, HandlerSeen
  <1> USE DEF HandlerSeen
  <1>1. ASSUME NEW w \in Writers, StartWrite(w)
        PROVE  /\ \A h \in Handlers : HandlerSeen(h)'
               /\ \A v \in Writers : write'[v].status = "ready" =>
                                       write'[v].cred # 0
    <2>1. /\ Assigning' = Assigning /\ w \notin Assigning
          /\ \A v \in Writers \ {w} : write'[v] = write[v]
          /\ object' = object /\ seen' = seen
          /\ \A h \in Handlers : pc'[h] = pc[h]
      BY <1>0, <1>1 DEF StartWrite, Assigning
    <2>2. \A v \in Assigning : Assigned(v)' = Assigned(v)
      BY <2>1 DEF Assigned, Assigning
    <2>3. \A h \in Handlers : HandlerSeen(h)'
      BY <1>0, <2>1, <2>2 DEF Unlocked
    <2>4. write'[w].status = "ready" => write'[w].cred # 0
      BY <1>1, ConstantsAssumption DEF StartWrite, State
    <2> QED
      BY <1>0, <2>1, <2>3, <2>4
  <1>2. ASSUME NEW w \in Writers, Announce(w)
        PROVE  (\A h \in Handlers : HandlerSeen(h)') /\ write' = write
    BY <1>0, <1>2 DEF Announce, Assigning, Assigned, Unlocked
  <1>3. ASSUME NEW w \in Writers, EnterWrite(w)
        PROVE  (\A h \in Handlers : HandlerSeen(h)') /\ write' = write
    <2>1. /\ Assigning' = Assigning \cup {w}
          /\ object' = object /\ write' = write
          /\ \A h \in Handlers : pc'[h] = pc[h]
      BY <1>0, <1>3 DEF EnterWrite, Assigning
    <2>2. \A v \in Writers : Assigned(v)' = Assigned(v)
      BY <2>1 DEF Assigned
    <2>3. \A h \in Handlers :
            seen'[h] = IF pc[h] \in {"idle", "done"} THEN seen[h]
                       ELSE seen[h] \cup {Assigned(w)}
      BY <1>3 DEF EnterWrite, Shows
    <2>4. Assigned(w).status = "ready" => Assigned(w).cred # 0
      BY AssignedState
    <2>5. ASSUME NEW h \in Handlers PROVE HandlerSeen(h)'
      <3>1. \A s \in seen'[h] : s.status = "ready" => s.cred # 0
        BY <1>0, <2>3, <2>4, ZenonT(60)
      <3>2. /\ seen[h] \subseteq seen'[h]
            /\ pc[h] \notin {"idle", "done"} => Assigned(w) \in seen'[h]
        BY <2>3
      <3> QED
        BY <1>0, <2>1, <2>2, <3>1, <3>2 DEF Unlocked, Assigning
    <2> QED
      BY <2>1, <2>5
  <1>4. ASSUME NEW w \in Writers, LeaveWrite(w)
        PROVE  /\ \A h \in Handlers : HandlerSeen(h)'
               /\ \A v \in Writers : write'[v].status = "ready" =>
                                       write'[v].cred # 0
    <2>1. Assigning' = {}
      BY <1>4 DEF LeaveWrite, LockInv, Assigning
    <2>2. /\ \A h \in Handlers : pc'[h] = pc[h]
          /\ write' = [write EXCEPT ![w] = State("pending", 0)]
      BY <1>0, <1>4 DEF LeaveWrite
    <2>3. \A h \in Handlers :
            seen'[h] = IF pc[h] \in {"idle", "done"} THEN seen[h]
                       ELSE seen[h] \cup {object'}
      BY <1>4 DEF LeaveWrite, Shows
    <2>4. object'.status = "ready" => object'.cred # 0
      BY <1>4, AssignedState DEF LeaveWrite
    <2>5. ASSUME NEW h \in Handlers PROVE HandlerSeen(h)'
      <3>1. \A s \in seen'[h] : s.status = "ready" => s.cred # 0
        BY <1>0, <2>3, <2>4, ZenonT(60)
      <3>2. pc[h] \notin {"idle", "done"} => object' \in seen'[h]
        BY <2>3
      <3> QED
        BY <2>1, <2>2, <3>1, <3>2
    <2> QED
      BY <1>0, <2>2, <2>5 DEF State
  <1>5. CASE DeleteSubscription \/ UNCHANGED vars
    <2>1. /\ Assigning' = Assigning /\ UNCHANGED <<object, write, seen, pc>>
      BY <1>5 DEF DeleteSubscription, vars, Assigning
    <2> QED
      BY <1>0, <2>1 DEF Assigned, Unlocked
  <1>6. ASSUME NEW g \in Handlers,
               HandlerStep(g) \/ \E k \in Kinds : Request(g, k)
        PROVE  (\A h \in Handlers : HandlerSeen(h)') /\ write' = write
    <2>1. \A h \in Handlers \ {g} : HandlerSeen(h)'
      BY <1>0, <1>6, WritersSame DEF Unlocked, Assigning
    <2>2. ASSUME NEW k \in Kinds, Request(g, k) PROVE HandlerSeen(g)'
      BY <1>0, <1>6, <2>2, WritersSame DEF Request, Unlocked
    <2>3. ASSUME FindSubscription(g) PROVE HandlerSeen(g)'
      <3>1. Assigning' = {}
        BY <1>6, <2>3, WritersSame, LockedRead DEF FindSubscription
      <3> QED
        BY <1>0, <2>3, <3>1 DEF FindSubscription, Reply
    <2>4. ASSUME Relock(g) \/ Render(g) PROVE HandlerSeen(g)'
      BY <1>0, <2>4 DEF Relock, Render, Reply, Unlocked
    <2>5. ASSUME ReadStatus(g) \/ CheckEmpty(g) \/ ReadPart(g)
          PROVE  HandlerSeen(g)'
      <3>1. /\ pc[g] \notin {"idle", "done"} /\ Unlocked(g) /\ seen' = seen
        BY <2>5 DEF ReadStatus, CheckEmpty, ReadPart, Unlocked
      <3> QED
        BY <1>0, <1>6, <3>1, WritersSame DEF Assigning
    <2>6. ASSUME Finish(g) PROVE HandlerSeen(g)'
      BY <2>6 DEF Finish, Unlocked
    <2> QED
      BY <1>6, <2>1, <2>2, <2>3, <2>4, <2>5, <2>6, WritersSame DEF HandlerStep
  <1> QED
    BY <1>0, <1>1, <1>2, <1>3, <1>4, <1>5, <1>6 DEF Next, ServeStatic

-----------------------------------------------------------------------------

\* Steps that are not a handler's leave the answers given alone, and what was
\* seen up to them.
LEMMA AnswersSame ==
  ASSUME TypeOK, LockInv, NEW h \in Handlers, pc'[h] = "done",
         \/ \E w \in Writers :
              StartWrite(w) \/ Announce(w) \/ EnterWrite(w) \/ LeaveWrite(w)
         \/ DeleteSubscription
         \/ UNCHANGED vars
  PROVE  /\ pc[h] = "done" /\ answer'[h] = answer[h] /\ kind'[h] = kind[h]
         /\ seen'[h] = seen[h]
         /\ subscribed' => subscribed
  <1>1. \A w \in Writers : w # h
    BY ConstantsAssumption
  <1>2. CASE \E w \in Writers : StartWrite(w) \/ Announce(w)
    BY <1>1, <1>2 DEF StartWrite, Announce, Goto, TypeOK, data
  <1>3. CASE \E w \in Writers : EnterWrite(w) \/ LeaveWrite(w)
    <2>1. pc[h] = "done" /\ answer' = answer /\ kind' = kind
      BY <1>1, <1>3 DEF EnterWrite, LeaveWrite, Goto, TypeOK
    <2>2. subscribed' = subscribed
      BY <1>3 DEF EnterWrite, LeaveWrite, data
    <2>3. seen'[h] = seen[h]
      BY <1>3, <2>1 DEF EnterWrite, LeaveWrite, Shows
    <2> QED
      BY <2>1, <2>2, <2>3
  <1>4. CASE DeleteSubscription \/ UNCHANGED vars
    BY <1>4 DEF DeleteSubscription, vars, data
  <1> QED
    BY <1>2, <1>3, <1>4

\* An entry is rendered under the lock, so it is the object.
LEMMA RenderedObject ==
  ASSUME TypeOK, LockInv, SeenInv, NEW h \in Handlers, Render(h)
  PROVE  answer'[h] # None => answer'[h] \in seen'[h]
  <1>1. pc[h] = "render" /\ Holds(h) /\ seen' = seen
    BY DEF Render
  <1>2. StatusSeen = {object.status} /\ CredSeen = {object.cred}
    BY <1>1, LockedRead
  <1>3. State(object.status, object.cred) = object
    BY DEF State, TypeOK, States
  <1>4. answer'[h] = None \/ answer'[h] = object
    BY <1>2, <1>3 DEF Render, Reply, TypeOK
  <1>5. object \in seen[h]
    BY <1>1 DEF SeenInv
  <1> QED
    BY <1>1, <1>4, <1>5

\* Every step keeps the entries snapshots.
LEMMA NextSnapshot ==
  ASSUME TypeOK, LockInv, SeenInv, EntryIsSnapshot, [Next]_vars
  PROVE  EntryIsSnapshot'
  <1> SUFFICES ASSUME NEW h \in Handlers, pc'[h] = "done", answer'[h] # None,
                      kind'[h] \notin Parts
               PROVE  answer'[h] \in seen'[h]
    BY DEF EntryIsSnapshot, Answered
  <1>1. CASE \/ \E w \in Writers : \/ StartWrite(w) \/ Announce(w)
                                   \/ EnterWrite(w) \/ LeaveWrite(w)
             \/ DeleteSubscription
             \/ UNCHANGED vars
    BY <1>1, AnswersSame DEF EntryIsSnapshot, Answered
  <1>2. ASSUME NEW g \in Handlers \ {h},
               HandlerStep(g) \/ \E k \in Kinds : Request(g, k)
        PROVE  answer'[h] \in seen'[h]
    <2>1. /\ pc'[h] = pc[h] /\ seen'[h] = seen[h] /\ kind'[h] = kind[h]
          /\ answer'[h] = answer[h]
      BY <1>2, WritersSame
    <2> QED
      BY <2>1 DEF EntryIsSnapshot, Answered
  <1>3. CASE Render(h)
    BY <1>3, RenderedObject
  <1>4. CASE ReadPart(h)
    BY <1>4 DEF ReadPart, LockInv, Unlocked
  <1>5. CASE FindSubscription(h) \/ ReadStatus(h) \/ CheckEmpty(h)
    BY <1>5 DEF FindSubscription, ReadStatus, CheckEmpty, Reply, Goto, TypeOK
  <1>6. CASE Relock(h) \/ Finish(h) \/ \E k \in Kinds : Request(h, k)
    BY <1>6 DEF Relock, Finish, Request, Goto, TypeOK
  <1> QED
    BY <1>1, <1>2, <1>3, <1>4, <1>5, <1>6 DEF Next, HandlerStep, ServeStatic

-----------------------------------------------------------------------------

\* What an unlocked read returns of a subscription that has been ready since
\* the request.
LEMMA ReadyReads ==
  ASSUME TypeOK, LockInv, SeenInv, NEW h \in Handlers, Unlocked(h),
         \A s \in seen[h] : s.status = "ready"
  PROVE  /\ StatusSeen = {"ready"}
         /\ 0 \notin CredSeen
  <1>1. object \in seen[h] /\ \A w \in Assigning : Assigned(w) \in seen[h]
    BY DEF SeenInv, Unlocked
  <1>2. /\ object.status = "ready" /\ object.cred # 0
        /\ \A w \in Assigning : /\ Assigned(w).status = "ready"
                                /\ Assigned(w).cred # 0
    BY <1>1 DEF SeenInv
  <1>3. Torn # 0
    BY ConstantsAssumption DEF Torn
  <1> QED
    BY <1>2, <1>3 DEF StatusSeen, CredSeen

\* Every step keeps ready subscriptions found.
LEMMA NextFound ==
  ASSUME TypeOK, LockInv, SeenInv, ReadyIsFound, [Next]_vars
  PROVE  ReadyIsFound'
  <1> SUFFICES ASSUME NEW h \in Handlers, pc'[h] = "done",
                      kind'[h] = "token", subscribed',
                      \A s \in seen'[h] : s.status = "ready"
               PROVE  answer'[h] # None
    BY DEF ReadyIsFound
  <1>1. CASE \/ \E w \in Writers : \/ StartWrite(w) \/ Announce(w)
                                   \/ EnterWrite(w) \/ LeaveWrite(w)
             \/ DeleteSubscription
             \/ UNCHANGED vars
    BY <1>1, AnswersSame DEF ReadyIsFound
  <1>2. ASSUME NEW g \in Handlers \ {h},
               HandlerStep(g) \/ \E k \in Kinds : Request(g, k)
        PROVE  answer'[h] # None
    <2>1. /\ pc'[h] = pc[h] /\ seen'[h] = seen[h] /\ kind'[h] = kind[h]
          /\ answer'[h] = answer[h] /\ subscribed' = subscribed
      BY <1>2, WritersSame
    <2> QED
      BY <2>1 DEF ReadyIsFound
  <1>3. CASE FindSubscription(h)
    BY <1>3 DEF FindSubscription, Goto, TypeOK, data
  <1>4. CASE Render(h)
    BY <1>4 DEF Render, LockInv, Parts
  <1>5. CASE ReadStatus(h) \/ CheckEmpty(h)
    <2>1. /\ Unlocked(h) /\ kind[h] = "token"
          /\ \A s \in seen[h] : s.status = "ready"
      BY <1>5 DEF ReadStatus, CheckEmpty, Unlocked
    <2>2. StatusSeen = {"ready"} /\ 0 \notin CredSeen
      BY <2>1, ReadyReads
    <2> QED
      BY <1>5, <2>1, <2>2 DEF ReadStatus, CheckEmpty, Goto, TypeOK
  <1>6. CASE ReadPart(h)
    <2>1. Unlocked(h) /\ \A s \in seen[h] : s.status = "ready"
      BY <1>6 DEF ReadPart, Unlocked
    <2>2. \A c \in CredSeen : c # 0 /\ c \in Nat
      BY <2>1, ReadyReads, SeenTypes, ConstantsAssumption DEF Torn
    <2>3. \E c \in CredSeen : answer'[h] = State("ready", c)
      BY <1>6, <2>2 DEF ReadPart, Reply, TypeOK
    <2>4. \A c \in Nat : State("ready", c) # None
      BY ConstantsAssumption DEF State
    <2> QED
      BY <2>2, <2>3, <2>4
  <1>7. CASE Relock(h) \/ Finish(h) \/ \E k \in Kinds : Request(h, k)
    BY <1>7 DEF Relock, Finish, Request, Goto, TypeOK
  <1> QED
    BY <1>1, <1>2, <1>3, <1>4, <1>5, <1>6, <1>7 DEF Next, HandlerStep,
       ServeStatic

-----------------------------------------------------------------------------

\* The new subscription satisfies the invariant.
LEMMA InitInv == Init => ReadInv
  <1> SUFFICES ASSUME Init PROVE ReadInv
    OBVIOUS
  <1>1. TypeOK
    <2>1. State("pending", 0) \in States /\ State("pending", 0).status # "ready"
      BY ConstantsAssumption DEF State, States
    <2> QED
      BY <2>1, ConstantsAssumption DEF Init, TypeOK, Kinds
  <1>2. LockInv
    BY DEF Init, LockInv, Locking, Unlocked
  <1>3. SeenInv
    BY DEF Init, SeenInv, Unlocked, State
  <1>4. EntryIsSnapshot /\ ReadyIsFound
    BY DEF Init, EntryIsSnapshot, ReadyIsFound, Answered
  <1> QED
    BY <1>1, <1>2, <1>3, <1>4 DEF ReadInv

\* Handlers and writers use the lock as sync.RWMutex demands, whatever their
\* number, and a handler has seen what it may read without it.
THEOREM ReadInvariance == Spec => []ReadInv
  <1>1. Init => ReadInv
    BY InitInv
  <1>2. ReadInv /\ [Next]_vars => ReadInv'
    BY NextTypes, NextLocks, NextSeen, NextSnapshot, NextFound DEF ReadInv
  <1> QED
    BY <1>1, <1>2, PTL DEF Spec

\* Every variable keeps its type for any number of handlers and writers; a
\* ready subscription has a credential, and handlers wait only for a writer.
THEOREM TypeCorrect == Spec => []TypeOK
  <1>1. ReadInv => TypeOK
    BY DEF ReadInv
  <1> QED
    BY <1>1, ReadInvariance, PTL

\* The status and expiry of an entry of GET /manifest.json, GET /subscriptions
\* and GET /subscriptions/{id} were those of the subscription at one moment,
\* although the last of these looks it up under one lock and renders it under
\* another.
THEOREM EntriesAreSnapshots == Spec => []EntryIsSnapshot
  <1>1. ReadInv => EntryIsSnapshot
    BY DEF ReadInv
  <1> QED
    BY <1>1, ReadInvariance, PTL

\* The token of a subscription that stays ready is always found, although its
\* handler reads status and token without the lock.
THEOREM ReadyAlwaysFound == Spec => []ReadyIsFound
  <1>1. ReadInv => ReadyIsFound
    BY DEF ReadInv
  <1> QED
    BY <1>1, ReadInvariance, PTL

=============================================================================
