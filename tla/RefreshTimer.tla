---------------------------- MODULE RefreshTimer ----------------------------
(***************************************************************************)
(* When the loop of Run wakes: the expiry of each credential,              *)
(* timeUntilRefresh, and the refreshes that POST /subscriptions starts     *)
(* while the loop sleeps.                                                  *)
(*                                                                         *)
(* Time passes in Tick.  A credential is the time it has left, so the      *)
(* state is finite however long the daemon runs.  What Daemon tells apart  *)
(* and time does not (keys, scopes, objects) is left out: a refresh's work *)
(* for a subscription that was deleted is never served, so DELETE drops it.*)
(***************************************************************************)
EXTENDS Integers

CONSTANTS
  Billets,      \* those exchanged automatically; {} if auto_per_billet: false
  SubIds,       \* subscription ids
  Loop,         \* the goroutine in Run
  Workers,      \* goroutines of triggerRefresh; bounds those alive at once
  Lifetimes,    \* the expires_in that Quartermaster answers with
  Margin,       \* refresh.margin
  Floor,        \* the least wait, 30 s
  Default,      \* the wait without credentials, 1 min
  MaxDuration,  \* how long a refresh takes at most
  MaxFaults,    \* bounds the calls that fail and the billets that are revoked
  None          \* no credential

Procs == {Loop} \cup Workers
Names == Billets \cup SubIds
Left == Nat \cup {None}

ASSUME ConstantsAssumption ==
  /\ Billets \cap SubIds = {}
  /\ Loop \notin Workers
  /\ Lifetimes \subseteq Nat
  /\ Margin \in Nat
  /\ Floor \in Nat
  /\ Default \in Nat
  /\ Floor <= Default
  /\ MaxDuration \in Nat
  /\ MaxFaults \in Nat
  /\ None \notin Nat

VARIABLES
  phase,        \* starting, failing (an exchange of the first refresh has
                \* failed), running or exited
  faults,       \* how often the environment has interfered
  credentials,  \* what each billet's credential has left
  status,       \* each subscription: absent, pending or ready
  subLeft,      \* what its credential has left
  sleep,        \* what is left of the loop's wait
  pc,           \* where each refresh is
  todo,         \* what the running for loop has not visited
  updated,      \* the credentials a refresh has received and not stored
  spent         \* how long it has been running

subs == <<status, subLeft>>
local == <<todo, updated, spent>>
vars == <<phase, faults, credentials, subs, sleep, pc, local>>

NoCredentials == [n \in Names |-> None]

TypeOK ==
  /\ phase \in {"starting", "failing", "running", "exited"}
  /\ faults \in 0..MaxFaults
  /\ credentials \in [Billets -> Left]
  /\ status \in [SubIds -> {"absent", "pending", "ready"}]
  /\ subLeft \in [SubIds -> Left]
  /\ sleep \in Nat
  /\ pc \in [Procs -> {"idle", "discover", "billets", "snapshot", "subs"}]
  /\ todo \in [Procs -> SUBSET Names]
  /\ updated \in [Procs -> [Names -> Left]]
  /\ spent \in [Procs -> 0..MaxDuration]

Init ==
  /\ phase = "starting"
  /\ faults = 0
  /\ credentials = [b \in Billets |-> None]
  /\ status = [id \in SubIds |-> "absent"]
  /\ subLeft = [id \in SubIds |-> None]
  /\ sleep = 0
  /\ pc = [p \in Procs |-> IF p = Loop THEN "discover" ELSE "idle"]
  /\ todo = [p \in Procs |-> {}]
  /\ updated = [p \in Procs |-> NoCredentials]
  /\ spent = [p \in Procs |-> 0]

-----------------------------------------------------------------------------

Up == phase # "exited"
Asleep == pc[Loop] = "idle"

Fault == faults < MaxFaults /\ faults' = faults + 1

Goto(p, step) == pc' = [pc EXCEPT ![p] = step]

\* The credentials timeUntilRefresh looks at; they are also what GET serves.
Ready(id) == status[id] = "ready"
Lefts == ({credentials[b] : b \in Billets}
          \cup {subLeft[id] : id \in {i \in SubIds : Ready(i)}}) \ {None}

IsEarliest(e, S) == e \in S /\ \A f \in S : e <= f
Earliest(S) == CHOOSE e \in S : IsEarliest(e, S)
AtLeast(least, n) == IF n < least THEN least ELSE n

\* Mutant: only the billets are looked at.
TimeUntilRefresh_BilletsOnly ==
  LET S == {credentials[b] : b \in Billets} \ {None}
  IN  IF S = {} THEN Default ELSE AtLeast(Floor, Earliest(S) - Margin)

\* Mutant: no least wait.
TimeUntilRefresh_NoFloor ==
  IF Lefts = {} THEN Default ELSE Earliest(Lefts) - Margin

TimeUntilRefresh ==
  IF Lefts = {} THEN Default ELSE AtLeast(Floor, Earliest(Lefts) - Margin)

-----------------------------------------------------------------------------
(* A refresh.                                                              *)

Start(p) ==
  /\ pc[p] = "idle"
  /\ Goto(p, "discover")

\* time.After(wait) fires.
WakeLoop ==
  /\ phase = "running"
  /\ sleep = 0
  /\ Start(Loop)
  /\ UNCHANGED <<phase, faults, credentials, subs, sleep, local>>

\* Run sees ctx.Done while it waits.
StopLoop ==
  /\ phase = "running"
  /\ Asleep
  /\ phase' = "exited"
  /\ UNCHANGED <<faults, credentials, subs, sleep, pc, local>>

\* The refresh is over.  The loop goes on to timeUntilRefresh, unless it was
\* the first refresh and it failed.
Return(p, failed) ==
  /\ Goto(p, "idle")
  /\ todo' = [todo EXCEPT ![p] = {}]
  /\ updated' = [updated EXCEPT ![p] = NoCredentials]
  /\ spent' = [spent EXCEPT ![p] = 0]
  /\ IF p = Loop
     THEN /\ phase' = IF failed THEN "exited" ELSE "running"
          /\ sleep' = TimeUntilRefresh
     ELSE UNCHANGED <<phase, sleep>>

\* Discovery finds every billet unless something was revoked; an empty answer
\* skips refreshAutoBillets.
Discover(p) ==
  /\ Up
  /\ pc[p] = "discover"
  /\ \E found \in SUBSET Billets :
       /\ IF found = Billets THEN UNCHANGED faults ELSE Fault
       /\ todo' = [todo EXCEPT ![p] = found]
       /\ Goto(p, IF found = {} THEN "snapshot" ELSE "billets")
  /\ UNCHANGED <<phase, credentials, subs, sleep, updated, spent>>

DiscoverFails(p) ==
  /\ Up
  /\ pc[p] = "discover"
  /\ Fault
  /\ Return(p, phase = "starting")
  /\ UNCHANGED <<credentials, subs>>

ExchangeBillet(p) ==
  /\ Up
  /\ pc[p] = "billets"
  /\ \E b \in todo[p], life \in Lifetimes :
       /\ updated' = [updated EXCEPT ![p][b] = life]
       /\ todo' = [todo EXCEPT ![p] = @ \ {b}]
  /\ UNCHANGED <<phase, faults, credentials, subs, sleep, pc, spent>>

\* An error joins refreshErr and the loop goes on with its next entry.
ExchangeFails(p) ==
  /\ Up
  /\ Fault
  /\ \E n \in todo[p] :
       /\ updated[p][n] = None
       /\ todo' = [todo EXCEPT ![p] = @ \ {n}]
  /\ phase' = IF p = Loop /\ phase = "starting" THEN "failing" ELSE phase
  /\ UNCHANGED <<credentials, subs, sleep, pc, updated, spent>>

\* A billet whose exchange failed loses the credential it had.
CommitBillets(p) ==
  /\ Up
  /\ pc[p] = "billets"
  /\ todo[p] = {}
  /\ credentials' = [b \in Billets |-> updated[p][b]]
  /\ updated' = [updated EXCEPT ![p] = NoCredentials]
  /\ Goto(p, "snapshot")
  /\ UNCHANGED <<phase, faults, subs, sleep, todo, spent>>

\* Mutant: only the subscriptions that are pending are exchanged.
Snapshot_PendingOnly(p) ==
  /\ Up
  /\ pc[p] = "snapshot"
  /\ todo' = [todo EXCEPT ![p] = {id \in SubIds : status[id] = "pending"}]
  /\ Goto(p, "subs")
  /\ UNCHANGED <<phase, faults, credentials, subs, sleep, updated, spent>>

Snapshot(p) ==
  /\ Up
  /\ pc[p] = "snapshot"
  /\ todo' = [todo EXCEPT ![p] = {id \in SubIds : status[id] # "absent"}]
  /\ Goto(p, "subs")
  /\ UNCHANGED <<phase, faults, credentials, subs, sleep, updated, spent>>

\* A billet of the subscription was not discovered.
MarkPending(p) ==
  /\ Up
  /\ pc[p] = "subs"
  /\ \E id \in todo[p] :
       /\ updated[p][id] = None
       /\ status' = [status EXCEPT ![id] = "pending"]
       /\ todo' = [todo EXCEPT ![p] = @ \ {id}]
  /\ UNCHANGED <<phase, faults, credentials, subLeft, sleep, pc, updated,
                 spent>>

ExchangeSubscription(p) ==
  /\ Up
  /\ pc[p] = "subs"
  /\ \A id \in SubIds : updated[p][id] = None
  /\ \E id \in todo[p], life \in Lifetimes :
       updated' = [updated EXCEPT ![p][id] = life]
  /\ UNCHANGED <<phase, faults, credentials, subs, sleep, pc, todo, spent>>

InstallSubscription(p) ==
  /\ Up
  /\ pc[p] = "subs"
  /\ \E id \in todo[p] :
       /\ updated[p][id] # None
       /\ status' = [status EXCEPT ![id] = "ready"]
       /\ subLeft' = [subLeft EXCEPT ![id] = updated[p][id]]
       /\ updated' = [updated EXCEPT ![p][id] = None]
       /\ todo' = [todo EXCEPT ![p] = @ \ {id}]
  /\ UNCHANGED <<phase, faults, credentials, sleep, pc, spent>>

FinishRefresh(p) ==
  /\ Up
  /\ pc[p] = "subs"
  /\ todo[p] = {}
  /\ Return(p, phase = "failing")
  /\ UNCHANGED <<faults, credentials, subs>>

-----------------------------------------------------------------------------
(* The handlers that write, and time.                                      *)

CreateSubscription(id, w) ==
  /\ Up
  /\ Start(w)
  /\ status' = IF status[id] = "absent" THEN [status EXCEPT ![id] = "pending"]
                                        ELSE status
  /\ UNCHANGED <<phase, faults, credentials, subLeft, sleep, local>>

\* A refresh that still has the subscription to visit visits an object nobody
\* will read.
DeleteSubscription(id) ==
  /\ Up
  /\ status[id] # "absent"
  /\ status' = [status EXCEPT ![id] = "absent"]
  /\ subLeft' = [subLeft EXCEPT ![id] = None]
  /\ todo' = [p \in Procs |-> todo[p] \ {id}]
  /\ updated' = [p \in Procs |-> [updated[p] EXCEPT ![id] = None]]
  /\ UNCHANGED <<phase, faults, credentials, sleep, pc, spent>>

Less(left) == IF left \in {0, None} THEN left ELSE left - 1

\* One unit of time.  Assumed are that no refresh outlasts MaxDuration, which is
\* a timeout in the code for all calls but the loop's of its identity source,
\* and that the loop does not oversleep.
Tick ==
  /\ Up
  /\ \A p \in Procs : pc[p] # "idle" => spent[p] < MaxDuration
  /\ Asleep => sleep > 0
  /\ credentials' = [b \in Billets |-> Less(credentials[b])]
  /\ subLeft' = [id \in SubIds |-> Less(subLeft[id])]
  /\ updated' = [p \in Procs |-> [n \in Names |-> Less(updated[p][n])]]
  /\ spent' = [p \in Procs |-> IF pc[p] = "idle" THEN 0 ELSE spent[p] + 1]
  /\ sleep' = IF Asleep THEN sleep - 1 ELSE sleep
  /\ UNCHANGED <<phase, faults, status, pc, todo>>

-----------------------------------------------------------------------------

RefreshStep(p) ==
  \/ Discover(p) \/ DiscoverFails(p)
  \/ ExchangeBillet(p) \/ ExchangeFails(p) \/ CommitBillets(p)
  \/ Snapshot(p) \/ MarkPending(p)
  \/ ExchangeSubscription(p) \/ InstallSubscription(p)
  \/ FinishRefresh(p)

Exited == ~ Up /\ UNCHANGED vars

Next ==
  \/ WakeLoop
  \/ StopLoop
  \/ \E p \in Procs : RefreshStep(p)
  \/ \E id \in SubIds, w \in Workers : CreateSubscription(id, w)
  \/ \E id \in SubIds : DeleteSubscription(id)
  \/ Tick
  \/ Exited

Spec == Init /\ [][Next]_vars

-----------------------------------------------------------------------------


\* "Re-exchange this long before the earliest billet token expires": no token
\* that GET serves has expired, unless something has failed.  It holds under
\* MarginCovers and is violated when the lifetimes of tokens differ by more
\* than the margin.
RenewedBeforeExpiry == Up /\ faults = 0 => 0 \notin Lefts

\* The margin covers the time of two refreshes (one that stores late what it
\* received, one that replaces it in time) and, because a refresh that POST
\* started can store a shorter token after the wait was computed, the
\* difference between any two lifetimes.
MarginCovers ==
  /\ \A l \in Lifetimes : 3 * MaxDuration + Default < l
  /\ \A l, m \in Lifetimes : 2 * MaxDuration + (m - l) < Margin

\* However often exchanges fail, a credential that is due (less than the margin
\* away from its expiry) is tried again within the default wait, but for what a
\* refresh takes and lifetimes differ.
DueIsTriedAgain ==
  Up /\ Asleep =>
    \A left \in Lefts : \E l, m \in Lifetimes :
      sleep <= AtLeast(Default, left - Margin + MaxDuration + (l - m))

-----------------------------------------------------------------------------
(* The inductive invariants behind RenewedBeforeExpiry and DueIsTriedAgain. *)

\* What a refresh has received ages no faster than the refresh.
InHandInv ==
  \A p \in Procs :
    /\ pc[p] = "idle" => spent[p] = 0 /\ updated[p] = NoCredentials
    /\ \A n \in Names : updated[p][n] # None =>
         \E l \in Lifetimes : l - spent[p] <= updated[p][n] /\ updated[p][n] <= l

\* No credential outlives its token.
StoredInv == \A c \in Lefts : \E l \in Lifetimes : c <= l

\* While the loop sleeps, what is served outlives the sleep and the refresh
\* that follows; no sleep is longer than some token allows.
AsleepInv ==
  Asleep =>
    /\ sleep <= Default \/ \E l \in Lifetimes : sleep <= l - Margin
    /\ \A c \in Lefts : MaxDuration < c - sleep

\* While it refreshes, what is served outlives the refresh.
AwakeInv == ~ Asleep => \A c \in Lefts : MaxDuration < c + spent[Loop]

\* What the loop's refresh has dealt with is new, but for what another refresh
\* received up to MaxDuration earlier.
Renewed(c) == \E l \in Lifetimes : l <= c + MaxDuration + spent[Loop]

RenewedInv ==
  /\ pc[Loop] \in {"snapshot", "subs"} =>
       \A b \in Billets : credentials[b] # None => Renewed(credentials[b])
  /\ pc[Loop] = "subs" =>
       \A id \in SubIds \ todo[Loop] :
         Ready(id) /\ subLeft[id] # None => Renewed(subLeft[id])

QuietInv == /\ TypeOK
            /\ InHandInv
            /\ StoredInv
            /\ AsleepInv
            /\ AwakeInv
            /\ RenewedInv

TimerInv == faults = 0 => QuietInv

\* Whatever fails, no sleep is longer than some token allows, nor longer than
\* the tokens served allow, which may be another refresh's: received up to
\* MaxDuration ago, and with another lifetime.
DueInv ==
  /\ InHandInv
  /\ StoredInv
  /\ Asleep =>
       /\ sleep <= Default \/ \E l \in Lifetimes : sleep <= l - Margin
       /\ \A c \in Lefts :
            \/ sleep <= Default
            \/ \E l, m \in Lifetimes : sleep <= c - Margin + MaxDuration + (l - m)

=============================================================================
