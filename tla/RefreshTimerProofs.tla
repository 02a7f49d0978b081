------------------------- MODULE RefreshTimerProofs -------------------------
(***************************************************************************)
(* Proofs that no token is served after its expiry if the margin covers    *)
(* what MarginCovers says and until something fails, and that a credential *)
(* that is due is tried again whatever fails; for any number of billets,   *)
(* subscriptions and overlapping refreshes.                                *)
(***************************************************************************)
EXTENDS RefreshTimer, WellFoundedInduction, TLAPS

-----------------------------------------------------------------------------
(* Facts about the operators.                                              *)

\* A set of natural numbers has an earliest one.
LEMMA EarliestIsLeast ==
  ASSUME NEW S, S \subseteq Nat, S # {}
  PROVE  Earliest(S) \in S /\ \A f \in S : Earliest(S) <= f
<1>1. PICK e \in S : \A f \in S : ~ (<<f, e>> \in OpToRel(<, Nat))
  BY NatLessThanWellFounded, WFMin, Zenon
<1>2. \A f \in S : e <= f
  <2> TAKE f \in S
  <2>1. <<f, e>> \notin OpToRel(<, Nat)
    BY <1>1
  <2>2. ~ (f < e)
    BY <2>1, Zenon DEF OpToRel
  <2> QED BY <2>2
<1> QED BY <1>2, Zenon DEF Earliest, IsEarliest

\* The credentials that are served are numbers.
LEMMA LeftsAreNumbers ==
  ASSUME TypeOK
  PROVE  Lefts \subseteq Nat
BY DEF TypeOK, Lefts, Left, Ready

\* How long the loop sleeps: the default without credentials; else until the
\* margin before the earliest expiry, but at least the floor.
LEMMA WaitOfTimer ==
  ASSUME TypeOK, ConstantsAssumption
  PROVE  /\ TimeUntilRefresh \in Nat
         /\ \/ Lefts = {} /\ TimeUntilRefresh = Default
            \/ TimeUntilRefresh = Floor
            \/ \E e \in Lefts : /\ TimeUntilRefresh = e - Margin
                                /\ \A c \in Lefts : e <= c
<1>1. CASE Lefts = {}
  BY <1>1 DEF TimeUntilRefresh, ConstantsAssumption
<1>2. CASE Lefts # {}
  <2> DEFINE e == Earliest(Lefts)
  <2>1. e \in Lefts /\ e \in Nat /\ \A c \in Lefts : e <= c
    BY <1>2, LeftsAreNumbers, EarliestIsLeast
  <2>2. TimeUntilRefresh = IF e - Margin < Floor THEN Floor ELSE e - Margin
    BY <1>2 DEF TimeUntilRefresh, AtLeast
  <2> HIDE DEF e
  <2> QED BY <2>1, <2>2 DEF ConstantsAssumption
<1> QED BY <1>1, <1>2

-----------------------------------------------------------------------------
(* What the refreshes have in hand, and time.                              *)

\* An action that does not touch what the invariant speaks of.
LEMMA SameServed ==
  ASSUME credentials' = credentials, subLeft' = subLeft, status' = status
  PROVE  Lefts' = Lefts
BY DEF Lefts, Ready

\* A token that has just arrived is as old as it can be.
LEMMA ReceivedInHand ==
  ASSUME TypeOK, InHandInv, ConstantsAssumption,
         NEW p \in Procs, NEW b \in Names, NEW life \in Lifetimes,
         pc[p] # "idle",
         updated' = [updated EXCEPT ![p][b] = life],
         UNCHANGED <<pc, spent>>
  PROVE  InHandInv'
<1> SUFFICES ASSUME NEW q \in Procs
             PROVE  /\ pc[q] = "idle" =>
                         spent[q] = 0 /\ updated'[q] = NoCredentials
                    /\ \A n \in Names : updated'[q][n] # None =>
                         \E l \in Lifetimes : /\ l - spent[q] <= updated'[q][n]
                                              /\ updated'[q][n] <= l
  BY DEF InHandInv
<1>1. spent[q] \in Nat /\ life \in Nat
  BY DEF TypeOK, ConstantsAssumption
<1>2. CASE q # p
  BY <1>2 DEF InHandInv, TypeOK
<1>3. CASE q = p
  <2> SUFFICES ASSUME NEW n \in Names, updated'[p][n] # None
               PROVE  \E l \in Lifetimes : /\ l - spent[p] <= updated'[p][n]
                                           /\ updated'[p][n] <= l
    BY <1>3
  <2>1. CASE n = b
    <3>1. updated'[p][n] = life
      BY <2>1 DEF TypeOK
    <3> QED BY <1>1, <1>3, <3>1
  <2>2. CASE n # b
    <3>1. updated'[p][n] = updated[p][n]
      BY <2>2 DEF TypeOK
    <3> QED BY <3>1 DEF InHandInv
  <2> QED BY <2>1, <2>2
<1> QED BY <1>2, <1>3

\* What a refresh has received is a number, and less than a lifetime by at most
\* the time the refresh has taken.
LEMMA InHand ==
  ASSUME TypeOK, InHandInv, ConstantsAssumption,
         NEW p \in Procs, NEW n \in Names, updated[p][n] # None
  PROVE  /\ updated[p][n] \in Nat
         /\ \E l \in Lifetimes : /\ l <= updated[p][n] + spent[p]
                                 /\ l <= updated[p][n] + MaxDuration
                                 /\ updated[p][n] <= l
<1>1. updated[p][n] \in Nat /\ spent[p] \in Nat /\ spent[p] <= MaxDuration
  BY DEF TypeOK, Left, ConstantsAssumption
<1>2. PICK l \in Lifetimes : l - spent[p] <= updated[p][n] /\ updated[p][n] <= l
  BY DEF InHandInv
<1>3. l \in Nat /\ MaxDuration \in Nat
  BY DEF ConstantsAssumption
<1> QED BY <1>1, <1>2, <1>3

\* A unit of time takes at most one from what is left, and no credential away.
LEMMA TimePasses ==
  ASSUME ConstantsAssumption, NEW c \in Left
  PROVE  /\ Less(c) \in Left
         /\ Less(c) = None <=> c = None
         /\ c \in Nat => Less(c) \in Nat /\ c - 1 <= Less(c) /\ Less(c) <= c
BY DEF Left, Less, ConstantsAssumption

\* What is served after a unit of time was served before.
LEMMA TickLefts ==
  ASSUME TypeOK, ConstantsAssumption, Tick
  PROVE  \A c \in Lefts' : /\ c \in Nat
                           /\ \E d \in Lefts : d \in Nat /\ d - 1 <= c /\ c <= d
<1>1. /\ credentials' = [b \in Billets |-> Less(credentials[b])]
      /\ subLeft' = [id \in SubIds |-> Less(subLeft[id])]
      /\ status' = status
  BY DEF Tick
<1>2. \A c \in Left : Less(c) = None <=> c = None
  BY TimePasses
<1>3. \A c \in Lefts' : \E d \in Lefts : c = Less(d)
  BY <1>1, <1>2 DEF Lefts, Ready, TypeOK
<1>4. Lefts \subseteq Nat
  BY LeftsAreNumbers
<1>5. \A d \in Lefts : Less(d) \in Nat /\ d - 1 <= Less(d) /\ Less(d) <= d
  BY <1>4, TimePasses DEF Left
<1> QED BY <1>3, <1>4, <1>5

\* The same for what refreshes have received, and they have taken one more.
LEMMA TickInHand ==
  ASSUME TypeOK, InHandInv, ConstantsAssumption, Tick
  PROVE  InHandInv'
<1> SUFFICES ASSUME NEW p \in Procs
             PROVE  /\ pc[p] = "idle" =>
                         spent'[p] = 0 /\ updated'[p] = NoCredentials
                    /\ \A n \in Names : updated'[p][n] # None =>
                         \E l \in Lifetimes : /\ l - spent'[p] <= updated'[p][n]
                                              /\ updated'[p][n] <= l
  BY DEF Tick, InHandInv
<1>1. Less(None) = None
  BY DEF Less
<1>2. updated'[p] = [n \in Names |-> Less(updated[p][n])]
      /\ spent'[p] = IF pc[p] = "idle" THEN 0 ELSE spent[p] + 1
  BY DEF Tick
<1>3. CASE pc[p] = "idle"
  <2>1. updated[p] = NoCredentials
    BY <1>3 DEF InHandInv
  <2>2. updated'[p] = NoCredentials
    BY <1>1, <1>2, <2>1 DEF NoCredentials
  <2> QED BY <1>2, <1>3, <2>2 DEF NoCredentials
<1>4. CASE pc[p] # "idle"
  <2> SUFFICES ASSUME NEW n \in Names, updated'[p][n] # None
               PROVE  \E l \in Lifetimes : /\ l - spent'[p] <= updated'[p][n]
                                           /\ updated'[p][n] <= l
    BY <1>4
  <2>1. updated'[p][n] = Less(updated[p][n]) /\ updated[p][n] \in Left
    BY <1>2 DEF TypeOK
  <2>2. updated[p][n] # None
    BY <2>1, TimePasses
  <2>3. updated[p][n] \in Nat /\ spent[p] \in Nat
    BY <2>1, <2>2 DEF Left, TypeOK, ConstantsAssumption
  <2>4. PICK l \in Lifetimes :
          l - spent[p] <= updated[p][n] /\ updated[p][n] <= l
    BY <2>2 DEF InHandInv
  <2>5. l \in Nat /\ spent'[p] = spent[p] + 1
    BY <1>2, <1>4 DEF ConstantsAssumption
  <2>6. /\ updated'[p][n] \in Nat
        /\ updated[p][n] - 1 <= updated'[p][n]
        /\ updated'[p][n] <= updated[p][n]
    BY <2>1, <2>3, TimePasses
  <2> QED BY <2>3, <2>4, <2>5, <2>6
<1> QED BY <1>3, <1>4

-----------------------------------------------------------------------------
(* The invariant holds at first and every action preserves it.             *)

\* What every action lemma assumes.
Preserves == QuietInv /\ faults' = 0 /\ ConstantsAssumption /\ MarginCovers

\* No credentials, and no refresh but the loop's first.
LEMMA InitInv == ASSUME Init, ConstantsAssumption PROVE QuietInv
<1>1. TypeOK
  BY DEF Init, ConstantsAssumption, TypeOK, Left, NoCredentials, Procs
<1>2. Lefts = {}
  BY DEF Init, Lefts, Ready
<1>3. InHandInv
  BY DEF Init, InHandInv, NoCredentials
<1>4. RenewedInv
  BY DEF Init, RenewedInv, Procs
<1>5. pc[Loop] = "discover"
  BY DEF Init, Procs
<1> QED
  BY <1>1, <1>2, <1>3, <1>4, <1>5
     DEF QuietInv, StoredInv, AsleepInv, AwakeInv, Asleep

\* A step after which nothing has failed is not a failure.
LEMMA NoFault == ASSUME Preserves PROVE ~ Fault
BY DEF Preserves, QuietInv, TypeOK, Fault

\* The wait is over: what is served outlives the refresh that starts.
LEMMA WakeKeeps == ASSUME Preserves, WakeLoop PROVE QuietInv'
<1> USE DEF Preserves, QuietInv
<1>0. Loop \in Procs
  BY DEF Procs
<1>1. TypeOK'
  BY <1>0 DEF TypeOK, WakeLoop, Start, Goto, subs, local
<1>2. Lefts' = Lefts
  BY SameServed DEF WakeLoop, subs
<1>3. InHandInv'
  BY <1>0 DEF InHandInv, TypeOK, WakeLoop, Start, Goto, local, NoCredentials
<1>4. StoredInv'
  BY <1>2 DEF StoredInv
<1>5. pc'[Loop] = "discover" /\ spent'[Loop] = 0 /\ sleep = 0
  BY <1>0 DEF TypeOK, WakeLoop, Start, Goto, local, InHandInv
<1>6. AsleepInv'
  BY <1>5 DEF AsleepInv, Asleep
<1>7. AwakeInv'
  <2>1. pc[Loop] = "idle"
    BY DEF WakeLoop, Start
  <2>2. \A c \in Lefts : MaxDuration < c - 0
    BY <2>1, <1>5 DEF AsleepInv, Asleep
  <2>3. Lefts \subseteq Nat /\ MaxDuration \in Nat
    BY LeftsAreNumbers DEF ConstantsAssumption
  <2>4. \A c \in Lefts : MaxDuration < c + 0
    BY <2>2, <2>3
  <2> QED BY <2>4, <1>2, <1>5 DEF AwakeInv
<1>8. RenewedInv'
  BY <1>5 DEF RenewedInv
<1> QED BY <1>1, <1>3, <1>4, <1>6, <1>7, <1>8

\* Nothing but the phase changes.
LEMMA StopKeeps == ASSUME Preserves, StopLoop PROVE QuietInv'
BY SameServed
   DEF Preserves, QuietInv, StopLoop, subs, local, TypeOK, InHandInv,
       StoredInv, AsleepInv, AwakeInv, RenewedInv, Renewed, Ready, Asleep

\* Discovery finds every billet.
LEMMA DiscoverKeeps ==
  ASSUME Preserves, NEW p \in Procs, Discover(p)
  PROVE  QuietInv'
<1> USE DEF Preserves, QuietInv
<1>1. /\ pc[p] = "discover"
      /\ todo' = [todo EXCEPT ![p] = Billets]
      /\ pc' = [pc EXCEPT ![p] = IF Billets = {} THEN "snapshot" ELSE "billets"]
  BY NoFault DEF Discover, Goto
<1>2. UNCHANGED <<phase, faults, credentials, status, subLeft, sleep, updated,
                  spent>>
  BY NoFault DEF Discover, subs
<1>3. TypeOK'
  BY <1>1, <1>2 DEF TypeOK, Names
<1>4. Lefts' = Lefts
  BY <1>2, SameServed
<1>5. InHandInv'
  BY <1>1, <1>2 DEF InHandInv, TypeOK, NoCredentials
<1>6. Asleep' <=> Asleep
  BY <1>1 DEF Asleep, TypeOK
<1>7. AsleepInv' /\ AwakeInv' /\ StoredInv'
  BY <1>2, <1>4, <1>6 DEF AsleepInv, AwakeInv, StoredInv
<1>8. RenewedInv'
  BY <1>1, <1>2 DEF RenewedInv, Renewed, Ready, TypeOK
<1> QED BY <1>3, <1>5, <1>7, <1>8

\* A billet's token arrives and is not served yet.
LEMMA ExchangeBilletKeeps ==
  ASSUME Preserves, NEW p \in Procs, ExchangeBillet(p)
  PROVE  QuietInv'
<1> USE DEF Preserves, QuietInv
<1>1. PICK b \in todo[p], life \in Lifetimes :
        updated' = [updated EXCEPT ![p][b] = life] /\
        todo' = [todo EXCEPT ![p] = @ \ {b}]
  BY DEF ExchangeBillet
<1>2. /\ UNCHANGED <<phase, faults, credentials, status, subLeft, sleep, pc,
                     spent>>
      /\ pc[p] = "billets"
  BY DEF ExchangeBillet, subs
<1>3. b \in Names /\ life \in Nat
  BY DEF TypeOK, ConstantsAssumption
<1>4. TypeOK'
  BY <1>1, <1>2, <1>3 DEF TypeOK, Left
<1>5. Lefts' = Lefts
  BY <1>2, SameServed
<1>6. InHandInv'
  BY <1>1, <1>2, <1>3, ReceivedInHand
<1>7. AsleepInv' /\ AwakeInv' /\ StoredInv'
  BY <1>2, <1>5 DEF AsleepInv, AwakeInv, StoredInv, Asleep
<1>8. RenewedInv'
  BY <1>1, <1>2 DEF RenewedInv, Renewed, Ready, TypeOK
<1> QED BY <1>4, <1>6, <1>7, <1>8

\* A credential that is at most MaxDuration older than its token outlives any
\* sleep the loop may be in and the refresh after it.
LEMMA NewOutlivesSleep ==
  ASSUME Preserves, Asleep, NEW c \in Nat,
         \E l \in Lifetimes : l <= c + MaxDuration
  PROVE  MaxDuration < c - sleep
<1> USE DEF Preserves, QuietInv
<1>1. PICK l \in Lifetimes : l <= c + MaxDuration
  OBVIOUS
<1>2. l \in Nat /\ MaxDuration \in Nat /\ Default \in Nat /\ Margin \in Nat
      /\ sleep \in Nat
  BY DEF ConstantsAssumption, TypeOK
<1>3. CASE sleep <= Default
  <2>1. 3 * MaxDuration + Default < l
    BY DEF MarginCovers
  <2> QED BY <1>1, <1>2, <1>3, <2>1
<1>4. CASE \E m \in Lifetimes : sleep <= m - Margin
  <2>1. PICK m \in Lifetimes : sleep <= m - Margin
    BY <1>4
  <2>2. m \in Nat /\ 2 * MaxDuration + (m - l) < Margin
    BY DEF MarginCovers, ConstantsAssumption
  <2> QED BY <1>1, <1>2, <2>1, <2>2
<1> QED BY <1>3, <1>4 DEF AsleepInv

\* The same for the refresh the loop is in.
LEMMA NewOutlivesRefresh ==
  ASSUME Preserves, NEW c \in Nat, \E l \in Lifetimes : l <= c + MaxDuration
  PROVE  MaxDuration < c + spent[Loop]
<1> USE DEF Preserves, QuietInv
<1>1. PICK l \in Lifetimes : l <= c + MaxDuration
  OBVIOUS
<1>2. l \in Nat /\ MaxDuration \in Nat /\ Default \in Nat
  BY DEF ConstantsAssumption
<1>3. spent[Loop] \in Nat
  BY <1>2 DEF TypeOK, Procs
<1>4. 3 * MaxDuration + Default < l
  BY DEF MarginCovers
<1> QED BY <1>1, <1>2, <1>3, <1>4

\* And it counts as renewed.
LEMMA NewIsRenewed ==
  ASSUME Preserves, NEW c \in Nat, \E l \in Lifetimes : l <= c + MaxDuration
  PROVE  Renewed(c)
<1> USE DEF Preserves, QuietInv
<1>1. PICK l \in Lifetimes : l <= c + MaxDuration
  OBVIOUS
<1>2. l \in Nat /\ MaxDuration \in Nat
  BY DEF ConstantsAssumption
<1>3. spent[Loop] \in Nat
  BY <1>2 DEF TypeOK, Procs
<1> QED BY <1>1, <1>2, <1>3 DEF Renewed

\* So a step after which everything served was served before, or is as new as
\* that, keeps what the invariant says of Lefts.
LEMMA ServedKeeps ==
  ASSUME Preserves,
         Lefts' \subseteq Nat,
         Asleep' <=> Asleep, sleep' = sleep, spent' = spent,
         \A c \in Lefts' :
           c \in Lefts \/ \E l \in Lifetimes : l <= c + MaxDuration /\ c <= l
  PROVE  StoredInv' /\ AsleepInv' /\ AwakeInv'
<1>1. StoredInv'
  BY DEF StoredInv, Preserves, QuietInv
<1>2. AsleepInv'
  <2>1. \A c \in Lefts' : Asleep => MaxDuration < c - sleep
    BY NewOutlivesSleep DEF AsleepInv, Preserves, QuietInv
  <2> QED BY <2>1 DEF AsleepInv, Preserves, QuietInv
<1>3. AwakeInv'
  <2>1. \A c \in Lefts' : ~ Asleep => MaxDuration < c + spent[Loop]
    BY NewOutlivesRefresh DEF AwakeInv, Preserves, QuietInv
  <2> QED BY <2>1 DEF AwakeInv
<1> QED BY <1>1, <1>2, <1>3

\* The tokens received replace those served: they are new enough.
LEMMA CommitKeeps ==
  ASSUME Preserves, NEW p \in Procs, CommitBillets(p)
  PROVE  QuietInv'
<1> USE DEF Preserves, QuietInv
<1>1. /\ pc[p] = "billets"
      /\ credentials' = [b \in Billets |-> updated[p][b]]
      /\ updated' = [updated EXCEPT ![p] = NoCredentials]
      /\ pc' = [pc EXCEPT ![p] = "snapshot"]
      /\ UNCHANGED <<phase, faults, status, subLeft, sleep, todo, spent>>
  BY DEF CommitBillets, Goto, subs
<1>2. TypeOK'
  BY <1>1 DEF TypeOK, Left, NoCredentials, Names
<1>3. InHandInv'
  <2>1. \A n \in Names : NoCredentials[n] = None
    BY DEF NoCredentials
  <2> QED BY <1>1, <2>1 DEF InHandInv, TypeOK
<1>4. Asleep' <=> Asleep
  BY <1>1 DEF Asleep, TypeOK
<1>5. \A c \in Lefts' :
        c \in Lefts \/ \E l \in Lifetimes : l <= c + MaxDuration /\ c <= l
  <2> SUFFICES ASSUME NEW b \in Billets, updated[p][b] # None
               PROVE  \E l \in Lifetimes : /\ l <= updated[p][b] + MaxDuration
                                           /\ updated[p][b] <= l
    BY <1>1 DEF Lefts, Ready
  <2> QED BY InHand DEF Names
<1>6. Lefts' \subseteq Nat
  BY <1>2 DEF TypeOK, Lefts, Left, Ready
<1>7. StoredInv' /\ AsleepInv' /\ AwakeInv'
  BY <1>1, <1>4, <1>5, <1>6, ServedKeeps
<1>8. RenewedInv'
  <2>1. \A b \in Billets : credentials'[b] # None => Renewed(credentials'[b])
    <3> SUFFICES ASSUME NEW b \in Billets, updated[p][b] # None
                 PROVE  Renewed(updated[p][b])
      BY <1>1
    <3>1. /\ updated[p][b] \in Nat
          /\ \E l \in Lifetimes : l <= updated[p][b] + MaxDuration
      BY InHand DEF Names
    <3> QED BY <3>1, NewIsRenewed
  <2> QED BY <1>1, <2>1 DEF RenewedInv, Renewed, Ready, TypeOK, Procs
<1> QED BY <1>2, <1>3, <1>7, <1>8

\* Every subscription that is served is now on the list to renew.
LEMMA SnapshotKeeps ==
  ASSUME Preserves, NEW p \in Procs, Snapshot(p)
  PROVE  QuietInv'
<1> USE DEF Preserves, QuietInv
<1>1. /\ pc[p] = "snapshot"
      /\ todo' = [todo EXCEPT ![p] = {id \in SubIds : status[id] # "absent"}]
      /\ pc' = [pc EXCEPT ![p] = "subs"]
      /\ UNCHANGED <<phase, faults, credentials, status, subLeft, sleep,
                     updated, spent>>
  BY DEF Snapshot, Goto, subs
<1>2. TypeOK'
  BY <1>1 DEF TypeOK, Names
<1>3. InHandInv'
  BY <1>1 DEF InHandInv, TypeOK
<1>4. Asleep' <=> Asleep
  BY <1>1 DEF Asleep, TypeOK
<1>5. Lefts' = Lefts
  BY <1>1, SameServed
<1>6. StoredInv' /\ AsleepInv' /\ AwakeInv'
  BY <1>1, <1>4, <1>5 DEF StoredInv, AsleepInv, AwakeInv
<1>7. RenewedInv'
  BY <1>1 DEF RenewedInv, Renewed, Ready, TypeOK
<1> QED BY <1>2, <1>3, <1>6, <1>7

\* A subscription that is not ready is not served.
LEMMA MarkPendingKeeps ==
  ASSUME Preserves, NEW p \in Procs, MarkPending(p)
  PROVE  QuietInv'
<1> USE DEF Preserves, QuietInv
<1>1. PICK id \in todo[p] :
        /\ status' = [status EXCEPT ![id] = "pending"]
        /\ todo' = [todo EXCEPT ![p] = @ \ {id}]
  BY DEF MarkPending
<1>2. UNCHANGED <<phase, faults, credentials, subLeft, sleep, pc, updated,
                  spent>>
  BY DEF MarkPending
<1>3. TypeOK'
  BY <1>1, <1>2 DEF TypeOK
<1>4. Lefts' \subseteq Lefts
  BY <1>1, <1>2 DEF Lefts, Ready, TypeOK
<1>5. InHandInv'
  BY <1>2 DEF InHandInv
<1>6. StoredInv' /\ AsleepInv' /\ AwakeInv'
  BY <1>2, <1>4 DEF StoredInv, AsleepInv, AwakeInv, Asleep
<1>7. RenewedInv'
  BY <1>1, <1>2 DEF RenewedInv, Renewed, Ready, TypeOK
<1> QED BY <1>3, <1>5, <1>6, <1>7

\* A subscription's token arrives and is not served yet.
LEMMA ExchangeSubscriptionKeeps ==
  ASSUME Preserves, NEW p \in Procs, ExchangeSubscription(p)
  PROVE  QuietInv'
<1> USE DEF Preserves, QuietInv
<1>1. PICK id \in todo[p], life \in Lifetimes :
        updated' = [updated EXCEPT ![p][id] = life]
  BY DEF ExchangeSubscription
<1>2. /\ UNCHANGED <<phase, faults, credentials, status, subLeft, sleep, pc,
                     todo, spent>>
      /\ pc[p] = "subs"
  BY DEF ExchangeSubscription, subs
<1>3. id \in Names /\ life \in Nat
  BY DEF TypeOK, ConstantsAssumption
<1>4. TypeOK'
  BY <1>1, <1>2, <1>3 DEF TypeOK, Left
<1>5. Lefts' = Lefts
  BY <1>2, SameServed
<1>6. InHandInv'
  BY <1>1, <1>2, <1>3, ReceivedInHand
<1>7. AsleepInv' /\ AwakeInv' /\ StoredInv'
  BY <1>2, <1>5 DEF AsleepInv, AwakeInv, StoredInv, Asleep
<1>8. RenewedInv'
  BY <1>2 DEF RenewedInv, Renewed, Ready
<1> QED BY <1>4, <1>6, <1>7, <1>8

\* A subscription's token is served: it is new enough.
LEMMA InstallKeeps ==
  ASSUME Preserves, NEW p \in Procs, InstallSubscription(p)
  PROVE  QuietInv'
<1> USE DEF Preserves, QuietInv
<1>1. PICK id \in todo[p] :
        /\ updated[p][id] # None
        /\ status' = [status EXCEPT ![id] = "ready"]
        /\ subLeft' = [subLeft EXCEPT ![id] = updated[p][id]]
        /\ updated' = [updated EXCEPT ![p][id] = None]
        /\ todo' = [todo EXCEPT ![p] = @ \ {id}]
  BY DEF InstallSubscription
<1>2. UNCHANGED <<phase, faults, credentials, sleep, pc, spent>>
  BY DEF InstallSubscription
<1>3. id \in Names
  BY DEF TypeOK
<1>4. /\ updated[p][id] \in Nat
      /\ \E l \in Lifetimes : /\ l <= updated[p][id] + MaxDuration
                              /\ updated[p][id] <= l
  BY <1>1, <1>3, InHand
<1>5. TypeOK'
  BY <1>1, <1>2, <1>4 DEF TypeOK, Left
<1>6. InHandInv'
  BY <1>1, <1>2 DEF InHandInv, TypeOK, NoCredentials
<1>7. Asleep' <=> Asleep
  BY <1>2 DEF Asleep
<1>8. \A c \in Lefts' : c \in Lefts \/ c = updated[p][id]
  BY <1>1, <1>2 DEF Lefts, Ready, TypeOK
<1>9. Lefts' \subseteq Nat
  BY <1>8, <1>4, LeftsAreNumbers
<1>10. StoredInv' /\ AsleepInv' /\ AwakeInv'
  BY <1>2, <1>4, <1>7, <1>8, <1>9, ServedKeeps
<1>11. Renewed(updated[p][id])
  BY <1>4, NewIsRenewed
<1>12. \A i \in SubIds \ todo'[Loop] :
         /\ pc[Loop] = "subs"
         /\ status'[i] = "ready"
         /\ subLeft'[i] # None
         => Renewed(subLeft'[i])
  <2> SUFFICES ASSUME NEW i \in SubIds \ todo'[Loop], pc[Loop] = "subs",
                      status'[i] = "ready", subLeft'[i] # None
               PROVE  Renewed(subLeft'[i])
    OBVIOUS
  <2>1. CASE i = id
    BY <1>1, <1>11, <2>1 DEF TypeOK
  <2>2. CASE i # id
    BY <1>1, <2>2 DEF TypeOK, RenewedInv, Ready
  <2> QED BY <2>1, <2>2
<1>13. RenewedInv'
  BY <1>2, <1>12 DEF RenewedInv, Renewed, Ready
<1> QED BY <1>5, <1>6, <1>10, <1>13

\* The loop's refresh is over: all that is served is new, so it outlives the
\* wait that is computed from the earliest.
LEMMA ReturnKeeps ==
  ASSUME Preserves, NEW p \in Procs, pc[p] = "subs", todo[p] = {},
         Return(p, phase = "failing"),
         UNCHANGED <<faults, credentials, status, subLeft>>
  PROVE  QuietInv'
<1> USE DEF Preserves, QuietInv
<1>1. /\ pc' = [pc EXCEPT ![p] = "idle"]
      /\ todo' = [todo EXCEPT ![p] = {}]
      /\ updated' = [updated EXCEPT ![p] = NoCredentials]
      /\ spent' = [spent EXCEPT ![p] = 0]
      /\ p = Loop => sleep' = TimeUntilRefresh
      /\ p # Loop => sleep' = sleep
      /\ phase' \in {phase, "exited", "running"}
  BY DEF Return, Goto
<1>2. TimeUntilRefresh \in Nat
  BY WaitOfTimer
<1>3. TypeOK'
  BY <1>1, <1>2 DEF TypeOK, NoCredentials, Left, ConstantsAssumption
<1>4. Lefts' = Lefts
  BY SameServed
<1>5. Lefts \subseteq Nat /\ MaxDuration \in Nat
  BY LeftsAreNumbers DEF ConstantsAssumption
<1>6. InHandInv'
  <2>1. \A n \in Names : NoCredentials[n] = None
    BY DEF NoCredentials
  <2> QED BY <1>1, <2>1 DEF InHandInv, TypeOK
<1>7. StoredInv'
  BY <1>4 DEF StoredInv
<1>8. CASE p # Loop
  <2>1. Asleep' <=> Asleep
    BY <1>1, <1>8 DEF Asleep, TypeOK
  <2>2. spent'[Loop] = spent[Loop] /\ pc'[Loop] = pc[Loop]
        /\ todo'[Loop] = todo[Loop]
    BY <1>1, <1>8 DEF TypeOK
  <2>3. AsleepInv' /\ AwakeInv'
    BY <1>1, <1>4, <1>8, <2>1, <2>2 DEF AsleepInv, AwakeInv
  <2>4. RenewedInv'
    BY <2>2 DEF RenewedInv, Renewed, Ready
  <2> QED BY <1>3, <1>6, <1>7, <2>3, <2>4
<1>9. CASE p = Loop
  <2>1. Asleep' /\ pc'[Loop] = "idle"
    BY <1>1, <1>9 DEF Asleep, TypeOK
  <2>2. \A c \in Lefts : Renewed(c)
    BY <1>9 DEF Lefts, Ready, RenewedInv
  <2>3. \A c \in Lefts : MaxDuration + Default < c
    <3> TAKE c \in Lefts
    <3>1. PICK l \in Lifetimes : l <= c + MaxDuration + spent[Loop]
      BY <2>2 DEF Renewed
    <3>2. /\ c \in Nat /\ l \in Nat /\ Default \in Nat
          /\ spent[Loop] \in Nat /\ spent[Loop] <= MaxDuration
      BY <1>5, <1>9 DEF ConstantsAssumption, TypeOK
    <3>3. 3 * MaxDuration + Default < l
      BY DEF MarginCovers
    <3> QED BY <1>5, <3>1, <3>2, <3>3
  <2>4. /\ Floor \in Nat /\ Default \in Nat /\ Margin \in Nat
        /\ Floor <= Default
    BY DEF ConstantsAssumption
  <2>5. ASSUME Lefts = {}, TimeUntilRefresh = Default PROVE AsleepInv'
    BY <1>1, <1>4, <1>9, <2>4, <2>5 DEF AsleepInv
  <2>6. ASSUME TimeUntilRefresh = Floor PROVE AsleepInv'
    <3>1. sleep' = Floor
      BY <1>1, <1>9, <2>6
    <3>2. \A c \in Lefts : MaxDuration < c - Floor
      BY <1>5, <2>3, <2>4
    <3> QED BY <1>4, <2>4, <3>1, <3>2 DEF AsleepInv
  <2>7. ASSUME NEW e \in Lefts, TimeUntilRefresh = e - Margin,
               \A c \in Lefts : e <= c
        PROVE  AsleepInv'
    <3>1. sleep' = e - Margin
      BY <1>1, <1>9, <2>7
    <3>2. PICK l \in Lifetimes : e <= l
      BY DEF StoredInv
    <3>3. l \in Nat /\ e \in Nat
      BY <1>5 DEF ConstantsAssumption
    <3>4. sleep' <= l - Margin
      BY <2>4, <3>1, <3>2, <3>3
    <3>5. 2 * MaxDuration + (l - l) < Margin
      BY DEF MarginCovers
    <3>6. \A c \in Lefts : MaxDuration < c - sleep'
      BY <1>5, <2>4, <2>7, <3>1, <3>3, <3>5
    <3> QED BY <1>4, <3>4, <3>6 DEF AsleepInv
  <2>8. AsleepInv'
    BY <2>5, <2>6, <2>7, WaitOfTimer
  <2>9. AwakeInv' /\ RenewedInv'
    BY <2>1 DEF AwakeInv, RenewedInv
  <2> QED BY <1>3, <1>6, <1>7, <2>8, <2>9
<1> QED BY <1>8, <1>9

\* A refresh that returns ends as ReturnKeeps says.
LEMMA FinishKeeps ==
  ASSUME Preserves, NEW p \in Procs, FinishRefresh(p)
  PROVE  QuietInv'
BY ReturnKeeps DEF FinishRefresh, subs

\* Every step of a refresh; the two that need a fault cannot happen.
LEMMA RefreshKeeps ==
  ASSUME Preserves, NEW p \in Procs, RefreshStep(p)
  PROVE  QuietInv'
<1>1. ~ DiscoverFails(p) /\ ~ ExchangeFails(p)
  BY NoFault DEF DiscoverFails, ExchangeFails
<1> QED
  BY <1>1, DiscoverKeeps, ExchangeBilletKeeps, CommitKeeps, SnapshotKeeps,
     MarkPendingKeeps, ExchangeSubscriptionKeeps, InstallKeeps, FinishKeeps
     DEF RefreshStep

\* A new subscription is pending, so it is not served.
LEMMA CreateKeeps ==
  ASSUME Preserves, NEW id \in SubIds, NEW w \in Workers,
         CreateSubscription(id, w)
  PROVE  QuietInv'
<1> USE DEF Preserves, QuietInv
<1>1. /\ pc[w] = "idle"
      /\ pc' = [pc EXCEPT ![w] = "discover"]
      /\ status' = IF status[id] = "absent"
                   THEN [status EXCEPT ![id] = "pending"] ELSE status
      /\ UNCHANGED <<phase, faults, credentials, subLeft, sleep, todo, updated,
                     spent>>
  BY DEF CreateSubscription, Start, Goto, local
<1>2. w \in Procs /\ w # Loop
  BY DEF Procs, ConstantsAssumption
<1>3. TypeOK'
  BY <1>1, <1>2 DEF TypeOK
<1>4. \A i \in SubIds : Ready(i)' <=> Ready(i)
  BY <1>1 DEF Ready, TypeOK
<1>5. Lefts' = Lefts
  BY <1>1, <1>4 DEF Lefts
<1>6. InHandInv'
  BY <1>1, <1>2 DEF InHandInv, TypeOK
<1>7. pc'[Loop] = pc[Loop]
  BY <1>1, <1>2 DEF TypeOK
<1>8. StoredInv' /\ AsleepInv' /\ AwakeInv'
  BY <1>1, <1>5, <1>7 DEF StoredInv, AsleepInv, AwakeInv, Asleep
<1>9. RenewedInv'
  BY <1>1, <1>4, <1>7 DEF RenewedInv, Renewed
<1> QED BY <1>3, <1>6, <1>8, <1>9

\* Less is served and less is in hand.
LEMMA DeleteKeeps ==
  ASSUME Preserves, NEW id \in SubIds, DeleteSubscription(id)
  PROVE  QuietInv'
<1> USE DEF Preserves, QuietInv
<1>1. /\ status' = [status EXCEPT ![id] = "absent"]
      /\ subLeft' = [subLeft EXCEPT ![id] = None]
      /\ todo' = [p \in Procs |-> todo[p] \ {id}]
      /\ updated' = [p \in Procs |-> [updated[p] EXCEPT ![id] = None]]
      /\ UNCHANGED <<phase, faults, credentials, sleep, pc, spent>>
  BY DEF DeleteSubscription
<1>2. TypeOK'
  BY <1>1 DEF TypeOK, Left
<1>3. Lefts' \subseteq Lefts
  BY <1>1 DEF Lefts, Ready, TypeOK
<1>4. \A p \in Procs, n \in Names :
        updated'[p][n] # None => updated'[p][n] = updated[p][n]
  BY <1>1 DEF TypeOK
<1>5. \A p \in Procs : updated[p] = NoCredentials =>
                         updated'[p] = NoCredentials
  BY <1>1 DEF NoCredentials
<1>6. InHandInv'
  BY <1>1, <1>4, <1>5 DEF InHandInv
<1>7. StoredInv' /\ AsleepInv' /\ AwakeInv'
  BY <1>1, <1>3 DEF StoredInv, AsleepInv, AwakeInv, Asleep
<1>8. RenewedInv'
  BY <1>1 DEF RenewedInv, Renewed, Ready, TypeOK, Procs
<1> QED BY <1>2, <1>6, <1>7, <1>8

\* Time passes for what is served and for the wait, or the refresh, alike.
LEMMA TickKeeps == ASSUME Preserves, Tick PROVE QuietInv'
<1> USE DEF Preserves, QuietInv
<1>1. /\ credentials' = [b \in Billets |-> Less(credentials[b])]
      /\ subLeft' = [id \in SubIds |-> Less(subLeft[id])]
      /\ updated' = [p \in Procs |-> [n \in Names |-> Less(updated[p][n])]]
      /\ spent' = [p \in Procs |-> IF pc[p] = "idle" THEN 0 ELSE spent[p] + 1]
      /\ sleep' = IF Asleep THEN sleep - 1 ELSE sleep
      /\ Asleep => sleep > 0
      /\ \A p \in Procs : pc[p] # "idle" => spent[p] < MaxDuration
      /\ UNCHANGED <<phase, faults, status, pc, todo>>
  BY DEF Tick
<1>2. Loop \in Procs /\ None \notin Nat /\ MaxDuration \in Nat
  BY DEF Procs, ConstantsAssumption
<1>3. \A c \in Left : Less(c) \in Left /\ (Less(c) = None <=> c = None)
  BY TimePasses
<1>4. TypeOK'
  <2>1. credentials' \in [Billets -> Left] /\ subLeft' \in [SubIds -> Left]
        /\ updated' \in [Procs -> [Names -> Left]]
    BY <1>1, <1>3 DEF TypeOK
  <2>2. sleep' \in Nat
    BY <1>1 DEF TypeOK
  <2>3. spent' \in [Procs -> 0..MaxDuration]
    <3>1. \A p \in Procs :
            (IF pc[p] = "idle" THEN 0 ELSE spent[p] + 1) \in 0..MaxDuration
      BY <1>1, <1>2 DEF TypeOK
    <3> QED BY <1>1, <3>1
  <2> QED BY <1>1, <2>1, <2>2, <2>3 DEF TypeOK
<1>7. \A c \in Lefts' : c \in Nat
                        /\ \E d \in Lefts : d \in Nat /\ d - 1 <= c /\ c <= d
  BY TickLefts
<1>8. InHandInv'
  BY TickInHand
<1>9. StoredInv'
  <2> SUFFICES ASSUME NEW c \in Lefts' PROVE \E l \in Lifetimes : c <= l
    BY DEF StoredInv
  <2>1. PICK d \in Lefts : d \in Nat /\ c \in Nat /\ c <= d
    BY <1>7
  <2>2. PICK l \in Lifetimes : d <= l
    BY DEF StoredInv
  <2>3. l \in Nat
    BY DEF ConstantsAssumption
  <2> QED BY <2>1, <2>2, <2>3
<1>10. Asleep' <=> Asleep
  BY <1>1 DEF Asleep
<1>11. ASSUME Asleep PROVE AsleepInv'
  <2>1. sleep \in Nat /\ sleep > 0 /\ sleep' = sleep - 1 /\ Default \in Nat
        /\ Margin \in Int /\ Lifetimes \subseteq Nat
    BY <1>1, <1>11 DEF TypeOK, ConstantsAssumption
  <2>2. sleep' <= Default \/ \E l \in Lifetimes : sleep' <= l - Margin
    <3>1. CASE sleep <= Default
      BY <2>1, <3>1
    <3>2. CASE \E l \in Lifetimes : sleep <= l - Margin
      <4>1. PICK l \in Lifetimes : sleep <= l - Margin
        BY <3>2
      <4>2. sleep' <= l - Margin
        BY <2>1, <4>1
      <4> QED BY <4>2
    <3> QED BY <1>11, <3>1, <3>2 DEF AsleepInv
  <2>3. \A c \in Lefts' : MaxDuration < c - sleep'
    <3> TAKE c \in Lefts'
    <3>1. PICK d \in Lefts : d \in Nat /\ c \in Nat /\ d - 1 <= c
      BY <1>7
    <3>2. MaxDuration < d - sleep
      BY <1>11 DEF AsleepInv
    <3> QED BY <1>2, <2>1, <3>1, <3>2
  <2> QED BY <2>2, <2>3 DEF AsleepInv
<1>12. ASSUME ~ Asleep PROVE AwakeInv'
  <2>1. spent[Loop] \in Nat /\ spent'[Loop] = spent[Loop] + 1
    BY <1>1, <1>2, <1>12 DEF Asleep, TypeOK
  <2>2. \A c \in Lefts' : MaxDuration < c + spent'[Loop]
    <3> TAKE c \in Lefts'
    <3>1. PICK d \in Lefts : d \in Nat /\ c \in Nat /\ d - 1 <= c
      BY <1>7
    <3>2. MaxDuration < d + spent[Loop]
      BY <1>12 DEF AwakeInv
    <3> QED BY <1>2, <2>1, <3>1, <3>2
  <2> QED BY <2>2 DEF AwakeInv
<1>13. AsleepInv' /\ AwakeInv'
  BY <1>10, <1>11, <1>12 DEF AsleepInv, AwakeInv
<1>14. RenewedInv'
  <2>1. CASE Asleep
    BY <1>1, <2>1 DEF RenewedInv, Asleep
  <2>2. CASE ~ Asleep
    <3>1. spent[Loop] \in Nat /\ spent'[Loop] = spent[Loop] + 1
      BY <1>1, <1>2, <2>2 DEF Asleep, TypeOK
    <3>2. ASSUME NEW d \in Left, Less(d) # None, d # None => Renewed(d)
          PROVE  \E l \in Lifetimes : l <= Less(d) + MaxDuration + spent'[Loop]
      <4>1. d \in Nat /\ Less(d) \in Nat /\ d - 1 <= Less(d)
        BY <3>2, TimePasses DEF Left
      <4>2. PICK l \in Lifetimes : l <= d + MaxDuration + spent[Loop]
        BY <1>2, <3>2, <4>1 DEF Renewed
      <4>3. l \in Nat
        BY DEF ConstantsAssumption
      <4> QED BY <1>2, <3>1, <4>1, <4>2, <4>3
    <3>3. ASSUME pc[Loop] \in {"snapshot", "subs"}, NEW b \in Billets,
                 credentials'[b] # None
          PROVE  Renewed(credentials[b])'
      <4>1. credentials'[b] = Less(credentials[b]) /\ credentials[b] \in Left
        BY <1>1 DEF TypeOK
      <4> QED BY <3>2, <3>3, <4>1 DEF RenewedInv, Renewed
    <3>4. ASSUME pc[Loop] = "subs", NEW id \in SubIds \ todo[Loop],
                 Ready(id), subLeft'[id] # None
          PROVE  Renewed(subLeft[id])'
      <4>1. subLeft'[id] = Less(subLeft[id]) /\ subLeft[id] \in Left
        BY <1>1 DEF TypeOK
      <4> QED BY <3>2, <3>4, <4>1 DEF RenewedInv, Renewed
    <3> QED BY <1>1, <3>3, <3>4 DEF RenewedInv, Ready
  <2> QED BY <2>1, <2>2
<1> QED BY <1>4, <1>8, <1>9, <1>13, <1>14

-----------------------------------------------------------------------------
(* The theorem.                                                            *)

\* Every step keeps the invariant.
LEMMA NextKeeps == ASSUME Preserves, [Next]_vars PROVE QuietInv'
<1>1. CASE WakeLoop BY <1>1, WakeKeeps
<1>2. CASE StopLoop BY <1>2, StopKeeps
<1>3. CASE \E p \in Procs : RefreshStep(p) BY <1>3, RefreshKeeps
<1>4. CASE \E id \in SubIds, w \in Workers : CreateSubscription(id, w)
  BY <1>4, CreateKeeps
<1>5. CASE \E id \in SubIds : DeleteSubscription(id) BY <1>5, DeleteKeeps
<1>6. CASE Tick BY <1>6, TickKeeps
<1>7. CASE UNCHANGED vars
  BY <1>7, SameServed
     DEF Preserves, QuietInv, vars, subs, local, TypeOK, InHandInv, StoredInv,
         AsleepInv, AwakeInv, RenewedInv, Renewed, Ready, Asleep
<1> QED
  BY <1>1, <1>2, <1>3, <1>4, <1>5, <1>6, <1>7 DEF Next, Exited

\* The count of failures only grows.
LEMMA FirstFaultIsPast ==
  ASSUME TypeOK, [Next]_vars, faults' = 0
  PROVE  faults = 0
<1> USE DEF TypeOK
<1>1. CASE WakeLoop \/ StopLoop \/ Tick
  BY <1>1 DEF WakeLoop, StopLoop, Tick
<1>2. ASSUME NEW p \in Procs, RefreshStep(p) PROVE faults = 0
  <2>1. CASE Discover(p) \/ DiscoverFails(p) \/ ExchangeFails(p)
    BY <2>1 DEF Discover, DiscoverFails, ExchangeFails, Fault
  <2>2. CASE ExchangeBillet(p) \/ CommitBillets(p) \/ Snapshot(p)
    BY <2>2 DEF ExchangeBillet, CommitBillets, Snapshot
  <2>3. CASE MarkPending(p) \/ ExchangeSubscription(p)
    BY <2>3 DEF MarkPending, ExchangeSubscription
  <2>4. CASE InstallSubscription(p) \/ FinishRefresh(p)
    BY <2>4 DEF InstallSubscription, FinishRefresh
  <2> QED BY <1>2, <2>1, <2>2, <2>3, <2>4 DEF RefreshStep
<1>3. CASE \E id \in SubIds, w \in Workers : CreateSubscription(id, w)
  BY <1>3 DEF CreateSubscription
<1>4. CASE \E id \in SubIds : DeleteSubscription(id)
  BY <1>4 DEF DeleteSubscription
<1>5. CASE UNCHANGED vars
  BY <1>5 DEF vars
<1> QED
  BY <1>1, <1>2, <1>3, <1>4, <1>5 DEF Next, Exited

\* The waits and lives stay numbers and the refreshes of daemon.go stay where
\* they can be, whatever fails and whatever the margin.
THEOREM TimerTypes == Spec => []TypeOK
<1>1. Init => TypeOK
  BY ConstantsAssumption
     DEF Init, TypeOK, Left, NoCredentials, Procs, ConstantsAssumption
<1>2. TypeOK /\ [Next]_vars => TypeOK'
  <2> SUFFICES ASSUME TypeOK, [Next]_vars PROVE TypeOK'
    OBVIOUS
  <2> USE DEF TypeOK, Goto, Left, Fault
  <2>1. CASE WakeLoop \/ StopLoop
    BY <2>1 DEF WakeLoop, StopLoop, Start, subs, local, Procs
  <2>2. ASSUME NEW p \in Procs, NEW failed, Return(p, failed),
               UNCHANGED <<credentials, subs>>, faults' \in 0..MaxFaults
        PROVE  TypeOK'
    <3>1. Lefts \subseteq Nat
      BY DEF Lefts
    <3>2. TimeUntilRefresh \in Nat
      BY WaitOfTimer, ConstantsAssumption
    <3>3. NoCredentials \in [Names -> Left] /\ 0 \in 0..MaxDuration
      BY ConstantsAssumption DEF NoCredentials, ConstantsAssumption
    <3> QED
      BY <2>2, <3>2, <3>3 DEF Return, subs
  <2>3. ASSUME NEW p \in Procs, RefreshStep(p) PROVE TypeOK'
    <3>1. CASE Discover(p)
      <4>1. PICK found \in SUBSET Billets :
              /\ IF found = Billets THEN UNCHANGED faults ELSE Fault
              /\ todo' = [todo EXCEPT ![p] = found]
              /\ Goto(p, IF found = {} THEN "snapshot" ELSE "billets")
        BY <3>1 DEF Discover
      <4>2. UNCHANGED <<phase, credentials, status, subLeft, sleep, updated,
                        spent>>
        BY <3>1 DEF Discover, subs
      <4>3. faults' \in 0..MaxFaults
        <5>1. CASE found = Billets
          BY <4>1, <5>1
        <5>2. CASE found # Billets
          BY <4>1, <5>2, ConstantsAssumption DEF ConstantsAssumption
        <5> QED
          BY <5>1, <5>2
      <4>4. todo' \in [Procs -> SUBSET Names]
        BY <4>1 DEF Names
      <4>5. pc' \in [Procs -> {"idle", "discover", "billets", "snapshot", "subs"}]
        BY <4>1
      <4> QED
        BY <4>2, <4>3, <4>4, <4>5
    <3>2. CASE DiscoverFails(p)
      BY <2>2, <3>2, ConstantsAssumption DEF DiscoverFails, ConstantsAssumption
    <3>3. CASE ExchangeBillet(p)
      <4>1. PICK b \in todo[p], life \in Lifetimes :
              /\ updated' = [updated EXCEPT ![p][b] = life]
              /\ todo' = [todo EXCEPT ![p] = @ \ {b}]
        BY <3>3 DEF ExchangeBillet
      <4>2. UNCHANGED <<phase, faults, credentials, status, subLeft, sleep, pc,
                        spent>>
        BY <3>3 DEF ExchangeBillet, subs
      <4>3. life \in Nat
        BY ConstantsAssumption DEF ConstantsAssumption
      <4> QED
        BY <4>1, <4>2, <4>3
    <3>4. CASE ExchangeFails(p)
      BY <3>4, ConstantsAssumption DEF ExchangeFails, subs, ConstantsAssumption
    <3>5. CASE CommitBillets(p)
      BY <3>5 DEF CommitBillets, subs, Names, NoCredentials
    <3>6. CASE Snapshot(p)
      BY <3>6 DEF Snapshot, subs, Names
    <3>7. CASE MarkPending(p)
      <4>1. PICK id \in todo[p] :
              /\ status' = [status EXCEPT ![id] = "pending"]
              /\ todo' = [todo EXCEPT ![p] = @ \ {id}]
        BY <3>7 DEF MarkPending
      <4>2. UNCHANGED <<phase, faults, credentials, subLeft, sleep, pc, updated,
                        spent>>
        BY <3>7 DEF MarkPending
      <4> QED
        BY <4>1, <4>2
    <3>8. CASE ExchangeSubscription(p)
      <4>1. PICK id \in todo[p], life \in Lifetimes :
              updated' = [updated EXCEPT ![p][id] = life]
        BY <3>8 DEF ExchangeSubscription
      <4>2. UNCHANGED <<phase, faults, credentials, status, subLeft, sleep, pc,
                        todo, spent>>
        BY <3>8 DEF ExchangeSubscription, subs
      <4>3. life \in Nat
        BY ConstantsAssumption DEF ConstantsAssumption
      <4> QED
        BY <4>1, <4>2, <4>3
    <3>9. CASE InstallSubscription(p)
      <4>1. PICK id \in todo[p] :
              /\ status' = [status EXCEPT ![id] = "ready"]
              /\ subLeft' = [subLeft EXCEPT ![id] = updated[p][id]]
              /\ updated' = [updated EXCEPT ![p][id] = None]
              /\ todo' = [todo EXCEPT ![p] = @ \ {id}]
        BY <3>9 DEF InstallSubscription
      <4>2. UNCHANGED <<phase, faults, credentials, sleep, pc, spent>>
        BY <3>9 DEF InstallSubscription
      <4> QED
        BY <4>1, <4>2
    <3>10. CASE FinishRefresh(p)
      BY <2>2, <3>10 DEF FinishRefresh
    <3> QED
      BY <2>3, <3>1, <3>2, <3>3, <3>4, <3>5, <3>6, <3>7, <3>8, <3>9, <3>10
      DEF RefreshStep
  <2>4. ASSUME NEW id \in SubIds, NEW w \in Workers, CreateSubscription(id, w)
        PROVE  TypeOK'
    BY <2>4 DEF CreateSubscription, Start, local, Procs
  <2>5. ASSUME NEW id \in SubIds, DeleteSubscription(id) PROVE TypeOK'
    BY <2>5 DEF DeleteSubscription, Names
  <2>6. CASE Tick
    <3>1. None \notin Nat /\ MaxDuration \in Nat
      BY ConstantsAssumption DEF ConstantsAssumption
    <3>2. \A c \in Left : Less(c) \in Left
      BY <3>1 DEF Less
    <3>3. credentials' \in [Billets -> Left] /\ subLeft' \in [SubIds -> Left]
          /\ updated' \in [Procs -> [Names -> Left]]
      BY <2>6, <3>2 DEF Tick
    <3>4. \A p \in Procs :
            (IF pc[p] = "idle" THEN 0 ELSE spent[p] + 1) \in 0..MaxDuration
      BY <2>6, <3>1 DEF Tick
    <3>5. spent' \in [Procs -> 0..MaxDuration]
      BY <2>6, <3>4 DEF Tick
    <3>6. sleep' \in Nat
      BY <2>6 DEF Tick
    <3> QED
      BY <2>6, <3>3, <3>5, <3>6 DEF Tick
  <2>7. CASE UNCHANGED vars
    BY <2>7 DEF vars, subs, local
  <2> QED
    BY <2>1, <2>3, <2>4, <2>5, <2>6, <2>7 DEF Next, Exited
<1> QED BY <1>1, <1>2, PTL DEF Spec

\* Until something fails, if the margin covers two refreshes and the
\* difference between lifetimes, what timeUntilRefresh computes and what the
\* refreshes under way have received keep every token renewed before it expires.
THEOREM TimerInvariance ==
  ASSUME MarginCovers
  PROVE  Spec => []TimerInv
<1>1. Init => TimerInv
  BY InitInv, ConstantsAssumption DEF TimerInv
<1>2. TypeOK /\ TimerInv /\ [Next]_vars => TimerInv'
  BY NextKeeps, FirstFaultIsPast, ConstantsAssumption DEF TimerInv, Preserves
<1> QED BY <1>1, <1>2, TimerTypes, PTL DEF Spec

\* Until something fails, if the margin covers two refreshes and the
\* difference between lifetimes, no token is served after its expiry, however
\* refreshes, POST and DELETE overlap.
THEOREM RenewedInTime ==
  ASSUME MarginCovers
  PROVE  Spec => []RenewedBeforeExpiry
<1>1. TimerInv => RenewedBeforeExpiry
  <2> SUFFICES ASSUME QuietInv, 0 \in Lefts PROVE FALSE
    BY DEF RenewedBeforeExpiry, TimerInv
  <2>1. sleep \in Nat /\ MaxDuration \in Nat
    BY ConstantsAssumption DEF QuietInv, TypeOK, ConstantsAssumption
  <2>2. spent[Loop] \in 0..MaxDuration
    BY DEF QuietInv, TypeOK, Procs
  <2>3. CASE Asleep
    <3>1. MaxDuration < 0 - sleep
      BY <2>3 DEF QuietInv, AsleepInv
    <3> QED BY <2>1, <3>1
  <2>4. CASE ~ Asleep
    <3>1. MaxDuration < 0 + spent[Loop]
      BY <2>4 DEF QuietInv, AwakeInv
    <3> QED BY <2>1, <2>2, <3>1
  <2> QED BY <2>3, <2>4
<1> QED BY <1>1, TimerInvariance, PTL

-----------------------------------------------------------------------------
(* Whatever fails, and whatever the margin, what is due is tried again.    *)

Due == TypeOK /\ DueInv /\ ConstantsAssumption

\* Every step, those that fail too, leaves in hand what is no older than the
\* refresh that holds it.
LEMMA InHandKeeps ==
  ASSUME TypeOK, InHandInv, ConstantsAssumption, [Next]_vars
  PROVE  InHandInv'
<1>1. CASE UNCHANGED <<pc, updated, spent>>
  BY <1>1 DEF InHandInv
<1>2. CASE WakeLoop
  BY <1>2 DEF WakeLoop, Start, Goto, local, TypeOK, InHandInv, NoCredentials
<1>3. ASSUME NEW p \in Procs, RefreshStep(p) PROVE InHandInv'
  <2>1. CASE Discover(p)
    <3>1. pc[p] = "discover" /\ UNCHANGED <<updated, spent>>
      BY <2>1 DEF Discover
    <3>2. PICK step \in {"snapshot", "billets"} : Goto(p, step)
      BY <2>1 DEF Discover
    <3> QED BY <3>1, <3>2 DEF Goto, InHandInv, TypeOK
  <2>2. CASE ExchangeBillet(p)
    <3>1. PICK b \in todo[p], life \in Lifetimes :
            updated' = [updated EXCEPT ![p][b] = life]
      BY <2>2 DEF ExchangeBillet
    <3>2. pc[p] = "billets" /\ UNCHANGED <<pc, spent>>
      BY <2>2 DEF ExchangeBillet
    <3>3. b \in Names
      BY DEF TypeOK
    <3> QED BY <3>1, <3>2, <3>3, ReceivedInHand
  <2>3. CASE CommitBillets(p)
    BY <2>3 DEF CommitBillets, Goto, InHandInv, TypeOK, NoCredentials
  <2>4. CASE Snapshot(p)
    BY <2>4 DEF Snapshot, Goto, InHandInv, TypeOK
  <2>5. CASE ExchangeSubscription(p)
    <3>1. PICK id \in todo[p], life \in Lifetimes :
            updated' = [updated EXCEPT ![p][id] = life]
      BY <2>5 DEF ExchangeSubscription
    <3>2. pc[p] = "subs" /\ UNCHANGED <<pc, spent>>
      BY <2>5 DEF ExchangeSubscription
    <3>3. id \in Names
      BY DEF TypeOK
    <3> QED BY <3>1, <3>2, <3>3, ReceivedInHand
  <2>6. CASE InstallSubscription(p)
    <3>1. PICK id \in todo[p] : updated' = [updated EXCEPT ![p][id] = None]
      BY <2>6 DEF InstallSubscription
    <3>2. UNCHANGED <<pc, spent>>
      BY <2>6 DEF InstallSubscription
    <3> QED BY <3>1, <3>2 DEF InHandInv, TypeOK, NoCredentials
  <2>7. CASE DiscoverFails(p) \/ FinishRefresh(p)
    <3>1. /\ pc' = [pc EXCEPT ![p] = "idle"]
          /\ updated' = [updated EXCEPT ![p] = NoCredentials]
          /\ spent' = [spent EXCEPT ![p] = 0]
      BY <2>7 DEF DiscoverFails, FinishRefresh, Return, Goto
    <3>2. \A n \in Names : NoCredentials[n] = None
      BY DEF NoCredentials
    <3> QED BY <3>1, <3>2 DEF InHandInv, TypeOK
  <2>8. CASE ExchangeFails(p) \/ MarkPending(p)
    BY <1>1, <2>8 DEF ExchangeFails, MarkPending
  <2> QED
    BY <1>3, <2>1, <2>2, <2>3, <2>4, <2>5, <2>6, <2>7, <2>8 DEF RefreshStep
<1>4. ASSUME NEW id \in SubIds, NEW w \in Workers, CreateSubscription(id, w)
      PROVE  InHandInv'
  <2>1. w \in Procs /\ pc[w] = "idle" /\ pc' = [pc EXCEPT ![w] = "discover"]
    BY <1>4 DEF CreateSubscription, Start, Goto, Procs
  <2>2. UNCHANGED <<updated, spent>>
    BY <1>4 DEF CreateSubscription, local
  <2> QED BY <2>1, <2>2 DEF InHandInv, TypeOK
<1>5. ASSUME NEW id \in SubIds, DeleteSubscription(id) PROVE InHandInv'
  <2>1. /\ updated' = [p \in Procs |-> [updated[p] EXCEPT ![id] = None]]
        /\ UNCHANGED <<pc, spent>>
    BY <1>5 DEF DeleteSubscription
  <2>2. \A p \in Procs, n \in Names :
          updated'[p][n] # None => updated'[p][n] = updated[p][n]
    BY <2>1 DEF TypeOK
  <2>3. \A p \in Procs : updated[p] = NoCredentials =>
                           updated'[p] = NoCredentials
    BY <2>1 DEF NoCredentials
  <2> QED BY <2>1, <2>2, <2>3 DEF InHandInv
<1>6. CASE StopLoop \/ UNCHANGED vars
  BY <1>1, <1>6 DEF StopLoop, local, vars
<1> QED
  BY <1>2, <1>3, <1>4, <1>5, <1>6, TickInHand DEF Next, Exited

\* A sleep allows for a token received up to MaxDuration ago: what it lacks is
\* what that token's lifetime is short of the one the sleep was computed from.
LEMMA NewAllowsSleep ==
  ASSUME Due, Asleep, NEW c \in Nat, \E l \in Lifetimes : l <= c + MaxDuration
  PROVE  \/ sleep <= Default
         \/ \E l, m \in Lifetimes :
              sleep <= c - Margin + MaxDuration + (l - m)
<1>1. PICK m \in Lifetimes : m <= c + MaxDuration
  OBVIOUS
<1>2. CASE \E l \in Lifetimes : sleep <= l - Margin
  <2>1. PICK l \in Lifetimes : sleep <= l - Margin
    BY <1>2
  <2>2. /\ l \in Nat /\ m \in Nat /\ MaxDuration \in Nat /\ Margin \in Nat
        /\ sleep \in Nat
    BY DEF Due, TypeOK, ConstantsAssumption
  <2>3. sleep <= c - Margin + MaxDuration + (l - m)
    BY <1>1, <2>1, <2>2
  <2> QED BY <2>3
<1> QED BY <1>2 DEF Due, DueInv

\* So a step that does not touch the wait, and after which everything served
\* was served before or is as new as that, keeps the invariant.
LEMMA ServedDue ==
  ASSUME Due, InHandInv', Lefts' \subseteq Nat,
         Asleep' => Asleep /\ sleep' = sleep,
         \A c \in Lefts' :
           c \in Lefts \/ \E l \in Lifetimes : l <= c + MaxDuration /\ c <= l
  PROVE  DueInv'
<1>1. StoredInv'
  BY DEF StoredInv, Due, DueInv
<1>2. ASSUME Asleep', NEW c \in Lefts'
      PROVE  \/ sleep <= Default
             \/ \E l, m \in Lifetimes :
                  sleep <= c - Margin + MaxDuration + (l - m)
  BY <1>2, NewAllowsSleep DEF Due, DueInv
<1> QED BY <1>1, <1>2 DEF Due, DueInv

\* When the loop's refresh is over, the wait is computed from the earliest of
\* what is served.
LEMMA ReturnDue ==
  ASSUME Due, InHandInv', NEW p \in Procs, NEW failed, Return(p, failed),
         UNCHANGED <<credentials, status, subLeft>>
  PROVE  DueInv'
<1> USE DEF Due, DueInv
<1>1. pc' = [pc EXCEPT ![p] = "idle"]
  BY DEF Return, Goto
<1>2. Lefts' = Lefts /\ Lefts \subseteq Nat
  BY SameServed, LeftsAreNumbers
<1>3. CASE p # Loop
  BY <1>1, <1>2, <1>3, ServedDue DEF Return, Asleep, TypeOK
<1>4. CASE p = Loop
  <2>1. sleep' = TimeUntilRefresh
    BY <1>4 DEF Return
  <2>2. CASE TimeUntilRefresh \in {Default, Floor}
    <3>1. sleep' <= Default
      BY <2>1, <2>2 DEF ConstantsAssumption
    <3> QED BY <1>2, <3>1 DEF StoredInv
  <2>3. ASSUME NEW e \in Lefts, TimeUntilRefresh = e - Margin,
               \A c \in Lefts : e <= c
        PROVE  DueInv'
    <3>1. PICK l \in Lifetimes : e <= l
      BY DEF StoredInv
    <3>2. /\ e \in Nat /\ l \in Nat /\ Margin \in Nat /\ MaxDuration \in Nat
      BY <1>2 DEF ConstantsAssumption
    <3>3. sleep' <= l - Margin
      BY <2>1, <2>3, <3>1, <3>2
    <3>4. ASSUME NEW c \in Lefts
          PROVE  sleep' <= c - Margin + MaxDuration + (l - l)
      BY <1>2, <2>1, <2>3, <3>2
    <3> QED BY <1>2, <3>3, <3>4 DEF StoredInv
  <2> QED BY <2>2, <2>3, WaitOfTimer
<1> QED BY <1>3, <1>4

\* Time passes for what is served and for the wait alike.
LEMMA TickDue == ASSUME Due, InHandInv', Tick PROVE DueInv'
<1> USE DEF Due
<1>1. /\ Asleep' <=> Asleep
      /\ Asleep => sleep' = sleep - 1
  BY DEF Tick, Asleep
<1>2. /\ sleep \in Nat /\ Default \in Nat /\ Margin \in Nat
      /\ MaxDuration \in Nat /\ Lifetimes \subseteq Nat
  BY DEF TypeOK, ConstantsAssumption
<1>3. StoredInv'
  <2> SUFFICES ASSUME NEW c \in Lefts' PROVE \E l \in Lifetimes : c <= l
    BY DEF StoredInv
  <2>1. PICK d \in Lefts : d \in Nat /\ c \in Nat /\ c <= d
    BY TickLefts
  <2>2. PICK l \in Lifetimes : d <= l
    BY DEF DueInv, StoredInv
  <2> QED BY <1>2, <2>1, <2>2
<1>4. ASSUME Asleep
      PROVE  sleep' <= Default \/ \E l \in Lifetimes : sleep' <= l - Margin
  <2>1. CASE sleep <= Default
    BY <1>1, <1>2, <1>4, <2>1
  <2>2. CASE \E l \in Lifetimes : sleep <= l - Margin
    <3>1. PICK l \in Lifetimes : sleep <= l - Margin
      BY <2>2
    <3>2. sleep' <= l - Margin
      BY <1>1, <1>2, <1>4, <3>1
    <3> QED BY <3>2
  <2> QED BY <1>4, <2>1, <2>2 DEF DueInv
<1>5. ASSUME Asleep, NEW c \in Lefts'
      PROVE  \/ sleep' <= Default
             \/ \E l, m \in Lifetimes :
                  sleep' <= c - Margin + MaxDuration + (l - m)
  <2>1. PICK d \in Lefts : d \in Nat /\ c \in Nat /\ d - 1 <= c
    BY TickLefts
  <2>2. CASE sleep <= Default
    BY <1>1, <1>2, <1>5, <2>2
  <2>3. CASE \E l, m \in Lifetimes :
               sleep <= d - Margin + MaxDuration + (l - m)
    <3>1. PICK l \in Lifetimes, m \in Lifetimes :
            sleep <= d - Margin + MaxDuration + (l - m)
      BY <2>3
    <3>2. l \in Nat /\ m \in Nat
      BY <1>2
    <3>3. sleep' <= c - Margin + MaxDuration + (l - m)
      BY <1>1, <1>2, <1>5, <2>1, <3>1, <3>2
    <3> QED BY <3>3
  <2> QED BY <1>5, <2>2, <2>3 DEF DueInv
<1> QED BY <1>1, <1>3, <1>4, <1>5 DEF DueInv

\* Every step of a refresh, those that fail too, keeps the invariant.
LEMMA RefreshDue ==
  ASSUME Due, InHandInv', TypeOK', NEW p \in Procs, RefreshStep(p)
  PROVE  DueInv'
<1>1. Lefts' \subseteq Nat
  BY DEF TypeOK, Lefts, Left, Ready
<1>2. CASE \/ Discover(p) \/ ExchangeBillet(p) \/ ExchangeFails(p)
           \/ Snapshot(p) \/ ExchangeSubscription(p)
  <2>1. UNCHANGED <<credentials, status, subLeft, sleep>>
    BY <1>2 DEF Discover, ExchangeBillet, ExchangeFails, Snapshot,
                ExchangeSubscription, subs
  <2>2. Asleep' => Asleep
    <3>1. CASE Discover(p)
      BY <3>1 DEF Discover, Goto, Asleep, Due, TypeOK
    <3>2. CASE Snapshot(p)
      BY <3>2 DEF Snapshot, Goto, Asleep, Due, TypeOK
    <3>3. CASE pc' = pc
      BY <3>3 DEF Asleep
    <3> QED BY <1>2, <3>1, <3>2, <3>3
            DEF ExchangeBillet, ExchangeFails, ExchangeSubscription
  <2>3. Lefts' = Lefts
    BY <2>1, SameServed
  <2> QED BY <1>1, <2>1, <2>2, <2>3, ServedDue
<1>3. CASE MarkPending(p)
  <2>1. PICK id \in todo[p] : status' = [status EXCEPT ![id] = "pending"]
    BY <1>3 DEF MarkPending
  <2>2. UNCHANGED <<credentials, subLeft, sleep, pc>>
    BY <1>3 DEF MarkPending
  <2>3. Lefts' \subseteq Lefts
    BY <2>1, <2>2 DEF Lefts, Ready, Due, TypeOK
  <2> QED BY <1>1, <2>2, <2>3, ServedDue DEF Asleep
<1>4. CASE CommitBillets(p)
  <2>1. /\ credentials' = [b \in Billets |-> updated[p][b]]
        /\ pc' = [pc EXCEPT ![p] = "snapshot"]
        /\ UNCHANGED <<status, subLeft, sleep>>
    BY <1>4 DEF CommitBillets, Goto, subs
  <2>2. Asleep' => Asleep
    BY <2>1 DEF Asleep, Due, TypeOK
  <2>3. \A c \in Lefts' :
          c \in Lefts \/ \E l \in Lifetimes : l <= c + MaxDuration /\ c <= l
    <3> SUFFICES ASSUME NEW b \in Billets, updated[p][b] # None
                 PROVE  \E l \in Lifetimes : /\ l <= updated[p][b] + MaxDuration
                                             /\ updated[p][b] <= l
      BY <2>1 DEF Lefts, Ready
    <3> QED BY InHand DEF Names, Due, DueInv
  <2> QED BY <1>1, <2>1, <2>2, <2>3, ServedDue
<1>5. CASE InstallSubscription(p)
  <2>1. PICK id \in todo[p] :
          /\ updated[p][id] # None
          /\ status' = [status EXCEPT ![id] = "ready"]
          /\ subLeft' = [subLeft EXCEPT ![id] = updated[p][id]]
    BY <1>5 DEF InstallSubscription
  <2>2. UNCHANGED <<credentials, sleep, pc>>
    BY <1>5 DEF InstallSubscription
  <2>3. id \in Names
    BY DEF Due, TypeOK
  <2>4. \E l \in Lifetimes : /\ l <= updated[p][id] + MaxDuration
                             /\ updated[p][id] <= l
    BY <2>1, <2>3, InHand DEF Due, DueInv
  <2>5. \A c \in Lefts' : c \in Lefts \/ c = updated[p][id]
    BY <2>1, <2>2 DEF Lefts, Ready, Due, TypeOK
  <2> QED BY <1>1, <2>2, <2>4, <2>5, ServedDue DEF Asleep
<1>6. CASE DiscoverFails(p)
  BY <1>6, ReturnDue DEF DiscoverFails, subs
<1>7. CASE FinishRefresh(p)
  BY <1>7, ReturnDue DEF FinishRefresh, subs
<1> QED BY <1>2, <1>3, <1>4, <1>5, <1>6, <1>7 DEF RefreshStep

\* Every step keeps the invariant.
LEMMA NextDue == ASSUME Due, TypeOK', [Next]_vars PROVE DueInv'
<1>1. InHandInv'
  BY InHandKeeps DEF Due, DueInv
<1>2. Lefts \subseteq Nat
  BY LeftsAreNumbers DEF Due
<1>3. CASE WakeLoop
  <2>1. UNCHANGED <<credentials, status, subLeft>> /\ ~ Asleep'
    BY <1>3 DEF WakeLoop, Start, Goto, subs, Asleep, Due, TypeOK, Procs
  <2> QED BY <1>1, <1>2, <2>1, SameServed, ServedDue
<1>4. CASE StopLoop \/ UNCHANGED vars
  <2>1. UNCHANGED <<credentials, status, subLeft, sleep, pc>>
    BY <1>4 DEF StopLoop, subs, vars
  <2> QED BY <1>1, <1>2, <2>1, SameServed, ServedDue DEF Asleep
<1>5. ASSUME NEW id \in SubIds, NEW w \in Workers, CreateSubscription(id, w)
      PROVE  DueInv'
  <2>1. /\ Asleep' => Asleep
        /\ UNCHANGED <<credentials, subLeft, sleep>>
    BY <1>5 DEF CreateSubscription, Start, Goto, Asleep, Due, TypeOK, Procs,
                ConstantsAssumption
  <2>2. \A i \in SubIds : Ready(i)' <=> Ready(i)
    BY <1>5 DEF CreateSubscription, Ready, Due, TypeOK
  <2>3. Lefts' = Lefts
    BY <2>1, <2>2 DEF Lefts
  <2> QED BY <1>1, <1>2, <2>1, <2>3, ServedDue
<1>6. ASSUME NEW id \in SubIds, DeleteSubscription(id) PROVE DueInv'
  <2>1. /\ status' = [status EXCEPT ![id] = "absent"]
        /\ subLeft' = [subLeft EXCEPT ![id] = None]
        /\ UNCHANGED <<credentials, sleep, pc>>
    BY <1>6 DEF DeleteSubscription
  <2>2. Lefts' \subseteq Lefts
    BY <2>1 DEF Lefts, Ready, Due, TypeOK
  <2> QED BY <1>1, <1>2, <2>1, <2>2, ServedDue DEF Asleep
<1> QED
  BY <1>1, <1>3, <1>4, <1>5, <1>6, RefreshDue, TickDue DEF Next, Exited

\* Whatever fails, whatever the lifetimes and the margin, what timeUntilRefresh
\* computes from the earliest expiry stays a wait that what is served allows.
THEOREM DueInvariance == Spec => []DueInv
<1>1. Init => DueInv
  <2> SUFFICES ASSUME Init PROVE DueInv
    OBVIOUS
  <2>1. pc[Loop] = "discover" /\ Lefts = {}
    BY DEF Init, Lefts, Ready, Procs
  <2>2. InHandInv
    BY DEF Init, InHandInv, NoCredentials
  <2> QED BY <2>1, <2>2 DEF DueInv, StoredInv, Asleep
<1>2. TypeOK /\ TypeOK' /\ DueInv /\ [Next]_vars => DueInv'
  BY NextDue, ConstantsAssumption DEF Due
<1> QED BY <1>1, <1>2, TimerTypes, PTL DEF Spec

\* However often exchanges and discoveries fail and however refreshes overlap,
\* a credential that is due is tried again within the default wait, but for
\* what a refresh takes and lifetimes differ.
THEOREM DueTriedAgain == Spec => []DueIsTriedAgain
<1>1. TypeOK /\ DueInv => DueIsTriedAgain
  <2> SUFFICES ASSUME TypeOK, DueInv, Asleep, NEW c \in Lefts
               PROVE  \E l, m \in Lifetimes :
                        sleep <= AtLeast(Default,
                                         c - Margin + MaxDuration + (l - m))
    BY DEF DueIsTriedAgain
  <2>1. /\ sleep \in Nat /\ c \in Nat /\ Default \in Nat /\ Margin \in Nat
        /\ MaxDuration \in Nat /\ Lifetimes \subseteq Nat
    BY ConstantsAssumption, LeftsAreNumbers DEF ConstantsAssumption, TypeOK
  <2>2. PICK k \in Lifetimes : c <= k
    BY DEF DueInv, StoredInv
  <2>3. CASE sleep <= Default
    <3>1. sleep <= AtLeast(Default, c - Margin + MaxDuration + (k - k))
      BY <2>1, <2>3 DEF AtLeast
    <3> QED BY <3>1
  <2>4. CASE \E l, m \in Lifetimes :
               sleep <= c - Margin + MaxDuration + (l - m)
    <3>1. PICK l \in Lifetimes, m \in Lifetimes :
            sleep <= c - Margin + MaxDuration + (l - m)
      BY <2>4
    <3>2. l \in Nat /\ m \in Nat
      BY <2>1
    <3>3. sleep <= AtLeast(Default, c - Margin + MaxDuration + (l - m))
      BY <2>1, <3>1, <3>2 DEF AtLeast
    <3> QED BY <3>3
  <2> QED BY <2>3, <2>4 DEF DueInv
<1> QED BY <1>1, DueInvariance, TimerTypes, PTL

=============================================================================
