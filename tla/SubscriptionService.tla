------------------------- MODULE SubscriptionService -------------------------
(***************************************************************************)
(* What the clients of /subscriptions are promised, without the refreshes, *)
(* locks, keys and objects behind it: an abstract specification of the     *)
(* subscription API that Daemon implements.                                *)
(***************************************************************************)
CONSTANTS
  Ids,       \* subscription ids
  Requests,  \* what a subscription can be for
  IdOf,      \* [Requests -> Ids]
  Keys,      \* private keys
  None

VARIABLES
  up,    \* the daemon serves
  entry  \* what it serves under each id, None for not found

vars == <<up, entry>>

Entry(r, status, cred) == [req |-> r, status |-> status, cred |-> cred]

\* A token for r, perhaps a key, and with a key perhaps a certificate for it.
Credentials(r) ==
  {c \in [scope : {r}, cert : Keys \cup {None}, key : Keys \cup {None}] :
     c.cert # None => c.cert = c.key}

Init ==
  /\ up = TRUE
  /\ entry = [id \in Ids |-> None]

\* A new subscription waits; one that exists stays as it is.
Create(r) ==
  /\ up
  /\ entry[IdOf[r]] = None
  /\ entry' = [entry EXCEPT ![IdOf[r]] = Entry(r, "pending", None)]
  /\ UNCHANGED up

\* A first credential or a renewed one: always for the request of this
\* subscription, and a renewal keeps the key.
Grant(id) ==
  /\ up
  /\ entry[id] # None
  /\ \E c \in Credentials(entry[id].req) :
       /\ entry[id].cred # None => c.key = entry[id].cred.key
       /\ entry' = [entry EXCEPT ![id] = Entry(entry[id].req, "ready", c)]
  /\ UNCHANGED up

\* A billet is no longer available: the credential is kept but not served.
Suspend(id) ==
  /\ up
  /\ entry[id] # None
  /\ entry' = [entry EXCEPT ![id] =
                 Entry(entry[id].req, "pending", entry[id].cred)]
  /\ UNCHANGED up

Delete(id) ==
  /\ up
  /\ entry[id] # None
  /\ entry' = [entry EXCEPT ![id] = None]
  /\ UNCHANGED up

\* The process ends.
Stop ==
  /\ up
  /\ up' = FALSE
  /\ UNCHANGED entry

Next ==
  \/ \E r \in Requests : Create(r)
  \/ \E id \in Ids : Grant(id) \/ Suspend(id) \/ Delete(id)
  \/ Stop

Spec == Init /\ [][Next]_vars

=============================================================================
