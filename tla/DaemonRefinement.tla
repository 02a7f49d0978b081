--------------------------- MODULE DaemonRefinement ---------------------------
(***************************************************************************)
(* Daemon implements SubscriptionService: under an id a client sees the    *)
(* object that d.subscriptions[id] points to.                              *)
(***************************************************************************)
EXTENDS Daemon

Entries == [req : Requests, status : {"pending", "ready"},
            cred : MaybeCredential]

ASSUME NoEntryAssumption == None \notin Entries

EntryOf(id) ==
  IF subscriptions[id] = None THEN None
  ELSE [req |-> Sub(id).req, status |-> Sub(id).status, cred |-> Sub(id).cred]

Service == INSTANCE SubscriptionService
  WITH Ids <- SubIds,
       up <- Up,
       entry <- [id \in SubIds |-> EntryOf(id)]

\* Whatever the handlers and any number of refreshes do to the daemon's maps,
\* keys and objects, a client of /subscriptions sees one subscription that is
\* created, granted, renewed with the same key, suspended and deleted.
ImplementsService == Service!Spec

=============================================================================
