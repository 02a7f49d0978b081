----------------------------- MODULE Lifecycle -----------------------------
(***************************************************************************)
(* The process: main and Run, the goroutine that listens, the one that     *)
(* shuts the server down, the refreshes POST /subscriptions starts, and    *)
(* the signals.  What a refresh does is Daemon's; here it ends, with or    *)
(* without an error, or panics, which nothing recovers.                    *)
(***************************************************************************)

EXTENDS TLAPS

CONSTANTS
  Clients,  \* bounds the requests open at once
  Workers   \* goroutines of triggerRefresh; bounds those alive at once

VARIABLES
  stage,      \* where main is
  ready,      \* the first refresh has succeeded
  cancelled,  \* ctx: SIGINT or SIGTERM has come
  server,     \* srv
  source,     \* the identity source
  open,       \* whose requests the server has accepted and not answered
  workers,    \* which triggered refreshes run
  exit        \* the exit code

vars == <<stage, ready, cancelled, server, source, open, workers, exit>>

TypeOK ==
  /\ stage \in {"connect", "first", "sleep", "refresh", "returned", "exited"}
  /\ ready \in BOOLEAN
  /\ cancelled \in BOOLEAN
  /\ server \in {"new", "listening", "failed", "shut"}
  /\ source \in {"none", "open", "closed"}
  /\ open \in SUBSET Clients
  /\ workers \in SUBSET Workers
  /\ exit \in {"none", "0", "1", "2"}
  /\ exit # "none" <=> stage = "exited"
  /\ stage \in {"sleep", "refresh", "returned"} => ready

Init ==
  /\ stage = "connect"
  /\ ready = FALSE
  /\ cancelled = FALSE
  /\ server = "new"
  /\ source = "none"
  /\ open = {}
  /\ workers = {}
  /\ exit = "none"

Up == stage # "exited"
Serving == stage \in {"first", "sleep", "refresh", "returned"}

Exit(code) ==
  /\ stage' = "exited"
  /\ exit' = code
  /\ open' = {}
  /\ workers' = {}
  /\ UNCHANGED <<ready, cancelled, server, source>>

Signal ==
  /\ Up
  /\ ~ cancelled
  /\ cancelled' = TRUE
  /\ UNCHANGED <<stage, ready, server, source, open, workers, exit>>

-----------------------------------------------------------------------------
(* main                                                                    *)

\* identity.New and daemon.New succeed: Run starts.
Connect ==
  /\ stage = "connect"
  /\ stage' = "first"
  /\ source' = "open"
  /\ UNCHANGED <<ready, cancelled, server, open, workers, exit>>

\* One of them fails; a SPIRE source that waits for its agent does when ctx is
\* cancelled.
ConnectFails == stage = "connect" /\ Exit("1")

\* main returns after Run returned context.Canceled; the process is gone,
\* whatever else still runs in it.
ExitCancelled == stage = "returned" /\ Exit("0")

-----------------------------------------------------------------------------
(* Run                                                                     *)

FirstRefresh ==
  /\ stage = "first"
  /\ stage' = "sleep"
  /\ ready' = TRUE
  /\ UNCHANGED <<cancelled, server, source, open, workers, exit>>

\* Mutant: the first refresh is like any other.
FirstRefreshFails_Logged ==
  /\ stage = "first"
  /\ stage' = "sleep"
  /\ UNCHANGED <<ready, cancelled, server, source, open, workers, exit>>

\* Run returns the error, wrapped, and main exits with 1, also when the reason
\* is that ctx was cancelled.
FirstRefreshFails == stage = "first" /\ Exit("1")

\* Mutant: the wait is a plain sleep.
Wake_Sleeps ==
  /\ stage = "sleep"
  /\ stage' = "refresh"
  /\ UNCHANGED <<ready, cancelled, server, source, open, workers, exit>>

\* time.After fires.  Once ctx is cancelled the select does not wait for it; a
\* tie is this step before Signal.
Wake ==
  /\ stage = "sleep"
  /\ ~ cancelled
  /\ stage' = "refresh"
  /\ UNCHANGED <<ready, cancelled, server, source, open, workers, exit>>

\* Mutant: an error in the loop ends Run as the first one does.
RefreshEnds_Returns ==
  /\ stage = "refresh"
  /\ \/ stage' = "sleep"
        /\ UNCHANGED <<ready, cancelled, server, source, open, workers, exit>>
     \/ Exit("1")

\* With or without an error, which is only logged.
RefreshEnds ==
  /\ stage = "refresh"
  /\ stage' = "sleep"
  /\ UNCHANGED <<ready, cancelled, server, source, open, workers, exit>>

\* Run's own refresh dereferences the response of an exchange, which is nil if
\* a 200 has a body of another type.  Go's exit code after a panic is 2.
RefreshPanics == stage \in {"first", "refresh"} /\ Exit("2")

\* The select sees ctx.Done; the deferred Close runs.
ReturnCancelled ==
  /\ stage = "sleep"
  /\ cancelled
  /\ stage' = "returned"
  /\ source' = "closed"
  /\ UNCHANGED <<ready, cancelled, server, open, workers, exit>>

-----------------------------------------------------------------------------
(* The goroutines.                                                         *)

\* ListenAndServe binds the address.
Listen ==
  /\ Serving
  /\ server = "new"
  /\ server' = "listening"
  /\ UNCHANGED <<stage, ready, cancelled, source, open, workers, exit>>

\* The address is taken: the error is logged and nobody told.
ListenFails ==
  /\ Serving
  /\ server = "new"
  /\ server' = "failed"
  /\ UNCHANGED <<stage, ready, cancelled, source, open, workers, exit>>

\* Mutant: the source is closed here.
Shutdown_ClosesSource ==
  /\ Serving
  /\ cancelled
  /\ server \in {"new", "listening"}
  /\ server' = "shut"
  /\ source' = "closed"
  /\ UNCHANGED <<stage, ready, cancelled, open, workers, exit>>

\* srv.Shutdown closes the listener, or keeps a server that has not started
\* from starting.  It then waits 5 s for open requests, and nobody for it.
Shutdown ==
  /\ Serving
  /\ cancelled
  /\ server \in {"new", "listening"}
  /\ server' = "shut"
  /\ UNCHANGED <<stage, ready, cancelled, source, open, workers, exit>>

Accept(c) ==
  /\ Serving
  /\ server = "listening"
  /\ c \notin open
  /\ open' = open \cup {c}
  /\ UNCHANGED <<stage, ready, cancelled, server, source, workers, exit>>

\* Shutdown lets open requests end.  POST /subscriptions starts a refresh
\* that ctx does not end.
Answer(c) ==
  /\ Serving
  /\ c \in open
  /\ open' = open \ {c}
  /\ \/ UNCHANGED workers
     \/ \E w \in Workers \ workers : workers' = workers \cup {w}
  /\ UNCHANGED <<stage, ready, cancelled, server, source, exit>>

TriggeredEnds(w) ==
  /\ Serving
  /\ w \in workers
  /\ workers' = workers \ {w}
  /\ UNCHANGED <<stage, ready, cancelled, server, source, open, exit>>

\* The same in a goroutine of its own: it takes the process with it.
TriggeredPanics(w) == Serving /\ w \in workers /\ Exit("2")

Main == \/ Connect \/ ExitCancelled
        \/ FirstRefresh \/ FirstRefreshFails
        \/ Wake \/ RefreshEnds \/ RefreshPanics \/ ReturnCancelled

Next ==
  \/ Signal
  \/ Main
  \/ ConnectFails
  \/ Listen \/ ListenFails \/ Shutdown
  \/ \E c \in Clients : Accept(c) \/ Answer(c)
  \/ \E w \in Workers : TriggeredEnds(w) \/ TriggeredPanics(w)
  \/ ~ Up /\ UNCHANGED vars

\* All that Run and identity.New wait for ends once ctx is cancelled.  Before
\* that nothing need ever end: SPIRE and AWS are called without a deadline.
Fairness == WF_vars(cancelled /\ (Main \/ ConnectFails))

Spec == Init /\ [][Next]_vars /\ Fairness

-----------------------------------------------------------------------------

\* What the exit code tells.  0: a stop that was asked for, of a process that
\* had credentials.  1: it never had any.  So an error of a later refresh, in
\* the loop or a goroutine, ends no process that once worked: what is left is a
\* panic, 2.
ExitTellsWhy ==
  /\ exit = "0" => ready /\ cancelled
  /\ exit = "1" => ~ ready

\* The identity source stays open for every refresh of Run, also for one that
\* is under way when the signal comes.
SourceOpenForRun == stage \in {"first", "sleep", "refresh"} => source = "open"

\* A signal ends the process from wherever it is, in spite of refreshes that
\* are under way.
SignalStops == cancelled ~> ~ Up

\* "Run starts the credential HTTP server and the refresh loop until ctx is
\* cancelled."  Violated: a server that cannot listen is only logged, and the
\* loop goes on to exchange credentials that nobody can fetch.
ServesWhileRunning == Serving /\ ~ cancelled => server # "failed"

-----------------------------------------------------------------------------

\* What the exit code tells, and that the source is open while Run refreshes,
\* by induction over the stages.
StageInv ==
  /\ TypeOK
  /\ ExitTellsWhy
  /\ SourceOpenForRun
  /\ stage = "returned" => cancelled
  /\ stage \in {"connect", "first"} => ~ ready

\* Every step keeps it.
LEMMA NextKeeps == StageInv /\ [Next]_vars => StageInv'
<1> SUFFICES ASSUME StageInv, [Next]_vars PROVE StageInv'
  OBVIOUS
<1> USE DEF StageInv, TypeOK, ExitTellsWhy, SourceOpenForRun, Up, Serving
<1>1. CASE Signal
  <2>1. /\ stage # "exited" /\ cancelled' = TRUE
        /\ UNCHANGED <<stage, ready, server, source, open, workers, exit>>
    BY <1>1 DEF Signal
  <2> QED BY <2>1
<1>2. CASE Connect \/ ConnectFails \/ ExitCancelled
  <2>1. CASE Connect
    BY <2>1 DEF Connect
  <2>2. CASE ConnectFails
    BY <2>2 DEF ConnectFails, Exit
  <2>3. CASE ExitCancelled
    BY <2>3 DEF ExitCancelled, Exit
  <2> QED BY <1>2, <2>1, <2>2, <2>3
<1>3. CASE FirstRefresh \/ FirstRefreshFails
  <2>1. CASE FirstRefresh
    BY <2>1 DEF FirstRefresh
  <2>2. CASE FirstRefreshFails
    BY <2>2 DEF FirstRefreshFails, Exit
  <2> QED BY <1>3, <2>1, <2>2
<1>4. CASE Wake \/ RefreshEnds \/ RefreshPanics \/ ReturnCancelled
  <2>1. CASE Wake \/ RefreshEnds
    BY <2>1 DEF Wake, RefreshEnds
  <2>2. CASE ReturnCancelled
    BY <2>2 DEF ReturnCancelled
  <2>3. CASE RefreshPanics
    BY <2>3 DEF RefreshPanics, Exit
  <2> QED BY <1>4, <2>1, <2>2, <2>3
<1>5. CASE Listen \/ ListenFails \/ Shutdown
  BY <1>5 DEF Listen, ListenFails, Shutdown
<1>6. CASE \E c \in Clients : Accept(c) \/ Answer(c)
  BY <1>6 DEF Accept, Answer
<1>7. CASE \E w \in Workers : TriggeredEnds(w) \/ TriggeredPanics(w)
  <2>1. CASE \E w \in Workers : TriggeredEnds(w)
    BY <2>1 DEF TriggeredEnds
  <2>2. CASE \E w \in Workers : TriggeredPanics(w)
    BY <2>2 DEF TriggeredPanics, Exit
  <2> QED BY <1>7, <2>1, <2>2
<1>8. CASE UNCHANGED vars
  BY <1>8 DEF vars
<1> QED BY <1>1, <1>2, <1>3, <1>4, <1>5, <1>6, <1>7, <1>8 DEF Next, Main

LEMMA Invariance == Spec => []StageInv
<1>1. Init => StageInv
  BY DEF Init, StageInv, TypeOK, ExitTellsWhy, SourceOpenForRun, Up
<1> QED BY <1>1, NextKeeps, PTL DEF Spec

\* For any number of requests and triggered refreshes every variable keeps its
\* type, and there is an exit code when, and only when, the process has ended.
THEOREM TypeCorrect == Spec => []TypeOK
<1>1. StageInv => TypeOK
  BY DEF StageInv
<1> QED BY <1>1, Invariance, PTL

\* For any number of requests and triggered refreshes: the exit code is 0 only
\* after a signal and a successful first refresh, and 1 only without one.
THEOREM CleanExit == Spec => []ExitTellsWhy
<1>1. StageInv => ExitTellsWhy
  BY DEF StageInv
<1> QED BY <1>1, Invariance, PTL

\* For any number of requests and triggered refreshes: the identity source is
\* open whenever Run refreshes, whatever else a signal has shut down by then.
THEOREM SourceStaysOpen == Spec => []SourceOpenForRun
<1>1. StageInv => SourceOpenForRun
  BY DEF StageInv
<1> QED BY <1>1, Invariance, PTL

=============================================================================
