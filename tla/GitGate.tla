------------------------------- MODULE GitGate -------------------------------
(***************************************************************************)
(* Network operations on the git repositories of the workspaces: the       *)
(* scheduler that fetches in the background                                *)
(* (packages/server/src/git/auto-fetch.ts), the viewers that keep it       *)
(* going, the commands git.push, git.pull and git.fetch, and the gate      *)
(* runExclusive they are meant to share.                                   *)
(*                                                                         *)
(* One action is one stretch of JavaScript between two awaits.  The        *)
(* workspaces of one timer tick are independent, so a tick is an action    *)
(* per workspace.  Time is what the code compares: whether anything has    *)
(* elapsed since the last fetch, whether the open-time cooldown lasts,     *)
(* whether the next fetch is due.                                          *)
(***************************************************************************)
EXTENDS Naturals, FiniteSets, Sequences

CONSTANTS
  Clients,      \* sockets of browsers, each looking at one workspace
  Workspaces,   \* names of workspaces a client may send
  Openable,     \* bound: the ones among them that users open
  Calls,        \* network commands a user gives, each at most once
  Contexts,     \* contexts that a command may run in, see Acquire
  MaxFailures,  \* MAX_CONSECUTIVE_FAILURES
  MaxTimers,    \* bound: open-time fetches that wait for their timer
  None          \* no workspace

ASSUME GateAssumption ==
  /\ None \notin Workspaces
  /\ Openable \subseteq Workspaces
  /\ IsFiniteSet(Clients)
  /\ MaxFailures \in Nat \ {0}
  /\ MaxTimers \in Nat
  /\ Contexts \subseteq {"gated", "bare"}
  /\ Calls \cap Workspaces = {}

VARIABLES
  viewing,     \* clientWorkspaceMap
  state,       \* workspaceStateMap: a WorkspaceFetchState each
  fetch,       \* the scheduler's own fetch of each workspace
  call,        \* where each command is
  openTimers,  \* zero timers of triggerOpenTimeFetch
  known,       \* the workspaces of the workspace manager
  periodic,    \* the setting git.autofetchPeriodSec is positive
  stopped

vars == <<viewing, state, fetch, call, openTimers, known, periodic, stopped>>

(* A push records no fetch; a pull and a fetch do.                         *)
Kinds == {"push", "pull"}

FetchState ==
  [viewers : 0..Cardinality(Clients), last : {"never", "now", "past"},
   cooling : BOOLEAN, failures : 0..MaxFailures, inFlight : BOOLEAN,
   blocked : BOOLEAN, next : {"none", "later", "due"}, waiters : Seq(Calls)]

Idle == [at |-> "idle", mode |-> "open", stale |-> FALSE]

Unused == [at |-> "unused", ws |-> None, kind |-> "push", ctx |-> "bare"]
Done   == [Unused EXCEPT !.at = "done"]

Init ==
  /\ viewing = [c \in Clients |-> None]
  /\ state = [w \in Workspaces |->
       [viewers |-> 0, last |-> "never", cooling |-> FALSE, failures |-> 0,
        inFlight |-> FALSE, blocked |-> FALSE, next |-> "none",
        waiters |-> <<>>]]
  /\ fetch = [w \in Workspaces |-> Idle]
  /\ call = [o \in Calls |-> Unused]
  /\ openTimers = [w \in Workspaces |-> 0]
  /\ known \in SUBSET Openable
  /\ periodic = TRUE
  /\ stopped = FALSE

-----------------------------------------------------------------------------
(* The next periodic fetch.                                                *)

NextTimes(s) ==
  CASE s.last = "never" -> {"due"}
    [] s.last = "now"   -> {"later"}
    [] OTHER            -> {"later", "due"}

Scheduled(s, reset) ==
  IF \/ ~periodic \/ s.viewers = 0 \/ s.blocked \/ s.inFlight
     \/ ~reset /\ s.next # "none"
    THEN {s}
    ELSE {[s EXCEPT !.next = n] : n \in NextTimes(s)}

Succeeded(s) ==
  Scheduled([s EXCEPT !.last = "now", !.cooling = TRUE, !.failures = 0,
                      !.blocked = FALSE, !.next = "none"], TRUE)

(* Mutant: failures are counted and never looked at again.                 *)
FailedOpenly(s) ==
  Scheduled([s EXCEPT !.failures = @ + 1, !.next = "none"], TRUE)

Failed(s) ==
  LET f == [s EXCEPT !.failures = @ + 1, !.next = "none"]
  IN IF f.failures >= MaxFailures
       THEN {[f EXCEPT !.blocked = TRUE]}
       ELSE Scheduled(f, TRUE)

-----------------------------------------------------------------------------
(* Viewers.                                                                *)

Left(s) ==
  LET n == s.viewers - 1
  IN IF n = 0
       THEN [s EXCEPT !.viewers = 0, !.blocked = FALSE, !.failures = 0,
                      !.next = "none"]
       ELSE [s EXCEPT !.viewers = n]

Joined(s) ==
  Scheduled(IF s.viewers = 0
              THEN [s EXCEPT !.viewers = 1, !.blocked = FALSE, !.failures = 0]
              ELSE [s EXCEPT !.viewers = @ + 1], FALSE)

(* Mutant: registering does not leave the workspace before.                *)
AfterStaying(c) == state

(* The workspaces' states once client c has left what it viewed.           *)
AfterLeaving(c) ==
  [w \in Workspaces |-> IF viewing[c] = w THEN Left(state[w]) ELSE state[w]]

RegisterViewer(c, w) ==
  /\ ~stopped
  /\ viewing[c] # w
  /\ viewing' = [viewing EXCEPT ![c] = w]
  /\ \E s \in Joined(AfterLeaving(c)[w]) :
       state' = [AfterLeaving(c) EXCEPT ![w] = s]
  /\ UNCHANGED <<fetch, call, openTimers, known, periodic, stopped>>

(* workspace.deactivate, or the client's socket closes.                    *)
UnregisterViewer(c) ==
  /\ viewing[c] # None
  /\ viewing' = [viewing EXCEPT ![c] = None]
  /\ state' = AfterLeaving(c)
  /\ UNCHANGED <<fetch, call, openTimers, known, periodic, stopped>>

-----------------------------------------------------------------------------
(* The gate.  acquireWorkspaceOperation grants at once or queues; release  *)
(* hands the gate to the first waiter, whose operation starts running.     *)

Granted(s) == [s EXCEPT !.inFlight = TRUE, !.next = "none"]

(* The queue is shifted.                                                   *)
TakeWaiter(q) == [taken |-> Head(q), rest |-> Tail(q)]

(* Mutant: release opens the gate and leaves the queue where it is.        *)
ReleasedToNobody(s) == Scheduled([s EXCEPT !.inFlight = FALSE], TRUE)

Released(s) ==
  IF s.waiters # <<>>
    THEN {[s EXCEPT !.waiters = TakeWaiter(@).rest, !.next = "none"]}
    ELSE Scheduled([s EXCEPT !.inFlight = FALSE], TRUE)

(* Whom the release of w wakes: its operation runs.                        *)
Woken(w, calls) ==
  IF state[w].waiters = <<>> THEN calls
  ELSE [calls EXCEPT ![TakeWaiter(state[w].waiters).taken].at = "running"]

-----------------------------------------------------------------------------
(* Commands.  A context without autoFetch runs the operation as it is.     *)

Acquire(o, w, kind, ctx) ==
  LET started(at) == [call EXCEPT ![o] =
                       [at |-> at, ws |-> w, kind |-> kind, ctx |-> ctx]]
  IN \/ /\ ctx = "bare"
        /\ call' = started("running")
        /\ UNCHANGED state
     \/ /\ ctx = "gated" /\ ~state[w].inFlight
        /\ call' = started("running")
        /\ state' = [state EXCEPT ![w] = Granted(@)]
     \/ /\ ctx = "gated" /\ state[w].inFlight
        /\ call' = started("waiting")
        /\ state' = [state EXCEPT ![w].waiters = Append(@, o)]

NetworkCommand(o, w, kind, ctx) ==
  /\ call[o].at = "unused"
  /\ ~stopped
  /\ w \in known
  /\ Acquire(o, w, kind, ctx)
  /\ UNCHANGED <<viewing, fetch, openTimers, known, periodic, stopped>>

(* git exits; the finally of runExclusive releases the gate.               *)
CommandEnds(o, ok) ==
  LET w == call[o].ws
      ended == [call EXCEPT ![o] = IF ok /\ @.kind # "push"
                                     THEN [@ EXCEPT !.at = "recording"]
                                     ELSE Done]
  IN /\ call[o].at = "running"
     /\ \/ /\ call[o].ctx = "bare"
           /\ call' = ended
           /\ UNCHANGED state
        \/ /\ call[o].ctx = "gated"
           /\ call' = Woken(w, ended)
           /\ \E s \in Released(state[w]) : state' = [state EXCEPT ![w] = s]
     /\ UNCHANGED <<viewing, fetch, openTimers, known, periodic, stopped>>

(* recordWorkspaceFetch, after the gate was released: perhaps amid the     *)
(* operation of the next one.                                              *)
CommandRecords(o) ==
  LET w == call[o].ws IN
  /\ call[o].at = "recording"
  /\ call' = [call EXCEPT ![o] = Done]
  /\ \E s \in Succeeded(state[w]) : state' = [state EXCEPT ![w] = s]
  /\ fetch' = [fetch EXCEPT ![w].stale = (fetch[w].at = "granted")]
  /\ UNCHANGED <<viewing, openTimers, known, periodic, stopped>>

-----------------------------------------------------------------------------
(* The scheduler's fetches.                                                *)

(* The synchronous part of fetchWorkspace, with the grant of the gate: the *)
(* gate is free here, so a fetch of the scheduler never waits.             *)
FetchWorkspace(w, mode, s) ==
  IF stopped \/ s.inFlight \/ s.blocked
    THEN /\ state' = [state EXCEPT ![w] = s]
         /\ UNCHANGED fetch
    ELSE IF w \notin known
    THEN /\ state' = [state EXCEPT ![w] = [s EXCEPT !.next = "none"]]
         /\ UNCHANGED fetch
    ELSE /\ state' = [state EXCEPT ![w] = Granted(s)]
         /\ fetch' = [fetch EXCEPT ![w] =
                       [at |-> "granted", mode |-> mode, stale |-> FALSE]]

OpenWorkspace(w) ==
  /\ ~stopped
  /\ known' = known \cup {w}
  /\ openTimers' =
       IF state[w].inFlight \/ state[w].cooling
         THEN openTimers
         ELSE [openTimers EXCEPT ![w] = @ + 1]
  /\ openTimers'[w] <= MaxTimers
  /\ UNCHANGED <<viewing, state, fetch, call, periodic, stopped>>

CloseWorkspace(w) ==
  /\ w \in known
  /\ known' = known \ {w}
  /\ UNCHANGED <<viewing, state, fetch, call, openTimers, periodic, stopped>>

OpenTimer(w) ==
  /\ openTimers[w] > 0
  /\ openTimers' = [openTimers EXCEPT ![w] = @ - 1]
  /\ FetchWorkspace(w, "open", state[w])
  /\ UNCHANGED <<viewing, call, known, periodic, stopped>>

(* evaluateDueFetches for one workspace.                                   *)
Tick(w) ==
  /\ ~stopped
  /\ periodic /\ state[w].viewers > 0
  /\ ~state[w].inFlight /\ ~state[w].blocked
  /\ \E s \in Scheduled(state[w], FALSE) :
       IF s.next = "due"
         THEN FetchWorkspace(w, "periodic", s)
         ELSE state' = [state EXCEPT ![w] = s] /\ UNCHANGED fetch
  /\ UNCHANGED <<viewing, call, openTimers, known, periodic, stopped>>

(* What fetchWorkspace looks at again when it holds the gate.              *)
StillWanted(w) ==
  /\ ~stopped
  /\ ~state[w].blocked
  /\ w \in known
  /\ IF fetch[w].mode = "open" THEN ~state[w].cooling ELSE ~fetch[w].stale

FetchRuns(w) ==
  /\ fetch[w].at = "granted"
  /\ StillWanted(w)
  /\ fetch' = [fetch EXCEPT ![w] = [Idle EXCEPT !.at = "running"]]
  /\ UNCHANGED <<viewing, state, call, openTimers, known, periodic, stopped>>

(* Mutant: the early return does not pass the finally that releases.       *)
FetchGivesUpHolding(w) ==
  /\ fetch[w].at = "granted"
  /\ ~StillWanted(w)
  /\ fetch' = [fetch EXCEPT ![w] = Idle]
  /\ UNCHANGED <<viewing, state, call, openTimers, known, periodic, stopped>>

FetchGivesUp(w) ==
  /\ fetch[w].at = "granted"
  /\ ~StillWanted(w)
  /\ fetch' = [fetch EXCEPT ![w] = Idle]
  /\ call' = Woken(w, call)
  /\ LET s == IF w \notin known /\ ~stopped /\ ~state[w].blocked
                THEN [state[w] EXCEPT !.next = "none"] ELSE state[w]
     IN \E r \in Released(s) : state' = [state EXCEPT ![w] = r]
  /\ UNCHANGED <<viewing, openTimers, known, periodic, stopped>>

FetchEnds(w, ok) ==
  /\ fetch[w].at = "running"
  /\ fetch' = [fetch EXCEPT ![w] = Idle]
  /\ call' = Woken(w, call)
  /\ \E s \in IF ok THEN Succeeded(state[w]) ELSE Failed(state[w]) :
       \E r \in Released(s) : state' = [state EXCEPT ![w] = r]
  /\ UNCHANGED <<viewing, openTimers, known, periodic, stopped>>

-----------------------------------------------------------------------------
(* Time, the setting and the end of the server.                            *)

Elapse(w) ==
  /\ state[w].last = "now"
  /\ state' = [state EXCEPT ![w].last = "past"]
  /\ UNCHANGED <<viewing, fetch, call, openTimers, known, periodic, stopped>>

CoolDown(w) ==
  /\ state[w].last = "past" /\ state[w].cooling
  /\ state' = [state EXCEPT ![w].cooling = FALSE]
  /\ UNCHANGED <<viewing, fetch, call, openTimers, known, periodic, stopped>>

BecomesDue(w) ==
  /\ state[w].last = "past" /\ state[w].next = "later"
  /\ state' = [state EXCEPT ![w].next = "due"]
  /\ UNCHANGED <<viewing, fetch, call, openTimers, known, periodic, stopped>>

ChangePeriod ==
  /\ periodic' = ~periodic
  /\ UNCHANGED <<viewing, state, fetch, call, openTimers, known, stopped>>

Stop ==
  /\ ~stopped
  /\ stopped' = TRUE
  /\ openTimers' = [w \in Workspaces |-> 0]
  /\ UNCHANGED <<viewing, state, fetch, call, known, periodic>>

-----------------------------------------------------------------------------
Next ==
  \/ \E c \in Clients, w \in Workspaces : RegisterViewer(c, w)
  \/ \E c \in Clients : UnregisterViewer(c)
  \/ \E o \in Calls, w \in Workspaces, k \in Kinds, x \in Contexts :
       NetworkCommand(o, w, k, x)
  \/ \E o \in Calls, ok \in BOOLEAN : CommandEnds(o, ok)
  \/ \E o \in Calls : CommandRecords(o)
  \/ \E w \in Openable : OpenWorkspace(w)
  \/ \E w \in Workspaces : CloseWorkspace(w)
  \/ \E w \in Workspaces : OpenTimer(w)
  \/ \E w \in Workspaces : Tick(w)
  \/ \E w \in Workspaces : FetchRuns(w)
  \/ \E w \in Workspaces : FetchGivesUp(w)
  \/ \E w \in Workspaces, ok \in BOOLEAN : FetchEnds(w, ok)
  \/ \E w \in Workspaces : Elapse(w)
  \/ \E w \in Workspaces : CoolDown(w)
  \/ \E w \in Workspaces : BecomesDue(w)
  \/ ChangePeriod
  \/ Stop

(* git is run with a timeout, timers fire and promises settle.  Users,     *)
(* settings and the end of the server are not fair.                        *)
Fairness ==
  /\ \A o \in Calls : /\ WF_vars(\E ok \in BOOLEAN : CommandEnds(o, ok))
                      /\ WF_vars(CommandRecords(o))
  /\ \A w \in Workspaces :
       /\ WF_vars(OpenTimer(w))
       /\ WF_vars(Tick(w))
       /\ WF_vars(FetchRuns(w) \/ FetchGivesUp(w))
       /\ WF_vars(\E ok \in BOOLEAN : FetchEnds(w, ok))
       /\ WF_vars(Elapse(w)) /\ WF_vars(CoolDown(w)) /\ WF_vars(BecomesDue(w))

Spec == Init /\ [][Next]_vars /\ Fairness

-----------------------------------------------------------------------------
(* Shape of the state of the scheduler and of the commands.                *)
TypeOK ==
  /\ viewing \in [Clients -> Workspaces \cup {None}]
  /\ state \in [Workspaces -> FetchState]
  /\ fetch \in [Workspaces -> [at : {"idle", "granted", "running"},
                               mode : {"open", "periodic"}, stale : BOOLEAN]]
  /\ call \in [Calls -> [at : {"unused", "waiting", "running", "recording", "done"},
                         ws : Workspaces \cup {None}, kind : Kinds,
                         ctx : {"gated", "bare"}]]
  /\ openTimers \in [Workspaces -> 0..MaxTimers]
  /\ known \subseteq Openable
  /\ periodic \in BOOLEAN
  /\ stopped \in BOOLEAN

(* The operations that hold the gate of w: commands that went through it   *)
(* and the scheduler's fetch.                                              *)
HoldsGate(o, w) ==
  call[o].at = "running" /\ call[o].ctx = "gated" /\ call[o].ws = w

Holders(w) ==
  {o \in Calls : HoldsGate(o, w)} \cup
  (IF fetch[w].at = "idle" THEN {} ELSE {w})

(* runExclusive: two operations that went through the gate of a workspace  *)
(* are never in it together, and the gate is marked as taken exactly while *)
(* one is in it, so that nobody waits at a gate that nobody holds.         *)
GateExclusive ==
  \A w \in Workspaces :
    /\ \A p, q \in Holders(w) : p = q
    /\ state[w].inFlight <=> Holders(w) # {}
    /\ state[w].waiters # <<>> => state[w].inFlight

(* registerViewer, unregisterViewer: however clients move between          *)
(* workspaces and disappear, a workspace counts those that look at it, and *)
(* one that nobody looks at has neither a schedule nor a block.            *)
ViewersExact ==
  \A w \in Workspaces :
    /\ state[w].viewers = Cardinality({c \in Clients : viewing[c] = w})
    /\ state[w].viewers = 0 => state[w].next = "none"

(* A workspace is blocked exactly when it failed as often in a row as the  *)
(* limit says, so a block always ends with a success or a new first        *)
(* viewer, and failing does not go on behind it.                           *)
BlockedAtLimit ==
  \A w \in Workspaces : state[w].blocked <=> state[w].failures = MaxFailures

(* A command that waits at the gate gets through and ends.                 *)
CommandsEnd == \A o \in Calls : call[o].at = "waiting" ~> call[o].at = "done"

Cared(w) ==
  /\ w \in known /\ periodic /\ ~stopped
  /\ state[w].viewers > 0 /\ ~state[w].blocked

(* The schedule never falls asleep: a workspace that stays open, viewed    *)
(* and unblocked while fetching is on is fetched or freshly fetched again  *)
(* and again.                                                              *)
ViewedIsFetched ==
  \A w \in Workspaces : <>[]Cared(w) => []<>(fetch[w].at = "running")

(* docs/product-spec/modules/git.zh-CN.md, GIT-006: network operations are *)
(* serialised by the gate.  No two of them are under way in a workspace.   *)
InNetwork(w) ==
  {o \in Calls : call[o].at = "running" /\ call[o].ws = w} \cup
  (IF fetch[w].at = "running" THEN {w} ELSE {})

NetworkExclusive ==
  \A w \in Workspaces : \A p, q \in InNetwork(w) : p = q
==============================================================================
