---- MODULE SessionLifecycle ----
(***************************************************************************)
(* The life of agent sessions and of the terminals they own: creation,     *)
(* stop, removal, the exit of the pty, the close of the workspace and a    *)
(* crash of the server (session/manager.ts, terminal/manager.ts,           *)
(* auth/session-token-repo.ts and the commands that call them).            *)
(*                                                                         *)
(* Session and terminal are created together, so one record describes both. *)
(* An action is the code between two awaits.  The turns inside a live      *)
(* session are the subject of SessionTurns.tla; here it is just "live".    *)
(*                                                                         *)
(* The rows and the metadata are files of their own, written one by one,   *)
(* and a write may throw: an action has an outcome for each write of       *)
(* theirs that may be its last, and a crash may come between two writes.   *)
(***************************************************************************)
EXTENDS Integers, FiniteSets

CONSTANTS
    Sessions,       \* session.create commands that may be issued
    Workspaces,
    Callers,        \* clients that stop or close something
    MaxFaults,      \* bound: crashes of the server, spawns and writes that throw
    None            \* no value

ASSUME LifecycleAssumption ==
    /\ MaxFaults \in Nat
    /\ IsFiniteSet(Sessions)
    /\ None \notin Sessions \cup Workspaces

VARIABLES
    agent,      \* session -> its session, terminal and rows: see Agent
    home,       \* session -> its workspace
    making,     \* session -> where its session.create command is
    open,       \* workspaces the repository holds
    tear,       \* workspace -> where its teardown is
    todo,       \* workspace -> sessions stopForWorkspace still has to stop
    waiting,    \* workspace -> terminals its teardown awaits
    stored,     \* workspace -> sessions with a row when its teardown began
    call,       \* caller -> the stop or close it awaits
    faults,     \* number of crashes and failures (for the bound)
    late,       \* history: sessions with no row yet when the rows of their workspace were listed
    stray,      \* history: sessions whose row was deleted and their metadata not, or not yet written
    unsaved     \* history: sessions that ended since the last start without that being written

vars == <<agent, home, making, open, tear, todo, waiting, stored, call, faults,
          late, stray, unsaved>>

\* state        the session in the manager's map
\* row, meta    sessions.json and the metadata, which survive a crash; a "lost"
\*              row says that the session ended but not when
\* token        the automation token handed to the agent
\* linked       terminalToSession knows the terminal
\* term         the terminal in the manager's map, and whether it is alive
\* died         the process is gone and onExit has not run
\* signalled    pty.kill was called for a process that has not exited
\* waiter       explicitCloseWaiters: the kill is under way, or has completed
\* disposed     finalizeTerminal calls
Agent == [state : {"none", "live", "ended"},
          row : {"none", "live", "ended", "lost"},
          meta : BOOLEAN, token : BOOLEAN, linked : BOOLEAN,
          term : {"none", "alive", "dead", "gone"},
          died : BOOLEAN, signalled : BOOLEAN,
          waiter : {"none", "killing", "killed"},
          disposed : {0, 1}]

Unborn == [state |-> "none", row |-> "none", meta |-> FALSE, token |-> FALSE, linked |-> FALSE,
           term |-> "none", died |-> FALSE, signalled |-> FALSE, waiter |-> "none", disposed |-> 0]

Idle == [op |-> "none", session |-> None, step |-> "none"]

Held(s) == agent[s].state # "none"

OfWorkspace(w) == {s \in Sessions : home[s] = w}

----------------------------------------------------------------------------
\* What the managers' functions do to one session or terminal.

\* finishSession, for a session that has not ended; the row is written last.
Finished(a, saved) ==
    IF a.state = "live"
    THEN [a EXCEPT !.state = "ended", !.linked = FALSE, !.token = FALSE,
                   !.row = IF saved /\ @ # "none" THEN "ended" ELSE @]
    ELSE a

\* MUTANT of Disposed: a terminal already out of the map is disposed again.
DisposedAgain(a) == [a EXCEPT !.term = "gone", !.disposed = @ + 1]

\* finalizeTerminal, guarded by the flag of the waiter or by the map.
Disposed(a) ==
    IF a.term = "gone" THEN a ELSE [a EXCEPT !.term = "gone", !.disposed = @ + 1]

\* TerminalManager.close up to the promise it returns: a dead terminal is
\* disposed at once, an alive one is killed unless that was asked for already.
Closing(a) ==
    CASE a.term = "dead" -> Disposed(a)
      [] a.term = "alive" /\ a.waiter = "none" -> [a EXCEPT !.waiter = "killing", !.signalled = TRUE]
      [] OTHER -> a

\* That promise has resolved.
ClosedFully(a) == a.waiter = "none" /\ a.term \notin {"alive", "dead"}

\* SessionManager.delete, up to the row and with it.
Forgotten(a) == [a EXCEPT !.state = "none", !.token = FALSE, !.linked = FALSE]

Deleted(a) == [Forgotten(a) EXCEPT !.row = "none"]

\* MUTANT of ExitSeen: with a close under way the exit is not passed on.
ExitSeenByCloser(a, saved) ==
    LET dead == [a EXCEPT !.term = "dead", !.died = FALSE, !.signalled = FALSE]
    IN  IF a.linked /\ a.waiter = "none" THEN Finished(dead, saved) ELSE dead

\* pty.onExit: terminal.exited reaches the session manager within the handler.
ExitSeen(a, saved) ==
    LET dead == [a EXCEPT !.term = "dead", !.died = FALSE, !.signalled = FALSE]
    IN  IF a.linked THEN Finished(dead, saved) ELSE dead

\* Something throws.
Fails == faults < MaxFaults /\ faults' = faults + 1

\* The row of a session that ends in this step, or the write that throws.
Saves(s, saved) ==
    IF saved THEN UNCHANGED <<unsaved, faults>>
             ELSE agent[s].state = "live" /\ unsaved' = unsaved \cup {s} /\ Fails

----------------------------------------------------------------------------
Init ==
    /\ agent = [s \in Sessions |-> Unborn]
    /\ home = [s \in Sessions |-> None]
    /\ making = [s \in Sessions |-> "none"]
    /\ open = Workspaces
    /\ tear = [w \in Workspaces |-> "none"]
    /\ todo = [w \in Workspaces |-> {}]
    /\ waiting = [w \in Workspaces |-> {}]
    /\ stored = [w \in Workspaces |-> {}]
    /\ call = [c \in Callers |-> Idle]
    /\ faults = 0
    /\ late = {}
    /\ stray = {}
    /\ unsaved = {}

teardown == <<open, tear, todo, waiting, stored>>

losses == <<faults, stray, unsaved>>

----------------------------------------------------------------------------
\* session.create: the workspace is looked up, then the provider's status and
\* the agent instructions are awaited.
CreateChecks(s, w) ==
    /\ making[s] = "none"
    /\ w \in open
    /\ making' = [making EXCEPT ![s] = "checked"]
    /\ home' = [home EXCEPT ![s] = w]
    /\ late' = IF tear[w] # "none" THEN late \cup {s} ELSE late
    /\ UNCHANGED <<agent, teardown, call, losses>>

\* SessionManager.create, and the start of the read of the git head.
CreateRegisters(s) ==
    /\ making[s] = "checked"
    /\ agent' = [agent EXCEPT ![s] =
           [Unborn EXCEPT !.state = "live", !.row = "live", !.token = TRUE, !.linked = TRUE,
                          !.term = "alive"]]
    /\ making' = [making EXCEPT ![s] = "created"]
    /\ UNCHANGED <<home, teardown, call, late, losses>>

\* What an error in create leaves behind: it revokes the token and nothing else.
FailedAt(at) ==
    CASE at = "spawn" -> Unborn
      [] at = "terminal row" -> [Unborn EXCEPT !.term = "alive"]
      [] at = "session row" -> [Unborn EXCEPT !.state = "live", !.linked = TRUE, !.term = "alive"]

CreateFails(s, at) ==
    /\ making[s] = "checked"
    /\ agent' = [agent EXCEPT ![s] = FailedAt(at)]
    /\ making' = [making EXCEPT ![s] = "done"]
    /\ Fails
    /\ UNCHANGED <<home, teardown, call, late, stray, unsaved>>

\* The git head was read: the metadata is written, whatever became of the session,
\* unless its workspace is closed or the write throws.
CreateRecords(s, written) ==
    /\ making[s] = "created"
    /\ written => home[s] \in open
    /\ IF home[s] \in open /\ ~written THEN Fails ELSE UNCHANGED faults
    /\ agent' = [agent EXCEPT ![s].meta = written]
    /\ making' = [making EXCEPT ![s] = "done"]
    /\ UNCHANGED <<home, teardown, call, late, stray, unsaved>>

----------------------------------------------------------------------------
\* The process goes by itself, by SIGTERM, or by the SIGKILL that follows.
Dies(s) ==
    /\ agent[s].term = "alive"
    /\ ~agent[s].died
    /\ agent' = [agent EXCEPT ![s].died = TRUE]
    /\ UNCHANGED <<home, making, teardown, call, late, losses>>

\* escalateKillWithPolling is over: the process was seen gone or got SIGKILL.
KillCompletes(s) ==
    /\ agent[s].waiter = "killing"
    /\ agent' = [agent EXCEPT ![s].waiter = "killed"]
    /\ UNCHANGED <<home, making, teardown, call, late, losses>>

\* What the handlers of terminal.exited throw, the event bus catches.
ExitEvent(s, saved) ==
    /\ agent[s].died
    /\ Saves(s, saved)
    /\ agent' = [agent EXCEPT ![s] = ExitSeen(@, saved)]
    /\ UNCHANGED <<home, making, teardown, call, late, stray>>

\* MUTANT of Settled: the promise is left pending when close() was first to dispose.
SettledByFirst(a) == IF a.term = "gone" THEN a ELSE [Disposed(a) EXCEPT !.waiter = "none"]

\* The kill completed after the exit: the terminal is disposed and the promise resolved.
Settled(a) == [Disposed(a) EXCEPT !.waiter = "none"]

CloseSettles(s) ==
    /\ agent[s].term \in {"dead", "gone"}
    /\ agent[s].waiter = "killed"
    /\ agent' = [agent EXCEPT ![s] = Settled(@)]
    /\ UNCHANGED <<home, making, teardown, call, late, losses>>

\* One second after an exit nobody asked for.
CleanupTimer(s) ==
    /\ agent[s].term = "dead"
    /\ agent[s].waiter = "none"
    /\ agent' = [agent EXCEPT ![s] = Disposed(@)]
    /\ UNCHANGED <<home, making, teardown, call, late, losses>>

----------------------------------------------------------------------------
\* session.stop and session.close of a session that is there, up to the await.
StopCall(c, op, s) ==
    /\ call[c] = Idle
    /\ op \in {"stop", "close"}
    /\ Held(s)
    /\ IF agent[s].state = "ended"
       THEN /\ agent' = [agent EXCEPT ![s].linked = IF op = "stop" THEN FALSE ELSE @]
            /\ call' = [call EXCEPT ![c] =
                   IF op = "stop" THEN Idle ELSE [op |-> op, session |-> s, step |-> "removing"]]
       ELSE /\ agent' = [agent EXCEPT ![s] = Closing(@)]
            /\ call' = [call EXCEPT ![c] = [op |-> op, session |-> s, step |-> "waiting"]]
    /\ UNCHANGED <<home, making, teardown, late, losses>>

\* terminal.close.
CloseCall(c, s) ==
    /\ call[c] = Idle
    /\ agent[s].term \in {"alive", "dead"}
    /\ agent' = [agent EXCEPT ![s] = Closing(@)]
    /\ call' = [call EXCEPT ![c] = [op |-> "terminal", session |-> s, step |-> "waiting"]]
    /\ UNCHANGED <<home, making, teardown, late, losses>>

\* The terminal's promise resolved: stop() finishes a session that has not ended.
\* (There is none, by LiveHasTerminal: its exit has come first.  So there is no
\* write here that could throw.)
CallContinues(c) ==
    LET s == call[c].session IN
    /\ call[c].step = "waiting"
    /\ ClosedFully(agent[s])
    /\ agent' = [agent EXCEPT ![s] = IF call[c].op = "terminal" THEN @ ELSE Finished(@, TRUE)]
    /\ call' = [call EXCEPT ![c] = IF @.op = "close" THEN [@ EXCEPT !.step = "removing"] ELSE Idle]
    /\ UNCHANGED <<home, making, teardown, late, losses>>

Writes == {"map", "row", "metadata"}

\* session.remove takes an ended session out of the map, then deletes its row,
\* then its metadata; "last" is how far it comes.
Removed(a, last) ==
    CASE last = "map" -> Forgotten(a)
      [] last = "row" -> Deleted(a)
      [] last = "metadata" -> [Deleted(a) EXCEPT !.meta = FALSE]

\* The metadata is looked for in the open workspaces, and not written yet while
\* the session's creation goes on.
Removes(s, last) ==
    /\ agent[s].state = "ended"
    /\ \/ last = "map" /\ agent[s].row # "none" /\ Fails
       \/ last = "row" /\ home[s] \in open /\ agent[s].meta /\ Fails
       \/ last = "row" /\ home[s] \notin open /\ UNCHANGED faults
       \/ last = "metadata" /\ home[s] \in open /\ UNCHANGED faults
    /\ agent' = [agent EXCEPT ![s] = Removed(@, last)]
    /\ stray' = IF last = "row" \/ (last = "metadata" /\ making[s] = "created")
                THEN stray \cup {s} ELSE stray

\* The second half of session.close: the pane layout of the workspace, which
\* must be open, and the removal, which is refused for a session removed meanwhile.
CallRemoves(c, last) ==
    LET s == call[c].session
        possible == home[s] \in open /\ agent[s].state = "ended"
    IN
    /\ call[c].step = "removing"
    /\ \/ possible /\ Removes(s, last)
       \/ possible /\ Fails /\ UNCHANGED <<agent, stray>>
       \/ ~possible /\ UNCHANGED <<agent, faults, stray>>
    /\ call' = [call EXCEPT ![c] = Idle]
    /\ UNCHANGED <<home, making, teardown, late, unsaved>>

\* session.remove by itself.
RemoveCall(s, last) ==
    /\ Removes(s, last)
    /\ UNCHANGED <<home, making, teardown, call, late, unsaved>>

----------------------------------------------------------------------------
\* workspace.close: the rows are listed; the language servers and the
\* supervisors of the workspace are awaited.  A session whose creation has not
\* come to its row is not among them.
TeardownBegins(w) ==
    /\ w \in open
    /\ tear[w] = "none"
    /\ tear' = [tear EXCEPT ![w] = "begun"]
    /\ stored' = [stored EXCEPT ![w] = {s \in OfWorkspace(w) : agent[s].row # "none"}]
    /\ late' = (late \ OfWorkspace(w)) \cup {s \in OfWorkspace(w) : making[s] = "checked"}
    /\ UNCHANGED <<agent, home, making, open, todo, waiting, call, losses>>

\* stopForWorkspace takes the sessions of the moment.
TeardownStops(w) ==
    /\ tear[w] = "begun"
    /\ tear' = [tear EXCEPT ![w] = "stopping"]
    /\ todo' = [todo EXCEPT ![w] = {s \in OfWorkspace(w) : Held(s)}]
    /\ UNCHANGED <<agent, home, making, open, waiting, stored, call, late, losses>>

\* The next session: nothing to await for an ended one.
TeardownStop(w, s) ==
    /\ tear[w] = "stopping"
    /\ waiting[w] = {}
    /\ s \in todo[w]
    /\ IF agent[s].state = "live"
       THEN /\ agent' = [agent EXCEPT ![s] = Closing(@)]
            /\ waiting' = [waiting EXCEPT ![w] = {s}]
            /\ UNCHANGED todo
       ELSE /\ agent' = [agent EXCEPT ![s].linked = FALSE]
            /\ todo' = [todo EXCEPT ![w] = @ \ {s}]
            /\ UNCHANGED waiting
    /\ UNCHANGED <<home, making, open, tear, stored, call, late, losses>>

\* The rest of stop() for that session, as in CallContinues.
TeardownStopped(w, s) ==
    /\ tear[w] = "stopping"
    /\ s \in waiting[w]
    /\ ClosedFully(agent[s])
    /\ agent' = [agent EXCEPT ![s] = Finished(@, TRUE)]
    /\ waiting' = [waiting EXCEPT ![w] = {}]
    /\ todo' = [todo EXCEPT ![w] = @ \ {s}]
    /\ UNCHANGED <<home, making, open, tear, stored, call, late, losses>>

\* Something the teardown does throws: the close is rejected, the workspace stays open.
Abandoned(w) ==
    /\ tear' = [tear EXCEPT ![w] = "none"]
    /\ todo' = [todo EXCEPT ![w] = {}]
    /\ waiting' = [waiting EXCEPT ![w] = {}]
    /\ stored' = [stored EXCEPT ![w] = {}]
    /\ UNCHANGED <<home, making, open, call, late>>

\* The supervisors or a language server cannot be removed.
TeardownRefused(w) ==
    /\ tear[w] = "begun"
    /\ Fails
    /\ Abandoned(w)
    /\ UNCHANGED <<agent, stray, unsaved>>

\* closeForWorkspace: every terminal of the workspace, with or without a session.
TeardownCloses(w) ==
    LET here == {s \in OfWorkspace(w) : agent[s].term \in {"alive", "dead"}} IN
    /\ tear[w] = "stopping"
    /\ todo[w] = {}
    /\ tear' = [tear EXCEPT ![w] = "closing"]
    /\ agent' = [s \in Sessions |-> IF s \in here THEN Closing(agent[s]) ELSE agent[s]]
    /\ waiting' = [waiting EXCEPT ![w] = here]
    /\ UNCHANGED <<home, making, open, todo, stored, call, late, losses>>

\* MUTANT of Cleared: the metadata is looked for by the rows that are left.
ClearedByRows(s, ended, rows, metas) ==
    LET left == IF s \in ended THEN Deleted(agent[s]) ELSE agent[s]
    IN  [left EXCEPT !.row = IF s \in rows THEN "none" ELSE @,
                     !.meta = @ /\ ~(s \in metas /\ left.row # "none")]

\* deleteEndedForWorkspace came through "ended"; of the rows listed at the
\* beginning, "rows" were deleted, and of these "metas" with their metadata.
Cleared(s, ended, rows, metas) ==
    LET left == IF s \in ended THEN Deleted(agent[s]) ELSE agent[s]
    IN  [left EXCEPT !.row = IF s \in rows THEN "none" ELSE @, !.meta = @ /\ s \notin metas]

Ended(w) == {s \in OfWorkspace(w) : agent[s].state = "ended"}

TeardownEnds(w) ==
    /\ tear[w] = "closing"
    /\ \A s \in waiting[w] : ClosedFully(agent[s])
    /\ agent' = [s \in Sessions |-> Cleared(s, Ended(w), stored[w], stored[w])]
    /\ open' = open \ {w}
    /\ tear' = [tear EXCEPT ![w] = "none"]
    /\ waiting' = [waiting EXCEPT ![w] = {}]
    /\ stored' = [stored EXCEPT ![w] = {}]
    /\ UNCHANGED <<home, making, todo, call, late, losses>>

\* It came only so far: to the row of an ended session, the memory or the canvas,
\* a listed row, its metadata, or the workspace's own row.
Halfway(w, ended, rows, metas) ==
    /\ tear[w] = "closing"
    /\ \A s \in waiting[w] : ClosedFully(agent[s])
    /\ rows # {} => ended = Ended(w)
    /\ metas \subseteq rows
    /\ Cardinality(rows \ metas) <= 1
    /\ stray' = stray \cup {s \in ended \cup rows : IF s \in metas THEN making[s] = "created"
                                                     ELSE agent[s].meta \/ making[s] = "created"}

\* The next write throws.
TeardownFails(w, ended, rows, metas) ==
    /\ Halfway(w, ended, rows, metas)
    /\ Fails
    /\ agent' = [s \in Sessions |-> Cleared(s, ended, rows, metas)]
    /\ Abandoned(w)
    /\ UNCHANGED unsaved

----------------------------------------------------------------------------
\* MUTANT of Hydrated: the ended state is not written back.
HydratedUnsaved(a) ==
    LET left == [Unborn EXCEPT !.row = a.row, !.meta = a.meta,
                               !.term = IF a.term = "none" THEN "none" ELSE "gone"]
    IN  IF a.row \in {"live", "lost"} THEN [left EXCEPT !.state = "ended", !.linked = TRUE] ELSE left

\* What hydrate makes of a session after a restart.  It takes the rows with no
\* end time; the pty is gone, so the session has ended, and its row is told so
\* but gets no end time.  A row that has one stays on disk only.
Hydrated(a) ==
    LET left == [Unborn EXCEPT !.row = a.row, !.meta = a.meta,
                               !.term = IF a.term = "none" THEN "none" ELSE "gone"]
    IN  IF a.row \in {"live", "lost"}
        THEN [left EXCEPT !.state = "ended", !.row = "lost", !.linked = TRUE]
        ELSE left

\* The server dies, with "left" of the sessions, and starts again; every command
\* in flight is forgotten.
Restart(left) ==
    /\ Fails
    /\ agent' = [s \in Sessions |-> Hydrated(left[s])]
    /\ making' = [s \in Sessions |-> IF making[s] = "none" THEN "none" ELSE "done"]
    /\ tear' = [w \in Workspaces |-> "none"]
    /\ todo' = [w \in Workspaces |-> {}]
    /\ waiting' = [w \in Workspaces |-> {}]
    /\ stored' = [w \in Workspaces |-> {}]
    /\ call' = [c \in Callers |-> Idle]
    /\ unsaved' = {}
    /\ UNCHANGED <<home, open, late>>

Crash == Restart(agent) /\ UNCHANGED stray

\* Between the two writes of session.remove.
CrashRemoving(s) ==
    /\ agent[s].state = "ended"
    /\ agent[s].meta
    /\ stray' = stray \cup {s}
    /\ Restart([agent EXCEPT ![s] = Deleted(@)])

\* Between two writes of workspace.close.
CrashClosing(w, ended, rows, metas) ==
    /\ Halfway(w, ended, rows, metas)
    /\ Restart([s \in Sessions |-> Cleared(s, ended, rows, metas)])

Next ==
    \/ \E s \in Sessions, w \in Workspaces : CreateChecks(s, w)
    \/ \E s \in Sessions, at \in {"spawn", "terminal row", "session row"} : CreateFails(s, at)
    \/ \E s \in Sessions : CreateRegisters(s)
    \/ \E s \in Sessions, written \in BOOLEAN : CreateRecords(s, written)
    \/ \E s \in Sessions : Dies(s) \/ KillCompletes(s) \/ CloseSettles(s) \/ CleanupTimer(s)
    \/ \E s \in Sessions, saved \in BOOLEAN : ExitEvent(s, saved)
    \/ \E c \in Callers, s \in Sessions : StopCall(c, "stop", s) \/ StopCall(c, "close", s) \/ CloseCall(c, s)
    \/ \E c \in Callers : CallContinues(c)
    \/ \E c \in Callers, last \in Writes : CallRemoves(c, last)
    \/ \E s \in Sessions, last \in Writes : RemoveCall(s, last)
    \/ \E w \in Workspaces : TeardownBegins(w) \/ TeardownStops(w) \/ TeardownCloses(w) \/ TeardownEnds(w)
    \/ \E w \in Workspaces, s \in Sessions : TeardownStop(w, s) \/ TeardownStopped(w, s)
    \/ \E w \in Workspaces : TeardownRefused(w)
    \/ \E w \in Workspaces : \E ended \in SUBSET Ended(w), rows, metas \in SUBSET stored[w] :
          TeardownFails(w, ended, rows, metas) \/ CrashClosing(w, ended, rows, metas)
    \/ \E s \in Sessions : CrashRemoving(s)
    \/ Crash

\* A killed process dies (SIGKILL follows SIGTERM); Node delivers exits, timers
\* and continuations.  Nobody has to create, stop or close anything.
Fairness ==
    /\ \A s \in Sessions :
         /\ WF_vars(Dies(s) /\ agent[s].signalled)
         /\ WF_vars(\E saved \in BOOLEAN : ExitEvent(s, saved))
         /\ WF_vars(KillCompletes(s))
         /\ WF_vars(CloseSettles(s))
    /\ \A c \in Callers :
         WF_vars(\/ CallContinues(c)
                 \/ \E last \in Writes : CallRemoves(c, last))
    /\ \A w \in Workspaces :
         WF_vars(\/ TeardownStops(w) \/ TeardownCloses(w) \/ TeardownEnds(w)
                 \/ \E s \in Sessions : TeardownStop(w, s) \/ TeardownStopped(w, s))

Spec == Init /\ [][Next]_vars /\ Fairness

----------------------------------------------------------------------------
\* The values: terminalToSession leads only to sessions the manager holds, and a
\* terminal is disposed once, by whoever of its exit, a second close and the
\* cleanup timer comes first.
TypeOK ==
    /\ agent \in [Sessions -> Agent]
    /\ \A s \in Sessions : agent[s].linked => Held(s)
    /\ home \in [Sessions -> Workspaces \cup {None}]
    /\ making \in [Sessions -> {"none", "checked", "created", "done"}]
    /\ open \subseteq Workspaces
    /\ tear \in [Workspaces -> {"none", "begun", "stopping", "closing"}]
    /\ todo \in [Workspaces -> SUBSET Sessions]
    /\ waiting \in [Workspaces -> SUBSET Sessions]
    /\ stored \in [Workspaces -> SUBSET Sessions]
    /\ call \in [Callers -> [op : {"none", "stop", "close", "terminal"},
                             session : Sessions \cup {None},
                             step : {"none", "waiting", "removing"}]]
    /\ faults \in Nat
    /\ late \subseteq Sessions
    /\ stray \subseteq Sessions
    /\ unsaved \subseteq Sessions

\* A live session has a terminal that is alive and leads back to it: no order
\* of exits, closes and cleanups leaves a session that nobody can stop.
LiveHasTerminal ==
    \A s \in Sessions : agent[s].state = "live" => agent[s].term = "alive" /\ agent[s].linked

\* The token of an agent is valid only while its session is live, however the
\* session ended and wherever its creation failed.  Its row says that it lives
\* only while it does, also after a crash, or until the next start if finishSession
\* could not write it.
OnlyTheLiving ==
    \A s \in Sessions :
      /\ agent[s].token => agent[s].state = "live"
      /\ agent[s].row = "live" => agent[s].state = "live" \/ s \in unsaved

\* Nothing of a session is left but, if its row was deleted without it, metadata.
Clean(s) ==
    /\ ~Held(s)
    /\ agent[s].row = "none" /\ ~agent[s].token
    /\ agent[s].term \in {"none", "gone"}
    /\ agent[s].meta => s \in stray

\* Closing a workspace leaves nothing of a session that had its row when the
\* close began: also after crashes, and after closes and removals that failed
\* half way, which leave rows the close finds.  Two things it does leave: what
\* session.create goes on to make for a session without a row (late), and
\* metadata whose row was deleted before it, since metadata is found by rows
\* (stray).
CloseLeavesNothing == \A s \in Sessions : home[s] \in Workspaces \ open => s \in late \/ Clean(s)

\* Every stop and close returns, and so does the close of a workspace.
CallsReturn ==
    /\ \A c \in Callers : call[c] # Idle ~> call[c] = Idle
    /\ \A w \in Workspaces : tear[w] # "none" ~> tear[w] = "none"
====
