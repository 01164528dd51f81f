--------------------------- MODULE LanguageServer ---------------------------
(***************************************************************************)
(* The language server of one workspace and language: LspManager with its  *)
(* map of sessions (lsp/manager.ts), LspSession with its child processes   *)
(* (lsp/session.ts) and the document it has open.                          *)
(*                                                                         *)
(* A command of the browser suspends while the tool is resolved, for vue   *)
(* once more while that of the companion is, while a start is pending, and *)
(* while a query is unanswered.  The session may be disposed at each of    *)
(* them, by its idle timer, the runtime mode, the closing of the workspace *)
(* or the failure of another command, and its server may exit.  When a     *)
(* start settles, everyone who waits for it continues before anything else *)
(* happens: such callers are due.                                          *)
(***************************************************************************)
EXTENDS Naturals, FiniteSets

CONSTANTS Callers,    \* commands of browsers, by the connection they use
          Texts,      \* contents of the document
          None,       \* the document is not open
          Companion,  \* a companion runs beside the server (vue)
          MaxCalls,   \* bound on commands that reach the tool manager
          MaxStarts,  \* bound on starts of servers
          MaxExits    \* bound on processes that exit unasked

ASSUME ServerAssumption ==
  /\ None \notin Texts
  /\ Companion \in BOOLEAN
  /\ MaxCalls \in Nat
  /\ MaxStarts \in Nat
  /\ MaxExits \in Nat

Ops == {"ensure", "open", "change", "query"}

\* A command creates at most one session and starts at most two servers:
\* with MaxStarts = 2 * MaxCalls the bound is never met.
Sessions == 1..MaxCalls
Servers == 1..MaxStarts
Docs == Texts \cup {None}

VARIABLES mode,        \* runtimeMode
          closing,     \* the teardown of the workspace has disposed its sessions
          current,     \* the session in the map, 0: none
          idle,        \* the entry has a timer
          session,     \* the sessions ever created
          server,      \* the processes of each start
          registered,  \* root of the managed process registry, 0: none
          call,        \* the command of each caller
          made, calls, started, exits,   \* counters
          abandoned    \* history: servers no longer held, and not told to end

vars == <<mode, closing, current, idle, session, server, registered, call,
          made, calls, started, exits, abandoned>>

\* ended: exited, or sent SIGTERM.  No session holds it then, so its exit
\* event does nothing; what it wrote before may still arrive.
Process == {"none", "running", "ended"}

\* child: the server it talks to; pending: the one its start waits for.
Session == [child : 0..MaxStarts, pending : 0..MaxStarts,
            ready : BOOLEAN, doc : Docs]
NewSession == [child |-> 0, pending |-> 0, ready |-> FALSE, doc |-> None]

\* main: the language server, mate: its companion, view: what they were sent.
Server == [main : Process, mate : Process, view : Docs]
NoServer == [main |-> "none", mate |-> "none", view |-> None]

Call == [at : {"returned", "resolve", "compose", "start", "op", "opstart", "query"},
         due : {"no", "ok", "error", "timeout"}, op : Ops, text : Docs,
         session : 0..MaxCalls]

NoCall == [at |-> "returned", due |-> "no", op |-> "ensure", text |-> None, session |-> 0]

Returned(k) == [call EXCEPT ![k] = NoCall]

\* Continuations of settled promises run before the next event.
Quiet == \A k \in Callers : call[k].due = "no"

Init ==
  /\ mode = "auto" /\ closing = FALSE
  /\ current = 0 /\ idle = FALSE
  /\ session = [s \in Sessions |-> NewSession]
  /\ server = [c \in Servers |-> NoServer]
  /\ registered = 0
  /\ call = [k \in Callers |-> NoCall]
  /\ made = 0 /\ calls = 0 /\ started = 0 /\ exits = 0
  /\ abandoned = {}

----------------------------------------------------------------------------
(* Processes and the disposal of a session.                                *)

Ended(p) == IF p = "running" THEN "ended" ELSE p

\* Mutant of Killed: the companion is forgotten.
KilledMainOnly(c) ==
  [i \in Servers |-> IF i = c THEN [server[i] EXCEPT !.main = Ended(@)] ELSE server[i]]

\* stop and recoverFromRequestFailure: both processes get SIGTERM.
Killed(c) ==
  [i \in Servers |->
     IF i = c THEN [server[i] EXCEPT !.main = Ended(@), !.mate = Ended(@)] ELSE server[i]]

\* resetConnectionState: the session forgets its server.
Reset(s) == [session EXCEPT ![s].child = 0, ![s].ready = FALSE]

\* onPrimaryProcessPidChange(null), only when there was a child.
Unregistered(s) == IF session[s].child # 0 THEN 0 ELSE registered

\* Mutant of DisposeKey: the timer is not cleared.
DisposeKeyTicking ==
  IF current = 0
  THEN UNCHANGED <<current, idle, session, server, registered>>
  ELSE /\ current' = 0
       /\ session' = Reset(current)
       /\ server' = Killed(session[current].child)
       /\ registered' = 0
       /\ UNCHANGED idle

\* disposeKey: whatever session the map holds now.
DisposeKey ==
  IF current = 0
  THEN UNCHANGED <<current, idle, session, server, registered>>
  ELSE /\ current' = 0
       /\ idle' = FALSE
       /\ session' = Reset(current)
       /\ server' = Killed(session[current].child)
       /\ registered' = 0

\* bumpActivity: a timer, if there is an entry.
Bump == idle' = (current # 0)

----------------------------------------------------------------------------
(* LspSession.start.                                                       *)

Ready(s) == session[s].child # 0 /\ session[s].ready

\* startConnection up to the answer; a child that is still there is
\* overwritten.
Spawn(s) ==
  LET c == started + 1
      old == session[s].child
  IN /\ started < MaxStarts
     /\ started' = c
     /\ session' = [session EXCEPT ![s].child = c, ![s].pending = c, ![s].ready = FALSE]
     /\ server' = [server EXCEPT ![c] =
                     [main |-> "running", mate |-> IF Companion THEN "running" ELSE "none",
                      view |-> None]]
     /\ registered' = c
     /\ abandoned' = abandoned \cup ({old} \ {0})

\* A caller starts s and waits at a place of its own.
Starts(k, s, at) ==
  \/ /\ Ready(s)
     /\ call' = [call EXCEPT ![k].at = at, ![k].session = s, ![k].due = "ok"]
     /\ UNCHANGED <<session, server, registered, started, abandoned>>
  \/ /\ ~Ready(s) /\ session[s].pending # 0
     /\ call' = [call EXCEPT ![k].at = at, ![k].session = s, ![k].due = "no"]
     /\ UNCHANGED <<session, server, registered, started, abandoned>>
  \/ /\ ~Ready(s) /\ session[s].pending = 0
     /\ call' = [call EXCEPT ![k].at = at, ![k].session = s, ![k].due = "no"]
     /\ Spawn(s)

Waiting(s) == {k \in Callers : call[k].at \in {"start", "opstart"} /\ call[k].session = s
                                /\ call[k].due = "no"}

Settled(s, outcome) ==
  [k \in Callers |-> IF k \in Waiting(s) THEN [call[k] EXCEPT !.due = outcome] ELSE call[k]]

\* Mutant of Replayed: a restarted server is told of no document.
NotReplayed(s) == server

\* What a server is sent that has just been initialized.
Replayed(s) ==
  [i \in Servers |->
     IF i = session[s].child THEN [server[i] EXCEPT !.view = session[s].doc] ELSE server[i]]

\* initialize is answered.  The answer of a server that was told to end may
\* still be in the pipe: the session then believes itself ready, without one.
StartAnswered(s) ==
  /\ Quiet /\ session[s].pending # 0
  /\ session' = [session EXCEPT ![s].pending = 0, ![s].ready = TRUE]
  /\ server' = Replayed(s)
  /\ call' = Settled(s, "ok")
  /\ UNCHANGED <<mode, closing, current, idle, registered, made, calls, started, exits, abandoned>>

\* initialize is refused, or cannot be written: the server is left alone.
StartRefused(s) ==
  /\ Quiet /\ session[s].pending # 0
  /\ session' = [session EXCEPT ![s].pending = 0]
  /\ call' = Settled(s, "error")
  /\ UNCHANGED <<mode, closing, current, idle, server, registered, made, calls, started, exits,
                 abandoned>>

StartTimesOut(s) ==
  /\ Quiet /\ session[s].pending # 0
  /\ session' = [Reset(s) EXCEPT ![s].pending = 0]
  /\ server' = Killed(session[s].child)
  /\ registered' = Unregistered(s)
  /\ call' = Settled(s, "timeout")
  /\ UNCHANGED <<mode, closing, current, idle, made, calls, started, exits, abandoned>>

----------------------------------------------------------------------------
(* LspManager.ensureSession, and the commands that begin with it.          *)

Command(k, op, text) ==
  /\ (text # None) <=> (op \in {"open", "change"})
  /\ Quiet /\ calls < MaxCalls
  /\ call[k].at = "returned"
  /\ mode = "auto"
  /\ call' = [call EXCEPT ![k].at = "resolve", ![k].op = op, ![k].text = text]
  /\ calls' = calls + 1
  /\ UNCHANGED <<mode, closing, current, idle, session, server, registered, made, started, exits,
                 abandoned>>

\* The tool is missing, or the mode was switched off meanwhile.
ToolMissing(k) ==
  /\ Quiet /\ call[k].at = "resolve"
  /\ call' = Returned(k)
  /\ UNCHANGED <<mode, closing, current, idle, session, server, registered, made, calls, started,
                 exits, abandoned>>

\* For vue the tool of the companion is resolved too.
ToolResolved(k) ==
  /\ Companion
  /\ Quiet /\ call[k].at = "resolve"
  /\ mode = "auto"
  /\ call' = [call EXCEPT ![k].at = "compose"]
  /\ UNCHANGED <<mode, closing, current, idle, session, server, registered, made, calls, started,
                 exits, abandoned>>

\* The session of the map is started, or a new one is put there.  Behind the
\* companion's tool nobody looks at the mode again.
SessionObtained(k) ==
  /\ Quiet
  /\ IF Companion THEN call[k].at = "compose" ELSE call[k].at = "resolve" /\ mode = "auto"
  /\ \/ /\ current # 0
        /\ Starts(k, current, "start")
        /\ UNCHANGED <<current, idle, made>>
     \/ /\ current = 0 /\ made < MaxCalls
        /\ made' = made + 1
        /\ current' = made + 1
        /\ idle' = FALSE
        /\ Starts(k, made + 1, "start")
  /\ UNCHANGED <<mode, closing, calls, exits>>

\* The session is ready: the command goes on with the session of the map.
EnsureReady(k) ==
  /\ call[k].at = "start" /\ call[k].due = "ok"
  /\ mode = "auto"
  /\ Bump
  /\ call' = IF call[k].op = "ensure" \/ current = 0 THEN Returned(k)
             ELSE [call EXCEPT ![k].at = "op", ![k].session = current]
  /\ UNCHANGED <<mode, closing, current, session, server, registered, made, calls, started, exits,
                 abandoned>>

\* Switched off meanwhile: the session goes, unless the map has another.
EnsureDisabled(k) ==
  /\ call[k].at = "start" /\ call[k].due = "ok"
  /\ mode = "off"
  /\ IF current = call[k].session THEN DisposeKey
     ELSE UNCHANGED <<current, idle, session, server, registered>>
  /\ call' = Returned(k)
  /\ UNCHANGED <<mode, closing, made, calls, started, exits, abandoned>>

\* Mutant of EnsureFails: the session that failed to start stays.
EnsureFailsKeeping(k) ==
  /\ call[k].at = "start" /\ call[k].due \in {"error", "timeout"}
  /\ call' = Returned(k)
  /\ UNCHANGED <<mode, closing, current, idle, session, server, registered, made, calls, started,
                 exits, abandoned>>

\* The start failed: the session of the map goes, whichever it is.
EnsureFails(k) ==
  /\ call[k].at = "start" /\ call[k].due \in {"error", "timeout"}
  /\ DisposeKey
  /\ call' = Returned(k)
  /\ UNCHANGED <<mode, closing, made, calls, started, exits, abandoned>>

----------------------------------------------------------------------------
(* openDocument, changeDocument and the queries of LspSession.             *)

\* Only openDocument works on a document that is not open.
Wanted(k) == call[k].op = "open" \/ session[call[k].session].doc # None

OpStarts(k) ==
  /\ call[k].at = "op"
  /\ Wanted(k)
  /\ Starts(k, call[k].session, "opstart")
  /\ UNCHANGED <<mode, closing, current, idle, made, calls, exits>>

OpUnwanted(k) ==
  /\ call[k].at = "op"
  /\ ~Wanted(k)
  /\ call' = Returned(k)
  /\ UNCHANGED <<mode, closing, current, idle, session, server, registered, made, calls, started,
                 exits, abandoned>>

\* The servers are sent what the store now holds, if there are any.
Sent(s, doc) ==
  [i \in Servers |->
     IF i = session[s].child THEN [server[i] EXCEPT !.view = doc] ELSE server[i]]

\* didOpen or didChange behind the start; a document closed meanwhile is
\* not changed.
Edits(k) ==
  /\ call[k].at = "opstart" /\ call[k].due = "ok"
  /\ call[k].op \in {"open", "change"}
  /\ IF Wanted(k)
     THEN /\ session' = [session EXCEPT ![call[k].session].doc = call[k].text]
          /\ server' = Sent(call[k].session, call[k].text)
     ELSE UNCHANGED <<session, server>>
  /\ call' = Returned(k)
  /\ UNCHANGED <<mode, closing, current, idle, registered, made, calls, started, exits, abandoned>>

Queries(k) ==
  /\ call[k].at = "opstart" /\ call[k].due = "ok"
  /\ call[k].op = "query"
  /\ call' = IF session[call[k].session].child = 0 \/ ~Wanted(k) THEN Returned(k)
             ELSE [call EXCEPT ![k].at = "query", ![k].due = "no"]
  /\ UNCHANGED <<mode, closing, current, idle, session, server, registered, made, calls, started,
                 exits, abandoned>>

\* The start inside a command fails: a server that refused is kept.
OpFails(k) ==
  /\ call[k].at = "opstart" /\ call[k].due \in {"error", "timeout"}
  /\ call' = Returned(k)
  /\ UNCHANGED <<mode, closing, current, idle, session, server, registered, made, calls, started,
                 exits, abandoned>>

QueryAnswered(k) ==
  /\ Quiet /\ call[k].at = "query"
  /\ call' = Returned(k)
  /\ UNCHANGED <<mode, closing, current, idle, session, server, registered, made, calls, started,
                 exits, abandoned>>

\* recoverFromRequestFailure: the server the session has now is killed.
QueryTimesOut(k) ==
  /\ Quiet /\ call[k].at = "query"
  /\ LET s == call[k].session IN
     /\ session' = Reset(s)
     /\ server' = Killed(session[s].child)
     /\ registered' = Unregistered(s)
  /\ call' = Returned(k)
  /\ UNCHANGED <<mode, closing, current, idle, made, calls, started, exits, abandoned>>

\* closeDocument: with the session there is, whatever its state.
CloseDocument ==
  /\ Quiet /\ current # 0
  /\ session' = [session EXCEPT ![current].doc = None]
  /\ server' = IF session[current].doc = None THEN server ELSE Sent(current, None)
  /\ Bump
  /\ UNCHANGED <<mode, closing, current, registered, call, made, calls, started, exits, abandoned>>

----------------------------------------------------------------------------
(* Timers, the runtime mode, the workspace and the processes.              *)

IdleTimer ==
  /\ Quiet /\ idle
  /\ DisposeKey
  /\ UNCHANGED <<mode, closing, call, made, calls, started, exits, abandoned>>

SetRuntimeMode(m) ==
  /\ Quiet
  /\ mode' = m
  /\ IF m = "off" THEN DisposeKey ELSE UNCHANGED <<current, idle, session, server, registered>>
  /\ UNCHANGED <<closing, call, made, calls, started, exits, abandoned>>

\* The teardown disposes first; the workspace is known for a while yet, and
\* commands may still come.
DisposeWorkspace ==
  /\ Quiet /\ ~closing
  /\ closing' = TRUE
  /\ DisposeKey
  /\ UNCHANGED <<mode, call, made, calls, started, exits, abandoned>>

\* A process ends on its own.
Ends(p) == p = "running" /\ exits < MaxExits /\ exits' = exits + 1

\* handleChildTermination of the language server.
MainExits(c) ==
  /\ Quiet /\ Ends(server[c].main)
  /\ \/ \E s \in Sessions :
          /\ session[s].child = c
          /\ session' = Reset(s)
          /\ registered' = Unregistered(s)
          /\ server' = [server EXCEPT ![c].main = "ended", ![c].mate = Ended(@)]
     \/ /\ \A s \in Sessions : session[s].child # c
        /\ server' = [server EXCEPT ![c].main = "ended"]
        /\ UNCHANGED <<session, registered>>
  /\ UNCHANGED <<mode, closing, current, idle, call, made, calls, started, abandoned>>

\* handleChildTermination of the companion: the session forgets both, and
\* nobody tells the language server.
MateExits(c) ==
  /\ Quiet /\ Ends(server[c].mate)
  /\ server' = [server EXCEPT ![c].mate = "ended"]
  /\ \/ \E s \in Sessions :
          /\ session[s].child = c
          /\ session' = Reset(s)
          /\ registered' = Unregistered(s)
          /\ abandoned' = abandoned \cup {c}
     \/ /\ \A s \in Sessions : session[s].child # c
        /\ UNCHANGED <<session, registered, abandoned>>
  /\ UNCHANGED <<mode, closing, current, idle, call, made, calls, started>>

----------------------------------------------------------------------------
Continues(k) ==
  \/ EnsureReady(k) \/ EnsureDisabled(k) \/ EnsureFails(k)
  \/ OpStarts(k) \/ OpUnwanted(k) \/ Edits(k) \/ Queries(k) \/ OpFails(k)

Next ==
  \/ \E k \in Callers, op \in Ops, t \in Docs : Command(k, op, t)
  \/ \E k \in Callers : ToolMissing(k) \/ ToolResolved(k) \/ SessionObtained(k)
                        \/ Continues(k) \/ QueryAnswered(k) \/ QueryTimesOut(k)
  \/ \E s \in Sessions : StartAnswered(s) \/ StartRefused(s) \/ StartTimesOut(s)
  \/ CloseDocument \/ IdleTimer \/ DisposeWorkspace
  \/ \E m \in {"auto", "off"} : SetRuntimeMode(m)
  \/ \E c \in Servers : MainExits(c) \/ MateExits(c)

\* Promises settle or time out, and timers fire.
Fairness ==
  /\ \A k \in Callers : WF_vars(ToolMissing(k) \/ ToolResolved(k) \/ SessionObtained(k))
                        /\ WF_vars(Continues(k))
                        /\ WF_vars(QueryAnswered(k) \/ QueryTimesOut(k))
  /\ \A s \in Sessions : WF_vars(StartAnswered(s) \/ StartRefused(s) \/ StartTimesOut(s))
  /\ WF_vars(IdleTimer)

Spec == Init /\ [][Next]_vars /\ Fairness

----------------------------------------------------------------------------
(* What must hold.                                                         *)

\* A timer belongs to an entry of the map.
TypeOK ==
  /\ mode \in {"auto", "off"}
  /\ closing \in BOOLEAN
  /\ current \in 0..MaxCalls /\ made \in 0..MaxCalls /\ calls \in 0..MaxCalls
  /\ idle \in BOOLEAN /\ (idle => current # 0)
  /\ session \in [Sessions -> Session]
  /\ server \in [Servers -> Server]
  /\ registered \in 0..MaxStarts /\ started \in 0..MaxStarts
  /\ call \in [Callers -> Call]
  /\ exits \in 0..MaxExits
  /\ abandoned \subseteq Servers

Held(c) == current # 0 /\ session[current].child = c

\* Whatever is disposed, fails or exits: a process that runs belongs to the
\* session of the map, and the process registry names that session's server
\* and no other.  Excepted are the servers that LspSession lets go of without
\* a word: when their companion exits, and when a start follows a refused one.
ProcessesAccounted ==
  /\ \A c \in Servers \ abandoned :
       (server[c].main = "running" \/ server[c].mate = "running") => Held(c)
  /\ registered = IF current = 0 THEN 0 ELSE session[current].child

\* The server of a session that is ready knows exactly the document the
\* session has open, with its last text, after any number of restarts and
\* with edits that waited for them.
ServerInStep ==
  \A s \in Sessions : Ready(s) => server[session[s].child].view = session[s].doc

\* Every command returns, and when no more come every process is ended and
\* the map is empty: no session is left without a timer, a start or a caller
\* that will dispose it.
AllEnds ==
  <>[](/\ \A k \in Callers : call[k].at = "returned"
       /\ current = 0
       /\ \A c \in Servers \ abandoned : {server[c].main, server[c].mate} \subseteq {"none", "ended"})
=============================================================================
