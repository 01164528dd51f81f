----------------------- MODULE SessionLifecycle_proofs -----------------------
(***************************************************************************)
(* The safety of SessionLifecycle, for any sessions, workspaces and        *)
(* callers and any number of crashes and failures: types with what they    *)
(* say of links and disposals, that a live session has a terminal, that    *)
(* only a live one has a token, and a live row unless that could not be    *)
(* corrected, and what a closed workspace leaves.                          *)
(***************************************************************************)
EXTENDS SessionLifecycle, TLAPS

\* What holds of one session and its terminal by itself.  died and disposed
\* say why a terminal cannot come back from "gone".
Sound(a) ==
  /\ a \in Agent
  /\ a.died => a.term = "alive"
  /\ a.disposed = 1 => a.term = "gone"
  /\ a.linked => a.state \in {"live", "ended"}
  /\ a.state = "live" => a.term = "alive" /\ a.linked
  /\ a.token => a.state = "live"

\* A row that says a session lives is right, or could not be corrected.
Saved ==
  \A s \in Sessions : agent[s].row = "live" => agent[s].state = "live" \/ s \in unsaved

\* Until its workspace is closed, a session has a row with its metadata, unless
\* the row was deleted without them.
Recorded ==
  \A s \in Sessions : s \notin stray /\ home[s] \notin Workspaces \ open =>
    /\ agent[s].meta => agent[s].row # "none"
    /\ making[s] = "created" => agent[s].row # "none"

\* What a teardown knows of the sessions of its workspace.
Torn ==
  \A w \in Workspaces :
    /\ \A s \in stored[w] : home[s] = w
    /\ tear[w] # "none" =>
         /\ w \in open
         /\ \A s \in OfWorkspace(w) : s \notin late =>
              /\ making[s] \in {"created", "done"}
              /\ agent[s].row # "none" => s \in stored[w]
    /\ tear[w] = "closing" =>
         \A s \in OfWorkspace(w) :
           s \notin late /\ agent[s].term \in {"alive", "dead"} => s \in waiting[w]

\* Nothing is created any more in a workspace that is closed.
NoneComes ==
  \A s \in Sessions :
    home[s] \in Workspaces \ open => s \in late \/ making[s] \in {"created", "done"}

Placed ==
  /\ \A s \in Sessions : making[s] = "none" => home[s] = None
  /\ \A c \in Callers : call[c].step # "none" => call[c].session \in Sessions

AllSound == \A s \in Sessions : Sound(agent[s])

IInv ==
  TypeOK /\ AllSound /\ Saved /\ Recorded /\ Torn /\ NoneComes /\ Placed /\ CloseLeavesNothing
----------------------------------------------------------------------------
(* What the managers' functions do to one record.                          *)

\* b is what became of a without a creation or a removal.
Keeps(a, b) ==
  /\ Sound(b)
  /\ b.row = "none" <=> a.row = "none"
  /\ b.meta = a.meta
  /\ a.term \in {"none", "gone"} => b.term \in {"none", "gone"}
  /\ a.state = "none" => b.state = "none"

\* A row is left saying that the session lives only if it was wrong before.
RowKept(a, b) == b.row = "live" /\ b.state # "live" => a.row = "live" /\ a.state # "live"

\* b is what became of a without a creation.
Shrinks(a, b) ==
  /\ Sound(b)
  /\ b.row # "none" => a.row # "none"
  /\ b.meta => a.meta
  /\ b.term \in {"alive", "dead"} => a.term \in {"alive", "dead"}
  /\ b.state # "none" => a.state # "none" \/ a.row # "none"

LEMMA KeepsShrinks == ASSUME NEW a, NEW b, Sound(a), Keeps(a, b) PROVE Shrinks(a, b)
  BY DEF Keeps, Shrinks, Sound, Agent

LEMMA UnbornSound == Sound(Unborn)
  BY DEF Sound, Unborn, Agent

LEMMA UnbornFields ==
  /\ Unborn \in Agent
  /\ Unborn.state = "none" /\ Unborn.row = "none" /\ ~Unborn.meta /\ ~Unborn.token
  /\ ~Unborn.linked /\ Unborn.term = "none" /\ ~Unborn.died /\ Unborn.disposed = 0
  BY DEF Unborn, Agent

\* The records a creation leaves.
LEMMA BornSound ==
  ASSUME NEW a \in Agent, a.state = "live", a.linked, a.term = "alive", ~a.died, a.disposed = 0
  PROVE  Sound(a)
  BY DEF Sound

LEMMA DeadBornSound ==
  ASSUME NEW a \in Agent, a.state = "none", ~a.linked, a.term = "alive", a.row = "none",
         ~a.token, ~a.died, a.disposed = 0
  PROVE  Sound(a)
  BY DEF Sound

LEMMA KeepsSelf == \A a : Sound(a) => Keeps(a, a) /\ RowKept(a, a)
  BY DEF Keeps, RowKept

LEMMA FinishedKeeps ==
  ASSUME NEW a, Sound(a), NEW saved \in BOOLEAN
  PROVE  /\ Keeps(a, Finished(a, saved))
         /\ saved => RowKept(a, Finished(a, saved))
<1>1. CASE a.state # "live"
  BY <1>1 DEF Keeps, RowKept, Finished
<1>2. CASE a.state = "live"
  <2>1. PICK b : b = [a EXCEPT !.state = "ended", !.linked = FALSE, !.token = FALSE,
                               !.row = IF saved /\ @ # "none" THEN "ended" ELSE @]
    OBVIOUS
  <2>2. /\ b \in Agent /\ b.state = "ended" /\ ~b.linked /\ ~b.token /\ b.meta = a.meta
        /\ b.row = IF saved /\ a.row # "none" THEN "ended" ELSE a.row
        /\ b.term = a.term /\ b.died = a.died /\ b.disposed = a.disposed
    BY <2>1 DEF Sound, Agent
  <2>3. Finished(a, saved) = b
    BY <1>2, <2>1 DEF Finished
  <2> QED BY <1>2, <2>2, <2>3 DEF Keeps, RowKept, Sound
<1> QED BY <1>1, <1>2

LEMMA DisposedKeeps ==
  ASSUME NEW a, Sound(a), a.term \in {"dead", "gone"}
  PROVE  Keeps(a, Disposed(a)) /\ RowKept(a, Disposed(a))
<1>1. CASE a.term = "gone"
  BY <1>1 DEF Keeps, RowKept, Disposed
<1>2. CASE a.term = "dead"
  <2>1. a.disposed = 0
    BY <1>2 DEF Sound, Agent
  <2>2. Disposed(a) = [a EXCEPT !.term = "gone", !.disposed = 1]
    BY <1>2, <2>1 DEF Disposed, Sound, Agent
  <2> QED BY <1>2, <2>2 DEF Keeps, RowKept, Sound, Agent
<1> QED BY <1>1, <1>2

LEMMA ClosingKeeps == ASSUME NEW a, Sound(a) PROVE Keeps(a, Closing(a)) /\ RowKept(a, Closing(a))
<1>1. CASE a.term = "dead"
  BY <1>1, DisposedKeeps DEF Closing
<1>2. CASE a.term = "alive" /\ a.waiter = "none"
  <2>1. Closing(a) = [a EXCEPT !.waiter = "killing", !.signalled = TRUE]
    BY <1>2 DEF Closing
  <2> QED BY <1>2, <2>1 DEF Keeps, RowKept, Sound, Agent
<1>3. CASE ~(a.term = "dead") /\ ~(a.term = "alive" /\ a.waiter = "none")
  BY <1>3 DEF Closing, Keeps, RowKept
<1> QED BY <1>1, <1>2, <1>3

LEMMA ExitSeenKeeps ==
  ASSUME NEW a, Sound(a), a.died, NEW saved \in BOOLEAN
  PROVE  /\ Keeps(a, ExitSeen(a, saved))
         /\ saved => RowKept(a, ExitSeen(a, saved))
<1>1. PICK b : b = [a EXCEPT !.term = "dead", !.died = FALSE, !.signalled = FALSE]
  OBVIOUS
<1>2. /\ b \in Agent /\ b.term = "dead" /\ ~b.died /\ b.state = a.state /\ b.row = a.row
      /\ b.meta = a.meta /\ b.token = a.token /\ b.linked = a.linked /\ b.disposed = a.disposed
  BY <1>1 DEF Sound, Agent
<1>3. a.term = "alive" /\ a.disposed # 1
  BY DEF Sound
<1>4. CASE a.linked /\ a.state = "live"
  <2>1. PICK d : d = [b EXCEPT !.state = "ended", !.linked = FALSE, !.token = FALSE,
                               !.row = IF saved /\ @ # "none" THEN "ended" ELSE @]
    OBVIOUS
  <2>2. /\ d \in Agent /\ d.state = "ended" /\ ~d.linked /\ ~d.token /\ d.meta = b.meta
        /\ d.row = IF saved /\ b.row # "none" THEN "ended" ELSE b.row
        /\ d.term = b.term /\ d.died = b.died /\ d.disposed = b.disposed
    BY <1>2, <2>1 DEF Agent
  <2>3. ExitSeen(a, saved) = d
    BY <1>1, <1>2, <1>4, <2>1 DEF ExitSeen, Finished
  <2> QED BY <1>2, <1>3, <1>4, <2>2, <2>3 DEF Keeps, RowKept, Sound
<1>5. CASE ~(a.linked /\ a.state = "live")
  <2>1. ExitSeen(a, saved) = b
    BY <1>1, <1>2, <1>5 DEF ExitSeen, Finished
  <2>2. a.state # "live"
    BY <1>5 DEF Sound
  <2> QED BY <1>2, <1>3, <2>1, <2>2 DEF Keeps, RowKept, Sound
<1> QED BY <1>4, <1>5

LEMMA SettledKeeps ==
  ASSUME NEW a, Sound(a), a.term \in {"dead", "gone"}
  PROVE  Keeps(a, Settled(a)) /\ RowKept(a, Settled(a))
<1>1. PICK b : b = Disposed(a)
  OBVIOUS
<1>2. Keeps(a, b) /\ RowKept(a, b)
  BY <1>1, DisposedKeeps
<1>3. Settled(a) = [b EXCEPT !.waiter = "none"]
  BY <1>1 DEF Settled
<1> QED BY <1>2, <1>3 DEF Keeps, RowKept, Sound, Agent

\* A removal that comes only so far.
LEMMA RemovedShrinks ==
  ASSUME NEW a, Sound(a), a.state = "ended", NEW last \in Writes
  PROVE  /\ Shrinks(a, Removed(a, last))
         /\ Removed(a, last).row \in {"none", a.row}
         /\ last = "map" => Removed(a, last).row = a.row
         /\ last = "metadata" => ~Removed(a, last).meta
<1>1. PICK b : b = Forgotten(a)
  OBVIOUS
<1>2. /\ b \in Agent /\ b.state = "none" /\ ~b.token /\ ~b.linked /\ b.row = a.row
      /\ b.meta = a.meta /\ b.term = a.term /\ b.died = a.died /\ b.disposed = a.disposed
  BY <1>1 DEF Forgotten, Sound, Agent
<1>3. PICK d : d = [b EXCEPT !.row = "none"]
  OBVIOUS
<1>4. /\ d \in Agent /\ d.state = "none" /\ ~d.token /\ ~d.linked /\ d.row = "none"
      /\ d.meta = a.meta /\ d.term = a.term /\ d.died = a.died /\ d.disposed = a.disposed
  BY <1>2, <1>3 DEF Agent
<1>5. PICK e : e = [d EXCEPT !.meta = FALSE]
  OBVIOUS
<1>6. /\ e \in Agent /\ e.state = "none" /\ ~e.token /\ ~e.linked /\ e.row = "none"
      /\ ~e.meta /\ e.term = a.term /\ e.died = a.died /\ e.disposed = a.disposed
  BY <1>4, <1>5 DEF Agent
<1>7. Sound(b) /\ Sound(d) /\ Sound(e)
  BY <1>2, <1>4, <1>6 DEF Sound
<1>8. CASE last = "map"
  <2>1. Removed(a, last) = b
    BY <1>1, <1>8 DEF Removed
  <2> QED BY <1>2, <1>7, <1>8, <2>1 DEF Shrinks
<1>9. CASE last = "row"
  <2>1. Removed(a, last) = d
    BY <1>1, <1>3, <1>9 DEF Removed, Deleted
  <2> QED BY <1>4, <1>7, <1>9, <2>1 DEF Shrinks
<1>10. CASE last = "metadata"
  <2>1. Removed(a, last) = e
    BY <1>1, <1>3, <1>5, <1>10 DEF Removed, Deleted
  <2> QED BY <1>6, <1>7, <1>10, <2>1 DEF Shrinks
<1> QED BY <1>8, <1>9, <1>10 DEF Writes

LEMMA HydratedSound ==
  ASSUME NEW a, Sound(a)
  PROVE  /\ Sound(Hydrated(a))
         /\ Hydrated(a).row = "none" <=> a.row = "none"
         /\ Hydrated(a).row # "live"
         /\ Hydrated(a).meta = a.meta
         /\ Hydrated(a).term \in {"none", "gone"}
         /\ Hydrated(a).state # "none" => a.row # "none"
<1>1. a \in Agent
  BY DEF Sound
<1>2. PICK te \in {"none", "gone"} : te = IF a.term = "none" THEN "none" ELSE "gone"
  OBVIOUS
<1>3. PICK b : b = [Unborn EXCEPT !.row = a.row, !.meta = a.meta, !.term = te]
  OBVIOUS
<1>4. /\ b \in Agent /\ b.state = "none" /\ b.row = a.row /\ b.meta = a.meta /\ b.term = te
      /\ ~b.token /\ ~b.linked /\ ~b.died /\ b.disposed = 0
  BY <1>1, <1>3 DEF Unborn, Agent
<1>5. CASE a.row \notin {"live", "lost"}
  <2>1. Hydrated(a) = b
    BY <1>2, <1>3, <1>5 DEF Hydrated
  <2> QED BY <1>4, <1>5, <2>1 DEF Sound
<1>6. CASE a.row \in {"live", "lost"}
  <2>1. PICK d : d = [b EXCEPT !.state = "ended", !.row = "lost", !.linked = TRUE]
    OBVIOUS
  <2>2. /\ d \in Agent /\ d.state = "ended" /\ d.row = "lost" /\ d.meta = a.meta /\ d.term = te
        /\ ~d.token /\ d.linked /\ ~d.died /\ d.disposed = 0
    BY <1>4, <2>1 DEF Agent
  <2>3. Hydrated(a) = d
    BY <1>2, <1>3, <1>6, <2>1 DEF Hydrated
  <2> QED BY <1>6, <2>2, <2>3 DEF Sound
<1> QED BY <1>5, <1>6

LEMMA ClearedShrinks ==
  ASSUME NEW s, Sound(agent[s]), NEW ended, NEW rows, NEW metas,
         s \in ended => agent[s].state = "ended"
  PROVE  /\ Shrinks(agent[s], Cleared(s, ended, rows, metas))
         /\ Cleared(s, ended, rows, metas).row =
              IF s \in ended \cup rows THEN "none" ELSE agent[s].row
         /\ s \in metas => ~Cleared(s, ended, rows, metas).meta
         /\ Cleared(s, ended, rows, metas).state =
              IF s \in ended THEN "none" ELSE agent[s].state
<1>1. PICK a : a = agent[s]
  OBVIOUS
<1>2. PICK b : b = IF s \in ended THEN Deleted(a) ELSE a
  OBVIOUS
<1>3. /\ Sound(b) /\ b.term = a.term /\ b.meta = a.meta
      /\ b.row = IF s \in ended THEN "none" ELSE a.row
      /\ b.state = IF s \in ended THEN "none" ELSE a.state
  <2>1. CASE s \in ended
    <3>1. /\ b \in Agent /\ b.state = "none" /\ b.row = "none" /\ ~b.token /\ ~b.linked
          /\ b.meta = a.meta /\ b.term = a.term /\ b.died = a.died /\ b.disposed = a.disposed
      BY <1>1, <1>2, <2>1 DEF Deleted, Forgotten, Sound, Agent
    <3> QED BY <1>1, <2>1, <3>1 DEF Sound
  <2>2. CASE s \notin ended
    BY <1>1, <1>2, <2>2
  <2> QED BY <2>1, <2>2
<1>4. PICK ro, me : /\ ro = IF s \in rows THEN "none" ELSE b.row
                    /\ me = (b.meta /\ s \notin metas)
  OBVIOUS
<1>5. PICK d : d = [b EXCEPT !.row = ro, !.meta = me]
  OBVIOUS
<1>6. Cleared(s, ended, rows, metas) = d
  BY <1>1, <1>2, <1>4, <1>5 DEF Cleared
<1>7. ro \in {"none", "live", "ended", "lost"} /\ me \in BOOLEAN
  BY <1>3, <1>4 DEF Sound, Agent
<1>8. /\ d \in Agent /\ d.row = ro /\ d.meta = me /\ d.state = b.state /\ d.token = b.token
      /\ d.linked = b.linked /\ d.term = b.term /\ d.died = b.died /\ d.disposed = b.disposed
  BY <1>3, <1>5, <1>7 DEF Sound, Agent
<1>9. Sound(d)
  BY <1>3, <1>8 DEF Sound
<1>10. d.meta => a.meta /\ s \notin metas
  BY <1>3, <1>4, <1>8
<1> QED BY <1>1, <1>3, <1>4, <1>6, <1>8, <1>9, <1>10 DEF Shrinks
----------------------------------------------------------------------------
(* Steps that create nothing.  What they do to calls and teardowns.        *)

CallType ==
  [op : {"none", "stop", "close", "terminal"}, session : Sessions \cup {None},
   step : {"none", "waiting", "removing"}]

CallsKept ==
  /\ call' \in [Callers -> CallType]
  /\ \A c \in Callers : call'[c].step # "none" => call'[c].session \in Sessions

\* A teardown goes on with what it knows, or is over.
TearsKept ==
  /\ tear' \in [Workspaces -> {"none", "begun", "stopping", "closing"}]
  /\ todo' \in [Workspaces -> SUBSET Sessions]
  /\ waiting' \in [Workspaces -> SUBSET Sessions]
  /\ stored' \in [Workspaces -> SUBSET Sessions]
  /\ \A w \in Workspaces :
       \/ /\ tear'[w] = tear[w] /\ stored'[w] = stored[w]
          /\ tear[w] = "closing" => waiting'[w] = waiting[w]
       \/ tear'[w] = "none" /\ stored'[w] = {}

MakingKept ==
  /\ making' \in [Sessions -> {"none", "checked", "created", "done"}]
  /\ \A s \in Sessions : making'[s] = making[s] \/ (making[s] # "none" /\ making'[s] = "done")

AgentsShrink ==
  /\ agent' = [s \in Sessions |-> agent'[s]]
  /\ \A s \in Sessions : Shrinks(agent[s], agent'[s])

HistoryKept ==
  /\ stray \subseteq stray' /\ stray' \subseteq Sessions
  /\ unsaved' \subseteq Sessions
  /\ faults' \in Nat

LEMMA ShrinkSteps ==
  ASSUME IInv, UNCHANGED <<home, open, late>>,
         AgentsShrink, MakingKept, TearsKept, CallsKept, HistoryKept,
         Saved', Recorded'
  PROVE  IInv'
<1>1. TypeOK /\ AllSound /\ Torn /\ NoneComes /\ Placed /\ CloseLeavesNothing
  BY DEF IInv
<1>2. \A s \in Sessions : Shrinks(agent[s], agent'[s])
  BY DEF AgentsShrink
<1>3. AllSound'
  BY <1>2 DEF Shrinks, AllSound
<1>4. TypeOK'
  <2>1. agent' \in [Sessions -> Agent]
    BY <1>3 DEF AllSound, Sound, AgentsShrink
  <2>2. \A s \in Sessions : agent'[s].linked => Held(s)'
    BY <1>3 DEF AllSound, Sound, Held
  <2> QED BY <1>1, <2>1, <2>2 DEF TypeOK, MakingKept, TearsKept, CallsKept, HistoryKept, CallType
<1>5. Torn'
  <2> SUFFICES ASSUME NEW w \in Workspaces
               PROVE  /\ \A s \in stored'[w] : home[s] = w
                      /\ tear'[w] # "none" =>
                           /\ w \in open
                           /\ \A s \in Sessions : home[s] = w /\ s \notin late =>
                                /\ making'[s] \in {"created", "done"}
                                /\ agent'[s].row # "none" => s \in stored'[w]
                      /\ tear'[w] = "closing" =>
                           \A s \in Sessions : home[s] = w /\ s \notin late
                              /\ agent'[s].term \in {"alive", "dead"} => s \in waiting'[w]
    BY DEF Torn, OfWorkspace
  <2>1. CASE tear'[w] = "none" /\ stored'[w] = {}
    BY <2>1
  <2>2. CASE /\ tear'[w] = tear[w] /\ stored'[w] = stored[w]
             /\ tear[w] = "closing" => waiting'[w] = waiting[w]
    <3>1. /\ \A s \in stored[w] : home[s] = w
          /\ tear[w] # "none" =>
               /\ w \in open
               /\ \A s \in Sessions : home[s] = w /\ s \notin late =>
                    /\ making[s] \in {"created", "done"}
                    /\ agent[s].row # "none" => s \in stored[w]
          /\ tear[w] = "closing" =>
               \A s \in Sessions : home[s] = w /\ s \notin late
                  /\ agent[s].term \in {"alive", "dead"} => s \in waiting[w]
      BY <1>1 DEF Torn, OfWorkspace
    <3>2. \A s \in Sessions :
            /\ agent'[s].row # "none" => agent[s].row # "none"
            /\ agent'[s].term \in {"alive", "dead"} => agent[s].term \in {"alive", "dead"}
            /\ making[s] \in {"created", "done"} => making'[s] \in {"created", "done"}
      BY <1>2 DEF Shrinks, MakingKept
    <3> QED BY <2>2, <3>1, <3>2
  <2> QED BY <2>1, <2>2 DEF TearsKept
<1>6. NoneComes'
  BY <1>1 DEF NoneComes, MakingKept
<1>7. Placed'
  BY <1>1 DEF Placed, MakingKept, CallsKept
<1>8. CloseLeavesNothing'
  <2> SUFFICES ASSUME NEW s \in Sessions, home[s] \in Workspaces \ open, s \notin late
               PROVE  Clean(s)'
    BY DEF CloseLeavesNothing
  <2>1. Clean(s) /\ Shrinks(agent[s], agent'[s])
    BY <1>1, <1>2 DEF CloseLeavesNothing
  <2> QED BY <2>1 DEF Clean, Held, Shrinks, Sound, Agent, HistoryKept
<1> QED BY <1>3, <1>4, <1>5, <1>6, <1>7, <1>8 DEF IInv

\* Steps that also leave every row and metadata where they are.
AgentsKept ==
  /\ agent' = [s \in Sessions |-> agent'[s]]
  /\ \A s \in Sessions : /\ Keeps(agent[s], agent'[s])
                         /\ RowKept(agent[s], agent'[s]) \/ s \in unsaved'

LEMMA KeepingSteps ==
  ASSUME IInv, UNCHANGED <<home, making, open, late, stray>>,
         AgentsKept, TearsKept, CallsKept,
         unsaved \subseteq unsaved', unsaved' \subseteq Sessions, faults' \in Nat
  PROVE  IInv'
<1>1. TypeOK /\ AllSound /\ Saved /\ Recorded
  BY DEF IInv
<1>2. AgentsShrink
  BY <1>1, KeepsShrinks DEF AgentsKept, AgentsShrink, AllSound
<1>3. MakingKept /\ HistoryKept
  BY <1>1 DEF TypeOK, MakingKept, HistoryKept
<1>4. Saved'
  BY <1>1 DEF Saved, AgentsKept, RowKept
<1>5. Recorded'
  BY <1>1 DEF Recorded, AgentsKept, Keeps
<1> QED BY <1>2, <1>3, <1>4, <1>5, ShrinkSteps

\* One record is replaced by what a function of the managers makes of it.
LEMMA OneKept ==
  ASSUME IInv, NEW s \in Sessions, NEW a, Keeps(agent[s], a),
         RowKept(agent[s], a) \/ s \in unsaved',
         agent' = [agent EXCEPT ![s] = a]
  PROVE  AgentsKept
<1>1. agent \in [Sessions -> Agent] /\ \A r \in Sessions : Sound(agent[r])
  BY DEF IInv, TypeOK, AllSound
<1> QED BY <1>1, KeepsSelf DEF AgentsKept

LEMMA QuietTears == ASSUME IInv, UNCHANGED teardown PROVE TearsKept
  BY DEF IInv, TypeOK, TearsKept, teardown

LEMMA QuietCalls == ASSUME IInv, UNCHANGED call PROVE CallsKept
  BY DEF IInv, TypeOK, Placed, CallsKept, CallType

\* What a write that may throw does to the histories.
LEMMA SavesHistory ==
  ASSUME IInv, NEW s \in Sessions, NEW saved \in BOOLEAN, Saves(s, saved)
  PROVE  /\ unsaved \subseteq unsaved' /\ unsaved' \subseteq Sessions /\ faults' \in Nat
         /\ ~saved => s \in unsaved'
  BY DEF IInv, TypeOK, Saves, Fails

LEMMA TerminalSteps ==
  ASSUME IInv, NEW s \in Sessions,
         \/ Dies(s) \/ KillCompletes(s) \/ CloseSettles(s) \/ CleanupTimer(s)
         \/ \E saved \in BOOLEAN : ExitEvent(s, saved)
  PROVE  IInv'
<1>1. Sound(agent[s]) /\ agent \in [Sessions -> Agent] /\ unsaved \subseteq Sessions /\ faults \in Nat
  BY DEF IInv, AllSound, TypeOK
<1>2. PICK a : /\ Keeps(agent[s], a) /\ agent' = [agent EXCEPT ![s] = a]
               /\ RowKept(agent[s], a) \/ s \in unsaved'
               /\ unsaved \subseteq unsaved' /\ unsaved' \subseteq Sessions /\ faults' \in Nat
  <2>1. CASE Dies(s)
    <3>1. Keeps(agent[s], [agent[s] EXCEPT !.died = TRUE])
          /\ RowKept(agent[s], [agent[s] EXCEPT !.died = TRUE])
      BY <1>1, <2>1 DEF Dies, Keeps, RowKept, Sound, Agent
    <3> QED BY <1>1, <3>1, <2>1 DEF Dies, losses
  <2>2. CASE KillCompletes(s)
    <3>1. Keeps(agent[s], [agent[s] EXCEPT !.waiter = "killed"])
          /\ RowKept(agent[s], [agent[s] EXCEPT !.waiter = "killed"])
      BY <1>1 DEF Keeps, RowKept, Sound, Agent
    <3> QED BY <1>1, <3>1, <2>2 DEF KillCompletes, losses
  <2>3. CASE \E saved \in BOOLEAN : ExitEvent(s, saved)
    <3>1. PICK saved \in BOOLEAN : ExitEvent(s, saved)
      BY <2>3
    <3>2. agent[s].died /\ Saves(s, saved) /\ agent' = [agent EXCEPT ![s] = ExitSeen(agent[s], saved)]
      BY <3>1 DEF ExitEvent
    <3>3. Keeps(agent[s], ExitSeen(agent[s], saved))
          /\ (saved => RowKept(agent[s], ExitSeen(agent[s], saved)))
      BY <1>1, <3>2, ExitSeenKeeps
    <3> QED BY <3>2, <3>3, SavesHistory
  <2>4. CASE CloseSettles(s)
    BY <1>1, <2>4, SettledKeeps DEF CloseSettles, losses
  <2>5. CASE CleanupTimer(s)
    BY <1>1, <2>5, DisposedKeeps DEF CleanupTimer, losses
  <2> QED BY <2>1, <2>2, <2>3, <2>4, <2>5
<1>3. UNCHANGED <<home, making, teardown, call, late, stray>>
  BY DEF Dies, KillCompletes, ExitEvent, CloseSettles, CleanupTimer, losses
<1>4. AgentsKept
  BY <1>2, OneKept
<1>5. TearsKept /\ CallsKept
  BY <1>3, QuietTears, QuietCalls
<1> QED BY <1>2, <1>3, <1>4, <1>5, KeepingSteps DEF teardown

LEMMA CallSteps ==
  ASSUME IInv, NEW c \in Callers,
         \/ \E s \in Sessions : StopCall(c, "stop", s) \/ StopCall(c, "close", s) \/ CloseCall(c, s)
         \/ CallContinues(c)
  PROVE  IInv'
<1>1. agent \in [Sessions -> Agent] /\ (\A s \in Sessions : Sound(agent[s])) /\ Placed
      /\ unsaved \subseteq Sessions /\ faults \in Nat
  BY DEF IInv, AllSound, TypeOK
<1>2. call \in [Callers -> CallType]
  BY DEF IInv, TypeOK, CallType
<1>3. PICK s \in Sessions : \/ \E op \in {"stop", "close"} : StopCall(c, op, s)
                            \/ CloseCall(c, s)
                            \/ CallContinues(c) /\ s = call[c].session
  BY <1>1 DEF Placed, CallContinues
<1>4. UNCHANGED <<home, making, teardown, late, stray>>
  BY <1>3 DEF StopCall, CloseCall, CallContinues, losses
<1>5. PICK a : /\ Keeps(agent[s], a) /\ agent' = [agent EXCEPT ![s] = a]
               /\ RowKept(agent[s], a)
               /\ UNCHANGED <<unsaved, faults>>
  <2>1. ASSUME NEW op \in {"stop", "close"}, StopCall(c, op, s), agent[s].state = "ended"
        PROVE  \E a : /\ Keeps(agent[s], a) /\ agent' = [agent EXCEPT ![s] = a]
                      /\ RowKept(agent[s], a)
    <3> DEFINE a == [agent[s] EXCEPT !.linked = IF op = "stop" THEN FALSE ELSE @]
    <3>1. Keeps(agent[s], a) /\ RowKept(agent[s], a)
      BY <1>1, <2>1 DEF Keeps, RowKept, Sound, Agent
    <3>2. agent' = [agent EXCEPT ![s] = a]
      BY <2>1 DEF StopCall
    <3> QED BY <3>1, <3>2
  <2>2. ASSUME NEW op \in {"stop", "close"}, StopCall(c, op, s), agent[s].state # "ended"
        PROVE  /\ Keeps(agent[s], Closing(agent[s])) /\ RowKept(agent[s], Closing(agent[s]))
               /\ agent' = [agent EXCEPT ![s] = Closing(agent[s])]
    BY <1>1, <2>2, ClosingKeeps DEF StopCall
  <2>3. CASE CloseCall(c, s)
    BY <1>1, <2>3, ClosingKeeps DEF CloseCall, losses
  <2>4. CASE CallContinues(c) /\ s = call[c].session
    <3>1. agent' = [agent EXCEPT ![s] = IF call[c].op = "terminal" THEN agent[s]
                                        ELSE Finished(agent[s], TRUE)]
          /\ UNCHANGED <<unsaved, faults>>
      BY <2>4 DEF CallContinues, losses
    <3>2. Keeps(agent[s], Finished(agent[s], TRUE)) /\ RowKept(agent[s], Finished(agent[s], TRUE))
          /\ Keeps(agent[s], agent[s]) /\ RowKept(agent[s], agent[s])
      BY <1>1, FinishedKeeps, KeepsSelf
    <3> QED BY <3>1, <3>2
  <2>5. CASE \E op \in {"stop", "close"} : StopCall(c, op, s)
    <3>1. UNCHANGED <<unsaved, faults>>
      BY <2>5 DEF StopCall, losses
    <3> QED BY <1>1, <2>1, <2>2, <2>5, <3>1
  <2> QED BY <1>3, <2>3, <2>4, <2>5
<1>6. PICK v \in CallType : /\ call' = [call EXCEPT ![c] = v]
                            /\ v.step # "none" => v.session \in Sessions
  <2>1. Idle \in CallType /\ Idle.step = "none"
    BY DEF Idle, CallType
  <2>2. ASSUME NEW op \in {"stop", "close", "terminal"}, NEW at \in {"waiting", "removing"}
        PROVE  [op |-> op, session |-> s, step |-> at] \in CallType
    BY DEF CallType
  <2>3. ASSUME NEW op \in {"stop", "close"}, StopCall(c, op, s)
        PROVE  \/ call' = [call EXCEPT ![c] = Idle]
               \/ call' = [call EXCEPT ![c] = [op |-> op, session |-> s, step |-> "removing"]]
               \/ call' = [call EXCEPT ![c] = [op |-> op, session |-> s, step |-> "waiting"]]
    BY <2>3 DEF StopCall
  <2>4. CASE \E op \in {"stop", "close"} : StopCall(c, op, s)
    BY <2>1, <2>2, <2>3, <2>4
  <2>5. CASE CloseCall(c, s)
    <3>1. call' = [call EXCEPT ![c] = [op |-> "terminal", session |-> s, step |-> "waiting"]]
      BY <2>5 DEF CloseCall
    <3> QED BY <2>2, <3>1
  <2>6. CASE CallContinues(c) /\ s = call[c].session
    <3>1. \/ call' = [call EXCEPT ![c] = [call[c] EXCEPT !.step = "removing"]]
          \/ call' = [call EXCEPT ![c] = Idle]
      BY <2>6 DEF CallContinues
    <3>2. [call[c] EXCEPT !.step = "removing"] \in CallType
          /\ [call[c] EXCEPT !.step = "removing"].session = s
      BY <1>2, <2>6 DEF CallType
    <3> QED BY <2>1, <3>1, <3>2
  <2> QED BY <1>3, <2>4, <2>5, <2>6
<1>7. AgentsKept
  BY <1>5, OneKept
<1>8. CallsKept
  BY <1>1, <1>2, <1>6 DEF Placed, CallsKept
<1>9. TearsKept
  BY <1>4, QuietTears
<1>10. unsaved \subseteq unsaved' /\ unsaved' \subseteq Sessions /\ faults' \in Nat
  BY <1>1, <1>5
<1> QED BY <1>4, <1>5, <1>7, <1>8, <1>9, <1>10, KeepingSteps DEF teardown

\* stopForWorkspace.
LEMMA StoppingSteps ==
  ASSUME IInv, NEW w \in Workspaces, NEW s \in Sessions,
         TeardownStop(w, s) \/ TeardownStopped(w, s)
  PROVE  IInv'
<1>1. agent \in [Sessions -> Agent] /\ (\A r \in Sessions : Sound(agent[r]))
      /\ unsaved \subseteq Sessions /\ faults \in Nat
  BY DEF IInv, AllSound, TypeOK
<1>2. /\ tear \in [Workspaces -> {"none", "begun", "stopping", "closing"}]
      /\ todo \in [Workspaces -> SUBSET Sessions]
      /\ waiting \in [Workspaces -> SUBSET Sessions]
      /\ stored \in [Workspaces -> SUBSET Sessions]
  BY DEF IInv, TypeOK
<1>3. UNCHANGED <<home, making, open, call, late, stray>>
  BY DEF TeardownStop, TeardownStopped, losses
<1>4. TearsKept
  <2>1. UNCHANGED <<tear, stored>> /\ tear[w] # "closing"
    BY DEF TeardownStop, TeardownStopped
  <2>2. \/ todo' = todo
        \/ todo' = [todo EXCEPT ![w] = todo[w] \ {s}]
    BY DEF TeardownStop, TeardownStopped
  <2>3. \/ waiting' = waiting
        \/ waiting' = [waiting EXCEPT ![w] = {s}]
        \/ waiting' = [waiting EXCEPT ![w] = {}]
    BY DEF TeardownStop, TeardownStopped
  <2>4. todo' \in [Workspaces -> SUBSET Sessions]
    BY <1>2, <2>2
  <2>5. /\ waiting' \in [Workspaces -> SUBSET Sessions]
        /\ \A v \in Workspaces : v # w => waiting'[v] = waiting[v]
    BY <1>2, <2>3
  <2> QED BY <1>2, <2>1, <2>4, <2>5 DEF TearsKept
<1>5. PICK a : /\ Keeps(agent[s], a) /\ agent' = [agent EXCEPT ![s] = a]
               /\ RowKept(agent[s], a)
               /\ UNCHANGED <<unsaved, faults>>
  <2>1. CASE TeardownStop(w, s) /\ agent[s].state = "live"
    BY <1>1, <2>1, ClosingKeeps DEF TeardownStop, losses
  <2>2. CASE TeardownStop(w, s) /\ agent[s].state # "live"
    <3>1. Keeps(agent[s], [agent[s] EXCEPT !.linked = FALSE])
          /\ RowKept(agent[s], [agent[s] EXCEPT !.linked = FALSE])
      BY <1>1, <2>2 DEF Keeps, RowKept, Sound, Agent
    <3> QED BY <1>1, <2>2, <3>1 DEF TeardownStop, losses
  <2>3. CASE TeardownStopped(w, s)
    BY <1>1, <2>3, FinishedKeeps DEF TeardownStopped, losses
  <2> QED BY <2>1, <2>2, <2>3
<1>6. AgentsKept
  BY <1>5, OneKept
<1>7. CallsKept
  BY <1>3, QuietCalls
<1>8. unsaved \subseteq unsaved' /\ unsaved' \subseteq Sessions /\ faults' \in Nat
  BY <1>1, <1>5
<1> QED BY <1>3, <1>4, <1>5, <1>6, <1>7, <1>8, KeepingSteps

LEMMA RefusedSteps == ASSUME IInv, NEW w \in Workspaces, TeardownRefused(w) PROVE IInv'
<1>1. UNCHANGED <<agent, home, making, open, call, late, stray, unsaved>> /\ Abandoned(w) /\ Fails
  BY DEF TeardownRefused, Abandoned
<1>2. TypeOK /\ AllSound
  BY DEF IInv
<1>3. AgentsKept
  BY <1>1, <1>2, KeepsSelf DEF AgentsKept, AllSound, TypeOK
<1>4. TearsKept
  BY <1>1, <1>2 DEF Abandoned, TearsKept, TypeOK
<1>5. CallsKept
  BY <1>1, QuietCalls
<1> QED BY <1>1, <1>2, <1>3, <1>4, <1>5, KeepingSteps DEF TypeOK, Fails

\* session.remove: what it deletes the row of is stray unless the metadata went
\* with it and none is still to come.
LEMMA RemovalSteps ==
  ASSUME IInv, NEW s \in Sessions, NEW last \in Writes,
         \/ RemoveCall(s, last)
         \/ \E c \in Callers : CallRemoves(c, last) /\ s = call[c].session
  PROVE  IInv'
<1>1. TypeOK /\ AllSound /\ Saved /\ Recorded /\ Placed
  BY DEF IInv
<1>2. UNCHANGED <<home, making, teardown, late, unsaved>>
  BY DEF RemoveCall, CallRemoves
<1>3. CallsKept
  <2>1. call \in [Callers -> CallType]
    BY <1>1 DEF TypeOK, CallType
  <2>2. Idle \in CallType /\ Idle.step = "none"
    BY DEF Idle, CallType
  <2>3. call' = call \/ \E c \in Callers : call' = [call EXCEPT ![c] = Idle]
    BY DEF RemoveCall, CallRemoves
  <2> QED BY <1>1, <2>1, <2>2, <2>3 DEF Placed, CallsKept
<1>4. TearsKept
  BY <1>2, QuietTears
<1>5. MakingKept
  BY <1>1, <1>2 DEF TypeOK, MakingKept
<1>6. CASE Removes(s, last)
  <2>1. /\ agent[s].state = "ended" /\ agent' = [agent EXCEPT ![s] = Removed(agent[s], last)]
        /\ last = "metadata" => home[s] \in open
        /\ stray' = IF last = "row" \/ (last = "metadata" /\ making[s] = "created")
                    THEN stray \cup {s} ELSE stray
    BY <1>6 DEF Removes
  <2>2. faults' \in Nat
    BY <1>1, <1>6 DEF Removes, Fails, TypeOK
  <2>3. PICK a : a = Removed(agent[s], last)
    OBVIOUS
  <2>4. /\ Shrinks(agent[s], a)
        /\ a.row \in {"none", agent[s].row}
        /\ last = "map" => a.row = agent[s].row
        /\ last = "metadata" => ~a.meta
    BY <1>1, <2>1, <2>3, RemovedShrinks DEF AllSound
  <2>5. /\ agent'[s] = a /\ \A r \in Sessions \ {s} : agent'[r] = agent[r]
        /\ agent' = [r \in Sessions |-> agent'[r]]
    BY <1>1, <2>1, <2>3 DEF TypeOK
  <2>6. AgentsShrink
    <3>1. \A r \in Sessions : Shrinks(agent[r], agent[r])
      BY <1>1, KeepsSelf, KeepsShrinks DEF AllSound
    <3> QED BY <2>4, <2>5, <3>1 DEF AgentsShrink
  <2>7. Saved'
    <3>1. a.row = "live" => agent[s].row = "live"
      BY <2>4
    <3> QED BY <1>1, <1>2, <2>1, <2>5, <3>1 DEF Saved
  <2>8. Recorded'
    <3> SUFFICES ASSUME NEW r \in Sessions, r \notin stray', home[r] \notin Workspaces \ open
                 PROVE  /\ agent'[r].meta => agent'[r].row # "none"
                        /\ making[r] = "created" => agent'[r].row # "none"
      BY <1>2 DEF Recorded, teardown
    <3>1. /\ agent[r].meta => agent[r].row # "none"
          /\ making[r] = "created" => agent[r].row # "none"
      BY <1>1, <2>1 DEF Recorded
    <3>2. CASE r # s
      BY <2>5, <3>1, <3>2
    <3>3. CASE r = s /\ last = "map"
      BY <2>4, <2>5, <3>1, <3>3 DEF Shrinks
    <3>4. CASE r = s /\ last = "metadata"
      BY <2>1, <2>4, <2>5, <3>4
    <3>5. CASE r = s /\ last = "row"
      BY <2>1, <3>5
    <3> QED BY <3>2, <3>3, <3>4, <3>5 DEF Writes
  <2>9. HistoryKept
    BY <1>1, <1>2, <2>1, <2>2 DEF HistoryKept, TypeOK
  <2> QED BY <1>2, <1>3, <1>4, <1>5, <2>6, <2>7, <2>8, <2>9, ShrinkSteps DEF teardown
<1>7. CASE UNCHANGED <<agent, stray>> /\ faults' \in Nat
  <2>1. AgentsKept
    BY <1>1, <1>7, KeepsSelf DEF AgentsKept, AllSound, TypeOK
  <2> QED BY <1>1, <1>2, <1>3, <1>4, <1>7, <2>1, KeepingSteps DEF teardown, TypeOK
<1> QED BY <1>1, <1>6, <1>7 DEF RemoveCall, CallRemoves, Fails, TypeOK

\* What the end of a teardown leaves when it comes only so far.
LEMMA HalfwayRecorded ==
  ASSUME IInv, NEW w \in Workspaces, NEW ended \in SUBSET Ended(w),
         NEW rows \in SUBSET stored[w], NEW metas \in SUBSET stored[w],
         Halfway(w, ended, rows, metas)
  PROVE  /\ stray \subseteq stray' /\ stray' \subseteq Sessions
         /\ \A s \in Sessions :
              /\ Shrinks(agent[s], Cleared(s, ended, rows, metas))
              /\ Cleared(s, ended, rows, metas).row \in {"none", agent[s].row}
              /\ s \notin stray' /\ home[s] \notin Workspaces \ open =>
                   /\ Cleared(s, ended, rows, metas).meta =>
                        Cleared(s, ended, rows, metas).row # "none"
                   /\ making[s] = "created" => Cleared(s, ended, rows, metas).row # "none"
<1>1. TypeOK /\ AllSound /\ Recorded
  BY DEF IInv
<1>2. ended \subseteq Sessions /\ rows \subseteq Sessions /\ \A s \in ended : agent[s].state = "ended"
  BY <1>1 DEF Ended, OfWorkspace, TypeOK
<1>3. stray' = stray \cup {s \in ended \cup rows : IF s \in metas THEN making[s] = "created"
                                                  ELSE agent[s].meta \/ making[s] = "created"}
  BY DEF Halfway
<1>4. stray \subseteq stray' /\ stray' \subseteq Sessions
  BY <1>1, <1>2, <1>3 DEF TypeOK
<1>5. ASSUME NEW s \in Sessions
      PROVE  /\ Shrinks(agent[s], Cleared(s, ended, rows, metas))
             /\ Cleared(s, ended, rows, metas).row \in {"none", agent[s].row}
             /\ s \notin stray' /\ home[s] \notin Workspaces \ open =>
                  /\ Cleared(s, ended, rows, metas).meta =>
                       Cleared(s, ended, rows, metas).row # "none"
                  /\ making[s] = "created" => Cleared(s, ended, rows, metas).row # "none"
  <2>1. PICK b : b = Cleared(s, ended, rows, metas)
    OBVIOUS
  <2>2. /\ Shrinks(agent[s], b)
        /\ b.row = IF s \in ended \cup rows THEN "none" ELSE agent[s].row
        /\ s \in metas => ~b.meta
    BY <1>1, <1>2, <2>1, ClearedShrinks DEF AllSound
  <2>3. ASSUME s \notin stray', home[s] \notin Workspaces \ open
        PROVE  /\ b.meta => b.row # "none"
               /\ making[s] = "created" => b.row # "none"
    <3>1. /\ agent[s].meta => agent[s].row # "none"
          /\ making[s] = "created" => agent[s].row # "none"
      BY <1>1, <1>4, <2>3 DEF Recorded
    <3>2. CASE s \notin ended \cup rows
      BY <2>2, <3>1, <3>2 DEF Shrinks
    <3>3. CASE s \in ended \cup rows
      <4>1. (s \in metas \/ ~agent[s].meta) /\ making[s] # "created"
        BY <1>3, <2>3, <3>3
      <4> QED BY <2>2, <4>1 DEF Shrinks
    <3> QED BY <3>2, <3>3
  <2> QED BY <2>1, <2>2, <2>3
<1> QED BY <1>4, <1>5

LEMMA FailureSteps ==
  ASSUME IInv, NEW w \in Workspaces, NEW ended \in SUBSET Ended(w),
         NEW rows \in SUBSET stored[w], NEW metas \in SUBSET stored[w],
         TeardownFails(w, ended, rows, metas)
  PROVE  IInv'
<1>1. /\ Halfway(w, ended, rows, metas) /\ Fails /\ Abandoned(w)
      /\ agent' = [s \in Sessions |-> Cleared(s, ended, rows, metas)]
      /\ unsaved' = unsaved
  BY DEF TeardownFails
<1>2. TypeOK /\ AllSound /\ Saved
  BY DEF IInv
<1>3. UNCHANGED <<home, making, open, call, late>>
  BY <1>1 DEF Abandoned
<1>4. /\ stray \subseteq stray' /\ stray' \subseteq Sessions
      /\ \A s \in Sessions :
           /\ Shrinks(agent[s], agent'[s])
           /\ agent'[s].row \in {"none", agent[s].row}
           /\ s \notin stray' /\ home[s] \notin Workspaces \ open =>
                /\ agent'[s].meta => agent'[s].row # "none"
                /\ making[s] = "created" => agent'[s].row # "none"
  BY <1>1, HalfwayRecorded
<1>5. AgentsShrink
  BY <1>1, <1>4 DEF AgentsShrink
<1>6. Saved'
  <2> SUFFICES ASSUME NEW s \in Sessions, agent'[s].row = "live"
               PROVE  agent'[s].state = "live" \/ s \in unsaved
    BY <1>1 DEF Saved
  <2>1. PICK b : b = Cleared(s, ended, rows, metas)
    OBVIOUS
  <2>2. s \in ended => agent[s].state = "ended"
    BY DEF Ended
  <2>3. /\ b.row = IF s \in ended \cup rows THEN "none" ELSE agent[s].row
        /\ b.state = IF s \in ended THEN "none" ELSE agent[s].state
    BY <1>2, <2>1, <2>2, ClearedShrinks DEF AllSound
  <2>4. agent'[s] = b
    BY <1>1, <2>1
  <2> QED BY <1>2, <2>3, <2>4 DEF Saved
<1>7. Recorded'
  BY <1>3, <1>4 DEF Recorded
<1>8. TearsKept
  BY <1>1, <1>2 DEF Abandoned, TearsKept, TypeOK
<1>9. CallsKept /\ MakingKept
  BY <1>2, <1>3, QuietCalls DEF MakingKept, TypeOK
<1>10. HistoryKept
  BY <1>1, <1>2, <1>4 DEF HistoryKept, TypeOK, Fails
<1> QED BY <1>3, <1>5, <1>6, <1>7, <1>8, <1>9, <1>10, ShrinkSteps

\* A restart with what the crash left of the sessions.
LEMMA RestartSteps ==
  ASSUME IInv, NEW left, Restart(left),
         stray \subseteq stray', stray' \subseteq Sessions,
         \A s \in Sessions : Shrinks(agent[s], left[s]),
         \A s \in Sessions : s \notin stray' /\ home[s] \notin Workspaces \ open /\ left[s].meta =>
                               left[s].row # "none"
  PROVE  IInv'
<1>1. /\ Fails
      /\ agent' = [s \in Sessions |-> Hydrated(left[s])]
      /\ making' = [s \in Sessions |-> IF making[s] = "none" THEN "none" ELSE "done"]
      /\ tear' = [w \in Workspaces |-> "none"]
      /\ todo' = [w \in Workspaces |-> {}]
      /\ waiting' = [w \in Workspaces |-> {}]
      /\ stored' = [w \in Workspaces |-> {}]
      /\ call' = [c \in Callers |-> Idle]
      /\ unsaved' = {}
      /\ UNCHANGED <<home, open, late>>
  BY DEF Restart
<1>2. TypeOK
  BY DEF IInv
<1>3. ASSUME NEW s \in Sessions
      PROVE  /\ Shrinks(agent[s], agent'[s])
             /\ agent'[s].row # "live"
             /\ s \notin stray' /\ home[s] \notin Workspaces \ open /\ agent'[s].meta => agent'[s].row # "none"
  <2>1. PICK a, b : a = left[s] /\ b = Hydrated(a)
    OBVIOUS
  <2>2. Shrinks(agent[s], a)
    BY <2>1
  <2>3. /\ Sound(b) /\ (b.row = "none" <=> a.row = "none") /\ b.row # "live" /\ b.meta = a.meta
        /\ b.term \in {"none", "gone"} /\ (b.state # "none" => a.row # "none")
    BY <2>1, <2>2, HydratedSound DEF Shrinks
  <2>4. agent'[s] = b
    BY <1>1, <2>1
  <2>5. Shrinks(agent[s], b)
    BY <2>2, <2>3 DEF Shrinks
  <2> QED BY <2>1, <2>3, <2>4, <2>5
<1>4. AgentsShrink
  BY <1>1, <1>3 DEF AgentsShrink
<1>5. Saved'
  BY <1>3 DEF Saved
<1>6. Recorded'
  BY <1>1, <1>3 DEF Recorded
<1>7. MakingKept
  BY <1>1, <1>2 DEF MakingKept, TypeOK
<1>8. TearsKept
  BY <1>1 DEF TearsKept
<1>9. CallsKept
  <2>1. Idle \in CallType /\ Idle.step = "none"
    BY DEF Idle, CallType
  <2> QED BY <1>1, <2>1 DEF CallsKept
<1>10. HistoryKept
  BY <1>1, <1>2 DEF HistoryKept, TypeOK, Fails
<1> QED BY <1>1, <1>4, <1>5, <1>6, <1>7, <1>8, <1>9, <1>10, ShrinkSteps

LEMMA CrashSteps ==
  ASSUME IInv,
         \/ Crash
         \/ \E s \in Sessions : CrashRemoving(s)
         \/ \E w \in Workspaces : \E ended \in SUBSET Ended(w), rows, metas \in SUBSET stored[w] :
              CrashClosing(w, ended, rows, metas)
  PROVE  IInv'
<1>1. TypeOK /\ AllSound /\ Recorded
  BY DEF IInv
<1>2. \A s \in Sessions : Shrinks(agent[s], agent[s])
  BY <1>1, KeepsSelf, KeepsShrinks DEF AllSound
<1>3. CASE Crash
  <2>1. Restart(agent) /\ stray' = stray
    BY <1>3 DEF Crash
  <2>2. stray \subseteq Sessions
    BY <1>1 DEF TypeOK
  <2>3. \A s \in Sessions : s \notin stray' /\ home[s] \notin Workspaces \ open /\ agent[s].meta => agent[s].row # "none"
    BY <1>1, <2>1 DEF Recorded
  <2> QED BY <1>2, <2>1, <2>2, <2>3, RestartSteps
<1>4. CASE \E s \in Sessions : CrashRemoving(s)
  <2>1. PICK s \in Sessions : CrashRemoving(s)
    BY <1>4
  <2>2. PICK left : left = [agent EXCEPT ![s] = Deleted(@)]
    OBVIOUS
  <2>3. agent[s].state = "ended" /\ stray' = stray \cup {s} /\ Restart(left)
    BY <2>1, <2>2 DEF CrashRemoving
  <2>4. /\ left[s] = Removed(agent[s], "row") /\ \A r \in Sessions \ {s} : left[r] = agent[r]
    BY <1>1, <2>2 DEF TypeOK, Removed
  <2>5. Shrinks(agent[s], left[s])
    BY <1>1, <2>3, <2>4, RemovedShrinks DEF AllSound, Writes
  <2>6. \A r \in Sessions : Shrinks(agent[r], left[r])
    BY <1>2, <2>4, <2>5
  <2>7. stray \subseteq stray' /\ stray' \subseteq Sessions
    BY <1>1, <2>3 DEF TypeOK
  <2>8. \A r \in Sessions : r \notin stray' /\ home[r] \notin Workspaces \ open /\ left[r].meta => left[r].row # "none"
    BY <1>1, <2>3, <2>4 DEF Recorded
  <2> QED BY <2>3, <2>6, <2>7, <2>8, RestartSteps
<1>5. CASE \E w \in Workspaces : \E ended \in SUBSET Ended(w), rows, metas \in SUBSET stored[w] :
             CrashClosing(w, ended, rows, metas)
  <2>0. PICK w \in Workspaces : \E ended \in SUBSET Ended(w), rows, metas \in SUBSET stored[w] :
                                  CrashClosing(w, ended, rows, metas)
    BY <1>5
  <2>1. PICK ended \in SUBSET Ended(w), rows \in SUBSET stored[w], metas \in SUBSET stored[w] :
             CrashClosing(w, ended, rows, metas)
    BY <2>0
  <2>2. PICK left : left = [s \in Sessions |-> Cleared(s, ended, rows, metas)]
    OBVIOUS
  <2>3. Halfway(w, ended, rows, metas) /\ Restart(left)
    BY <2>1, <2>2 DEF CrashClosing
  <2>4. /\ stray \subseteq stray' /\ stray' \subseteq Sessions
        /\ \A s \in Sessions :
             /\ Shrinks(agent[s], left[s])
             /\ s \notin stray' /\ home[s] \notin Workspaces \ open => (left[s].meta => left[s].row # "none")
    BY <2>2, <2>3, HalfwayRecorded
  <2> QED BY <2>3, <2>4, RestartSteps
<1> QED BY <1>3, <1>4, <1>5

\* session.create.  A session that is created in a teardown is late.
LEMMA CheckSteps ==
  ASSUME IInv, NEW s \in Sessions, NEW w \in Workspaces, CreateChecks(s, w)
  PROVE  IInv'
<1>1. /\ making[s] = "none" /\ w \in open
      /\ making' = [making EXCEPT ![s] = "checked"]
      /\ home' = [home EXCEPT ![s] = w]
      /\ late' = IF tear[w] # "none" THEN late \cup {s} ELSE late
      /\ UNCHANGED <<agent, open, tear, todo, waiting, stored, call, faults, stray, unsaved>>
  BY DEF CreateChecks, teardown, losses
<1>2. TypeOK /\ AllSound /\ Saved /\ Recorded /\ Torn /\ NoneComes /\ Placed /\ CloseLeavesNothing
  BY DEF IInv
<1>3. /\ making \in [Sessions -> {"none", "checked", "created", "done"}]
      /\ home \in [Sessions -> Workspaces \cup {None}]
      /\ home[s] = None /\ None \notin Workspaces
  BY <1>1, <1>2, LifecycleAssumption DEF TypeOK, Placed
<1>4. TypeOK'
  <2>1. making' \in [Sessions -> {"none", "checked", "created", "done"}]
        /\ home' \in [Sessions -> Workspaces \cup {None}] /\ late' \subseteq Sessions
    BY <1>1, <1>2, <1>3 DEF TypeOK
  <2> QED BY <1>1, <1>2, <2>1 DEF TypeOK, Held
<1>5. AllSound' /\ Saved'
  BY <1>1, <1>2 DEF AllSound, Saved
<1>8. Recorded'
  BY <1>1, <1>2, <1>3 DEF Recorded
<1>6. Torn'
  <2> SUFFICES ASSUME NEW v \in Workspaces
               PROVE  /\ \A r \in stored[v] : home'[r] = v
                      /\ tear[v] # "none" =>
                           /\ v \in open
                           /\ \A r \in Sessions : home'[r] = v /\ r \notin late' =>
                                /\ making'[r] \in {"created", "done"}
                                /\ agent[r].row # "none" => r \in stored[v]
                      /\ tear[v] = "closing" =>
                           \A r \in Sessions : home'[r] = v /\ r \notin late'
                              /\ agent[r].term \in {"alive", "dead"} => r \in waiting[v]
    BY <1>1 DEF Torn, OfWorkspace
  <2>1. \A r \in stored[v] : r \in Sessions /\ r # s
    BY <1>2, <1>3 DEF Torn, TypeOK
  <2>2. ASSUME tear[v] # "none", NEW r \in Sessions, home'[r] = v, r \notin late'
        PROVE  r # s /\ home[r] = v /\ r \notin late /\ making'[r] = making[r]
    BY <1>1, <1>3, <2>2
  <2> QED BY <1>2, <1>3, <1>1, <2>1, <2>2 DEF Torn, OfWorkspace
<1>7. NoneComes' /\ Placed' /\ CloseLeavesNothing'
  BY <1>1, <1>2, <1>3 DEF NoneComes, Placed, CloseLeavesNothing, Clean, Held
<1> QED BY <1>4, <1>5, <1>6, <1>7, <1>8 DEF IInv

\* The rest of it.  Up to the row, the workspace is not torn down or the session
\* is late; after it, the session changes in nothing a teardown looks at.
LEMMA CreationKeeps ==
  ASSUME IInv, NEW s \in Sessions, NEW a, NEW m \in {"created", "done"},
         Sound(a), a.row = "live" => a.state = "live",
         agent' = [agent EXCEPT ![s] = a],
         making' = [making EXCEPT ![s] = m],
         making[s] = "checked",
         (a.meta => a.row # "none") /\ (m = "created" => a.row # "none"),
         faults' \in Nat,
         UNCHANGED <<home, open, tear, todo, waiting, stored, call, late, stray, unsaved>>
  PROVE  IInv'
<1>2. TypeOK /\ AllSound /\ Saved /\ Recorded /\ Torn /\ NoneComes /\ Placed /\ CloseLeavesNothing
  BY DEF IInv
<1>3. /\ agent \in [Sessions -> Agent]
      /\ making \in [Sessions -> {"none", "checked", "created", "done"}]
  BY <1>2 DEF TypeOK
<1>6. /\ agent' \in [Sessions -> Agent] /\ agent'[s] = a
      /\ making' \in [Sessions -> {"none", "checked", "created", "done"}] /\ making'[s] = m
      /\ \A r \in Sessions : r # s => agent'[r] = agent[r] /\ making'[r] = making[r]
  BY <1>3 DEF Sound
<1>7. AllSound' /\ Saved'
  BY <1>2, <1>6 DEF AllSound, Saved
<1>8. TypeOK'
  <2>1. \A r \in Sessions : agent'[r].linked => Held(r)'
    BY <1>7 DEF AllSound, Sound, Held
  <2> QED BY <1>2, <1>6, <2>1 DEF TypeOK
<1>9. Recorded'
  BY <1>2, <1>6 DEF Recorded
<1>10. s \in late \/ (home[s] \in Workspaces => tear[home[s]] = "none" /\ home[s] \in open)
  BY <1>2 DEF Torn, OfWorkspace, NoneComes
<1>11. Torn'
  <2> SUFFICES ASSUME NEW v \in Workspaces
               PROVE  /\ \A r \in stored[v] : home[r] = v
                      /\ tear[v] # "none" =>
                           /\ v \in open
                           /\ \A r \in Sessions : home[r] = v /\ r \notin late =>
                                /\ making'[r] \in {"created", "done"}
                                /\ agent'[r].row # "none" => r \in stored[v]
                      /\ tear[v] = "closing" =>
                           \A r \in Sessions : home[r] = v /\ r \notin late
                              /\ agent'[r].term \in {"alive", "dead"} => r \in waiting[v]
    BY DEF Torn, OfWorkspace
  <2>1. ASSUME tear[v] # "none", NEW r \in Sessions, home[r] = v, r \notin late
        PROVE  agent'[r] = agent[r] /\ making'[r] = making[r]
    BY <1>6, <1>10, <2>1
  <2>2. Torn
    BY <1>2
  <2> QED BY <2>1, <2>2 DEF Torn, OfWorkspace
<1>12. NoneComes' /\ Placed'
  BY <1>2, <1>6 DEF NoneComes, Placed
<1>13. CloseLeavesNothing'
  BY <1>2, <1>6, <1>10 DEF CloseLeavesNothing, Clean, Held
<1> QED BY <1>7, <1>8, <1>9, <1>11, <1>12, <1>13 DEF IInv

LEMMA RegisterSteps == ASSUME IInv, NEW s \in Sessions, CreateRegisters(s) PROVE IInv'
<1> DEFINE a == [Unborn EXCEPT !.state = "live", !.row = "live", !.token = TRUE,
                               !.linked = TRUE, !.term = "alive"]
<1>1. /\ a \in Agent /\ a.state = "live" /\ a.linked /\ a.term = "alive" /\ a.row = "live"
      /\ a.died = Unborn.died /\ a.disposed = Unborn.disposed
  BY UnbornFields DEF Agent
<1>2. Sound(a) /\ a.row = "live"
  <2> HIDE DEF a
  <2> QED BY <1>1, UnbornFields, BornSound
<1>3. /\ agent' = [agent EXCEPT ![s] = a]
      /\ making' = [making EXCEPT ![s] = "created"]
      /\ making[s] = "checked"
      /\ UNCHANGED <<home, open, tear, todo, waiting, stored, call, faults, late, stray, unsaved>>
  BY DEF CreateRegisters, teardown, losses
<1>4. faults' \in Nat
  BY <1>3 DEF IInv, TypeOK
<1> HIDE DEF a
<1> QED BY <1>1, <1>2, <1>3, <1>4, CreationKeeps

LEMMA FailsCounts == ASSUME IInv, Fails PROVE faults' \in Nat
  BY DEF IInv, TypeOK, Fails

LEMMA FailSteps ==
  ASSUME IInv, NEW s \in Sessions, NEW at \in {"spawn", "terminal row", "session row"},
         CreateFails(s, at)
  PROVE  IInv'
<1>1. Sound([Unborn EXCEPT !.term = "alive"])
  <2> DEFINE a == [Unborn EXCEPT !.term = "alive"]
  <2>1. /\ a \in Agent /\ a.term = "alive" /\ a.state = "none" /\ a.row = "none"
        /\ ~a.token /\ ~a.linked /\ a.died = Unborn.died /\ a.disposed = Unborn.disposed
    BY UnbornFields DEF Agent
  <2>2. Sound(a)
    <3> HIDE DEF a
    <3> QED BY <2>1, UnbornFields, DeadBornSound
  <2> QED BY <2>2
<1>2. Sound([Unborn EXCEPT !.state = "live", !.linked = TRUE, !.term = "alive"])
  <2> DEFINE a == [Unborn EXCEPT !.state = "live", !.linked = TRUE, !.term = "alive"]
  <2>1. /\ a \in Agent /\ a.state = "live" /\ a.linked /\ a.term = "alive"
        /\ a.died = Unborn.died /\ a.disposed = Unborn.disposed
    BY UnbornFields DEF Agent
  <2>2. Sound(a)
    <3> HIDE DEF a
    <3> QED BY <2>1, UnbornFields, BornSound
  <2> QED BY <2>2
<1>3. Sound(FailedAt(at)) /\ ~FailedAt(at).meta /\ FailedAt(at).row = "none"
  <2>1. CASE at = "spawn"
    BY <2>1, UnbornSound DEF FailedAt, Unborn
  <2>2. CASE at = "terminal row"
    BY <2>2, <1>1 DEF FailedAt, Unborn
  <2>3. CASE at = "session row"
    BY <2>3, <1>2 DEF FailedAt, Unborn
  <2> QED BY <2>1, <2>2, <2>3
<1>4. /\ agent' = [agent EXCEPT ![s] = FailedAt(at)]
      /\ making' = [making EXCEPT ![s] = "done"]
      /\ making[s] = "checked"
      /\ Fails
      /\ UNCHANGED <<home, open, tear, todo, waiting, stored, call, late, stray, unsaved>>
  BY DEF CreateFails, teardown
<1> QED BY <1>3, <1>4, FailsCounts, CreationKeeps

LEMMA RecordSteps ==
  ASSUME IInv, NEW s \in Sessions, NEW written \in BOOLEAN, CreateRecords(s, written)
  PROVE  IInv'
<1>1. /\ agent' = [agent EXCEPT ![s].meta = written]
      /\ making' = [making EXCEPT ![s] = "done"]
      /\ making[s] = "created"
      /\ written => home[s] \in open
      /\ UNCHANGED <<home, open, tear, todo, waiting, stored, call, late, stray, unsaved>>
  BY DEF CreateRecords, teardown
<1>2. TypeOK /\ AllSound /\ Saved /\ Recorded /\ Torn /\ NoneComes /\ Placed /\ CloseLeavesNothing
  BY DEF IInv
<1>3. PICK a : a = [agent[s] EXCEPT !.meta = written]
  OBVIOUS
<1>4. /\ Sound(a) /\ a.row = agent[s].row /\ a.state = agent[s].state /\ a.term = agent[s].term
      /\ a.token = agent[s].token /\ a.meta = written
  BY <1>2, <1>3 DEF AllSound, Sound, Agent
<1>5. /\ agent' \in [Sessions -> Agent] /\ agent'[s] = a
      /\ \A r \in Sessions : r # s => agent'[r] = agent[r]
  BY <1>1, <1>2, <1>3, <1>4 DEF Sound, TypeOK
<1>6. /\ making' \in [Sessions -> {"none", "checked", "created", "done"}]
      /\ making'[s] = "done" /\ \A r \in Sessions : r # s => making'[r] = making[r]
  BY <1>1, <1>2 DEF TypeOK
<1>7. faults' \in Nat
  <2>1. faults \in Nat
    BY <1>2 DEF TypeOK
  <2>2. faults' = faults \/ faults' = faults + 1
    BY DEF CreateRecords, Fails
  <2> QED BY <2>1, <2>2
<1>8. AllSound' /\ Saved'
  BY <1>1, <1>2, <1>4, <1>5 DEF AllSound, Saved
<1>9. TypeOK'
  <2>1. \A r \in Sessions : agent'[r].linked => Held(r)'
    BY <1>8 DEF AllSound, Sound, Held
  <2> QED BY <1>1, <1>2, <1>5, <1>6, <1>7, <2>1 DEF TypeOK
<1>10. Recorded'
  BY <1>1, <1>2, <1>4, <1>5, <1>6 DEF Recorded
<1>11. \A r \in Sessions : /\ agent'[r].row = agent[r].row /\ agent'[r].term = agent[r].term
                           /\ making[r] \in {"created", "done"} => making'[r] \in {"created", "done"}
  BY <1>1, <1>4, <1>5, <1>6
<1>12. Torn'
  <2> SUFFICES ASSUME NEW v \in Workspaces
               PROVE  /\ \A r \in stored[v] : home[r] = v
                      /\ tear[v] # "none" =>
                           /\ v \in open
                           /\ \A r \in Sessions : home[r] = v /\ r \notin late =>
                                /\ making'[r] \in {"created", "done"}
                                /\ agent'[r].row # "none" => r \in stored[v]
                      /\ tear[v] = "closing" =>
                           \A r \in Sessions : home[r] = v /\ r \notin late
                              /\ agent'[r].term \in {"alive", "dead"} => r \in waiting[v]
    BY <1>1 DEF Torn, OfWorkspace
  <2>1. Torn
    BY <1>2
  <2> QED BY <1>11, <2>1 DEF Torn, OfWorkspace
<1>13. NoneComes' /\ Placed'
  BY <1>1, <1>2, <1>6 DEF NoneComes, Placed
<1>14. CloseLeavesNothing'
  <2> SUFFICES ASSUME NEW r \in Sessions, home[r] \in Workspaces \ open, r \notin late
               PROVE  Clean(r)'
    BY <1>1 DEF CloseLeavesNothing
  <2>1. Clean(r)
    BY <1>2 DEF CloseLeavesNothing
  <2>2. CASE r # s
    BY <1>1, <1>5, <2>1, <2>2 DEF Clean, Held
  <2>3. CASE r = s
    <3>1. ~a.meta
      BY <1>1, <1>4, <2>3
    <3> QED BY <1>1, <1>4, <1>5, <2>1, <2>3, <3>1 DEF Clean, Held
  <2> QED BY <2>2, <2>3
<1> QED BY <1>8, <1>9, <1>10, <1>12, <1>13, <1>14 DEF IInv

LEMMA StopsSteps == ASSUME IInv, NEW w \in Workspaces, TeardownStops(w) PROVE IInv'
<1>1. /\ tear[w] = "begun"
      /\ tear' = [tear EXCEPT ![w] = "stopping"]
      /\ todo' = [todo EXCEPT ![w] = {s \in OfWorkspace(w) : Held(s)}]
      /\ UNCHANGED <<agent, home, making, open, waiting, stored, call, late, faults, stray, unsaved>>
  BY DEF TeardownStops, losses
<1>2. TypeOK /\ AllSound /\ Saved /\ Recorded /\ Torn /\ NoneComes /\ Placed /\ CloseLeavesNothing
  BY DEF IInv
<1>3. TypeOK'
  BY <1>1, <1>2 DEF TypeOK, OfWorkspace, Held
<1>4. Torn'
  BY <1>1, <1>2 DEF TypeOK, Torn, OfWorkspace
<1> QED BY <1>1, <1>2, <1>3, <1>4
        DEF IInv, AllSound, Saved, Recorded, NoneComes, Placed, CloseLeavesNothing, Clean, Held

LEMMA BeginSteps == ASSUME IInv, NEW w \in Workspaces, TeardownBegins(w) PROVE IInv'
<1>1. /\ w \in open /\ tear[w] = "none"
      /\ tear' = [tear EXCEPT ![w] = "begun"]
      /\ stored' = [stored EXCEPT ![w] = {s \in OfWorkspace(w) : agent[s].row # "none"}]
      /\ late' = (late \ OfWorkspace(w)) \cup {s \in OfWorkspace(w) : making[s] = "checked"}
      /\ UNCHANGED <<agent, home, making, open, todo, waiting, call, faults, stray, unsaved>>
  BY DEF TeardownBegins, losses
<1>2. TypeOK /\ AllSound /\ Saved /\ Recorded /\ Torn /\ NoneComes /\ Placed /\ CloseLeavesNothing
  BY DEF IInv
<1>3. TypeOK'
  BY <1>1, <1>2 DEF TypeOK, OfWorkspace, Held
<1>4. Torn'
  <2> SUFFICES ASSUME NEW v \in Workspaces
               PROVE  /\ \A r \in stored'[v] : home[r] = v
                      /\ tear'[v] # "none" =>
                           /\ v \in open
                           /\ \A r \in Sessions : home[r] = v /\ r \notin late' =>
                                /\ making[r] \in {"created", "done"}
                                /\ agent[r].row # "none" => r \in stored'[v]
                      /\ tear'[v] = "closing" =>
                           \A r \in Sessions : home[r] = v /\ r \notin late'
                              /\ agent[r].term \in {"alive", "dead"} => r \in waiting[v]
    BY <1>1 DEF Torn, OfWorkspace
  <2>1. CASE v = w
    <3>1. /\ tear'[v] = "begun" /\ stored'[v] = {s \in OfWorkspace(w) : agent[s].row # "none"}
      BY <1>1, <1>2, <2>1 DEF TypeOK
    <3>2. ASSUME NEW r \in Sessions, home[r] = v, r \notin late'
          PROVE  making[r] \in {"created", "done"}
      <4>1. making[r] # "none"
        BY <1>2, <3>2, LifecycleAssumption DEF Placed
      <4> QED BY <1>1, <1>2, <2>1, <3>2, <4>1 DEF OfWorkspace, TypeOK
    <3> QED BY <1>1, <2>1, <3>1, <3>2 DEF OfWorkspace
  <2>2. CASE v # w
    <3>1. tear'[v] = tear[v] /\ stored'[v] = stored[v]
      BY <1>1, <1>2, <2>2 DEF TypeOK
    <3>2. \A r \in Sessions : home[r] = v /\ r \notin late' => r \notin late
      BY <1>1, <2>2 DEF OfWorkspace
    <3> QED BY <1>2, <3>1, <3>2 DEF Torn, OfWorkspace
  <2> QED BY <2>1, <2>2
<1>5. \A r \in Sessions : home[r] \in Workspaces \ open /\ r \notin late' => r \notin late
  BY <1>1 DEF OfWorkspace
<1>6. Saved' /\ Recorded' /\ NoneComes' /\ CloseLeavesNothing'
  BY <1>1, <1>2, <1>5 DEF Saved, Recorded, NoneComes, CloseLeavesNothing, Clean, Held
<1> QED BY <1>1, <1>2, <1>3, <1>4, <1>6 DEF IInv, AllSound, Placed
\* closeForWorkspace.
LEMMA ClosesSteps == ASSUME IInv, NEW w \in Workspaces, TeardownCloses(w) PROVE IInv'
<1> DEFINE here == {s \in OfWorkspace(w) : agent[s].term \in {"alive", "dead"}}
<1>1. /\ tear[w] = "stopping"
      /\ tear' = [tear EXCEPT ![w] = "closing"]
      /\ agent' = [s \in Sessions |-> IF s \in here THEN Closing(agent[s]) ELSE agent[s]]
      /\ waiting' = [waiting EXCEPT ![w] = here]
      /\ UNCHANGED <<home, making, open, todo, stored, call, faults, late, stray, unsaved>>
  BY DEF TeardownCloses, losses
<1>2. TypeOK /\ AllSound /\ Saved /\ Recorded /\ Torn /\ NoneComes /\ Placed /\ CloseLeavesNothing
  BY DEF IInv
<1>3. \A s \in Sessions : Keeps(agent[s], agent'[s]) /\ RowKept(agent[s], agent'[s])
  BY <1>1, <1>2, ClosingKeeps, KeepsSelf DEF AllSound
<1>4. AllSound'
  BY <1>3 DEF AllSound, Keeps
<1>5. here \subseteq Sessions
  BY DEF OfWorkspace
<1> HIDE DEF here
<1>6. TypeOK'
  <2>1. agent' \in [Sessions -> Agent] /\ \A s \in Sessions : agent'[s].linked => Held(s)'
    BY <1>1, <1>4 DEF AllSound, Sound, Held
  <2> QED BY <1>1, <1>2, <1>5, <2>1 DEF TypeOK
<1>7. Torn'
  <2> SUFFICES ASSUME NEW v \in Workspaces
               PROVE  /\ \A r \in stored[v] : home[r] = v
                      /\ tear'[v] # "none" =>
                           /\ v \in open
                           /\ \A r \in Sessions : home[r] = v /\ r \notin late =>
                                /\ making[r] \in {"created", "done"}
                                /\ agent'[r].row # "none" => r \in stored[v]
                      /\ tear'[v] = "closing" =>
                           \A r \in Sessions : home[r] = v /\ r \notin late
                              /\ agent'[r].term \in {"alive", "dead"} => r \in waiting'[v]
    BY <1>1 DEF Torn, OfWorkspace
  <2>1. \A r \in Sessions : agent'[r].term \in {"alive", "dead"} => agent[r].term \in {"alive", "dead"}
    BY <1>2, <1>3 DEF AllSound, Sound, Agent, Keeps
  <2>2. \A r \in Sessions : agent'[r].row # "none" => agent[r].row # "none"
    BY <1>3 DEF Keeps
  <2>3. CASE v = w
    <3>1. waiting'[v] = here /\ tear[v] = "stopping"
      BY <1>1, <1>2, <2>3 DEF TypeOK
    <3>2. \A r \in Sessions : home[r] = v /\ agent[r].term \in {"alive", "dead"} => r \in here
      BY <2>3 DEF here, OfWorkspace
    <3> QED BY <1>2, <2>1, <2>2, <3>1, <3>2 DEF Torn, OfWorkspace
  <2>4. CASE v # w
    <3>1. waiting'[v] = waiting[v] /\ tear'[v] = tear[v]
      BY <1>1, <1>2, <2>4 DEF TypeOK
    <3>2. Torn
      BY <1>2
    <3> QED BY <2>1, <2>2, <3>1, <3>2 DEF Torn, OfWorkspace
  <2> QED BY <2>3, <2>4
<1>8. Saved' /\ Recorded' /\ NoneComes' /\ Placed'
  BY <1>1, <1>2, <1>3 DEF Saved, Recorded, NoneComes, Placed, Keeps, RowKept
<1>9. CloseLeavesNothing'
  <2> SUFFICES ASSUME NEW s \in Sessions, home[s] \in Workspaces \ open, s \notin late
               PROVE  Clean(s)'
    BY <1>1 DEF CloseLeavesNothing
  <2>1. Clean(s) /\ Keeps(agent[s], agent'[s]) /\ stray' = stray
    BY <1>1, <1>2, <1>3 DEF CloseLeavesNothing
  <2>2. PICK b : b = agent'[s]
    OBVIOUS
  <2>3. /\ b.state = "none" /\ b.row = "none" /\ b.term \in {"none", "gone"}
        /\ b.meta = agent[s].meta /\ ~b.token
    BY <2>1, <2>2 DEF Clean, Held, Keeps, Sound
  <2>4. b.meta => s \in stray
    BY <2>1, <2>3 DEF Clean
  <2> QED BY <2>1, <2>2, <2>3, <2>4 DEF Clean, Held
<1> QED BY <1>4, <1>6, <1>7, <1>8, <1>9 DEF IInv

\* The end of a teardown: what it closed is late or clean.
LEMMA EndsSteps == ASSUME IInv, NEW w \in Workspaces, TeardownEnds(w) PROVE IInv'
<1>1. /\ tear[w] = "closing"
      /\ \A s \in waiting[w] : ClosedFully(agent[s])
      /\ agent' = [s \in Sessions |-> Cleared(s, Ended(w), stored[w], stored[w])]
      /\ open' = open \ {w}
      /\ tear' = [tear EXCEPT ![w] = "none"]
      /\ waiting' = [waiting EXCEPT ![w] = {}]
      /\ stored' = [stored EXCEPT ![w] = {}]
      /\ UNCHANGED <<home, making, todo, call, faults, late, stray, unsaved>>
  BY DEF TeardownEnds, losses
<1>2. TypeOK /\ AllSound /\ Saved /\ Recorded /\ Torn /\ NoneComes /\ Placed /\ CloseLeavesNothing
  BY DEF IInv
<1>3. ASSUME NEW s \in Sessions
      PROVE  /\ Shrinks(agent[s], agent'[s])
             /\ agent'[s].row = IF s \in Ended(w) \cup stored[w] THEN "none" ELSE agent[s].row
             /\ s \in stored[w] => ~agent'[s].meta
             /\ agent'[s].state = IF s \in Ended(w) THEN "none" ELSE agent[s].state
  <2>1. s \in Ended(w) => agent[s].state = "ended"
    BY DEF Ended
  <2>2. PICK rows : rows = stored[w]
    OBVIOUS
  <2>3. PICK b : b = Cleared(s, Ended(w), rows, rows)
    OBVIOUS
  <2>4. /\ Shrinks(agent[s], b)
        /\ b.row = IF s \in Ended(w) \cup rows THEN "none" ELSE agent[s].row
        /\ s \in rows => ~b.meta
        /\ b.state = IF s \in Ended(w) THEN "none" ELSE agent[s].state
    BY <1>2, <2>1, <2>3, ClearedShrinks DEF AllSound
  <2>5. agent'[s] = b
    BY <1>1, <2>2, <2>3
  <2> QED BY <2>2, <2>4, <2>5
<1>4. AllSound'
  BY <1>3 DEF AllSound, Shrinks
<1>5. TypeOK'
  <2>1. agent' \in [Sessions -> Agent] /\ \A s \in Sessions : agent'[s].linked => Held(s)'
    BY <1>1, <1>4 DEF AllSound, Sound, Held
  <2> QED BY <1>1, <1>2, <2>1 DEF TypeOK
<1>6. \A s \in Sessions : home[s] # w => s \notin stored[w] /\ s \notin Ended(w)
  BY <1>2 DEF Torn, Ended, OfWorkspace
<1>7. \A s \in Sessions : home[s] = w /\ s \notin late =>
                             /\ making[s] \in {"created", "done"}
                             /\ agent[s].row # "none" => s \in stored[w]
                             /\ agent[s].term \in {"alive", "dead"} => s \in waiting[w]
  BY <1>1, <1>2 DEF Torn, OfWorkspace
<1>8. Saved'
  BY <1>1, <1>2, <1>3 DEF Saved
<1>9. Recorded'
  <2> SUFFICES ASSUME NEW s \in Sessions, s \notin stray, home[s] \notin Workspaces \ open'
               PROVE  /\ agent'[s].meta => agent'[s].row # "none"
                      /\ making[s] = "created" => agent'[s].row # "none"
    BY <1>1 DEF Recorded
  <2>1. home[s] # w /\ home[s] \notin Workspaces \ open
    BY <1>1, <1>2 DEF TypeOK
  <2>2. agent'[s].row = agent[s].row /\ (agent'[s].meta => agent[s].meta)
    BY <1>3, <1>6, <2>1 DEF Shrinks
  <2> QED BY <1>2, <2>1, <2>2 DEF Recorded
<1>10. Torn'
  <2> SUFFICES ASSUME NEW v \in Workspaces
               PROVE  /\ \A r \in stored'[v] : home[r] = v
                      /\ tear'[v] # "none" =>
                           /\ v \in open'
                           /\ \A r \in Sessions : home[r] = v /\ r \notin late =>
                                /\ making[r] \in {"created", "done"}
                                /\ agent'[r].row # "none" => r \in stored'[v]
                      /\ tear'[v] = "closing" =>
                           \A r \in Sessions : home[r] = v /\ r \notin late
                              /\ agent'[r].term \in {"alive", "dead"} => r \in waiting'[v]
    BY <1>1 DEF Torn, OfWorkspace
  <2>1. CASE v = w
    BY <1>1, <1>2, <2>1 DEF TypeOK
  <2>2. CASE v # w
    <3>1. stored'[v] = stored[v] /\ tear'[v] = tear[v] /\ waiting'[v] = waiting[v]
          /\ (v \in open => v \in open')
      BY <1>1, <1>2, <2>2 DEF TypeOK
    <3>2. \A r \in Sessions :
            /\ agent'[r].row # "none" => agent[r].row # "none"
            /\ agent'[r].term \in {"alive", "dead"} => agent[r].term \in {"alive", "dead"}
      BY <1>3 DEF Shrinks
    <3>3. Torn
      BY <1>2
    <3> QED BY <3>1, <3>2, <3>3 DEF Torn, OfWorkspace
  <2> QED BY <2>1, <2>2
<1>11. NoneComes' /\ Placed'
  BY <1>1, <1>2, <1>7 DEF NoneComes, Placed
<1>12. CloseLeavesNothing'
  <2> SUFFICES ASSUME NEW s \in Sessions, home[s] \in Workspaces \ open', s \notin late
               PROVE  Clean(s)'
    BY <1>1 DEF CloseLeavesNothing
  <2>1. CASE home[s] # w
    <3>1. Clean(s) /\ Shrinks(agent[s], agent'[s])
      BY <1>1, <1>2, <1>3, <2>1 DEF CloseLeavesNothing
    <3>2. /\ agent[s].state = "none" /\ agent[s].row = "none"
          /\ agent[s].term \in {"none", "gone"} /\ (agent[s].meta => s \in stray)
      BY <3>1 DEF Clean, Held
    <3>3. /\ agent'[s].state = "none" /\ agent'[s].row = "none"
          /\ agent'[s].meta => agent[s].meta
      BY <3>1, <3>2 DEF Shrinks
    <3>4. agent'[s].term \in {"none", "gone"} /\ ~agent'[s].token
      BY <3>1, <3>2, <3>3 DEF Shrinks, Sound, Agent
    <3> QED BY <1>1, <3>2, <3>3, <3>4 DEF Clean, Held
  <2>2. CASE home[s] = w
    <3>1. w \in open
      BY <1>1, <1>2 DEF Torn
    <3>2. agent[s].term \in {"none", "gone"}
      BY <1>1, <1>2, <1>7, <2>2 DEF ClosedFully, AllSound, Sound, Agent
    <3>3. agent[s].state \in {"none", "ended"}
      BY <1>2, <3>2 DEF AllSound, Sound, Agent
    <3>4. agent'[s].state = "none"
      BY <1>3, <2>2, <3>3 DEF Ended, OfWorkspace
    <3>5. agent'[s].row = "none"
      BY <1>3, <1>7, <2>2
    <3>6. agent'[s].meta => s \in stray
      BY <1>2, <1>3, <1>7, <2>2, <3>1 DEF Recorded, Shrinks
    <3>7. agent'[s].term \in {"none", "gone"} /\ ~agent'[s].token
      BY <1>3, <3>2, <3>4 DEF Shrinks, Sound, Agent
    <3> QED BY <1>1, <3>4, <3>5, <3>6, <3>7 DEF Clean, Held
  <2> QED BY <2>1, <2>2
<1> QED BY <1>4, <1>5, <1>8, <1>9, <1>10, <1>11, <1>12 DEF IInv

----------------------------------------------------------------------------
LEMMA InitIInv == Init => IInv
<1> SUFFICES ASSUME Init PROVE IInv
  OBVIOUS
<1>1. AllSound
  BY UnbornSound DEF Init, AllSound
<1>2. TypeOK
  <2>1. agent \in [Sessions -> Agent] /\ \A s \in Sessions : agent[s].linked => Held(s)
    BY <1>1 DEF Init, AllSound, Sound, Held
  <2> QED BY <2>1 DEF Init, TypeOK, Idle
<1>3. Saved /\ Recorded /\ Torn /\ NoneComes /\ Placed /\ CloseLeavesNothing
  BY LifecycleAssumption, UnbornFields
     DEF Init, Saved, Recorded, Torn, NoneComes, Placed, CloseLeavesNothing, Idle, OfWorkspace
<1> QED BY <1>1, <1>2, <1>3 DEF IInv

LEMMA StepIInv == IInv /\ [Next]_vars => IInv'
<1> SUFFICES ASSUME IInv, [Next]_vars PROVE IInv'
  OBVIOUS
<1>1. CASE UNCHANGED vars
  BY <1>1 DEF vars, IInv, TypeOK, AllSound, Saved, Recorded, Torn, NoneComes, Placed, CloseLeavesNothing,
              Clean, Held, OfWorkspace
<1>2. CASE \E s \in Sessions, w \in Workspaces : CreateChecks(s, w)
  BY <1>2, CheckSteps
<1>3. CASE \E s \in Sessions, at \in {"spawn", "terminal row", "session row"} : CreateFails(s, at)
  BY <1>3, FailSteps
<1>4. CASE \E s \in Sessions : CreateRegisters(s)
  BY <1>4, RegisterSteps
<1>5. CASE \E s \in Sessions, written \in BOOLEAN : CreateRecords(s, written)
  BY <1>5, RecordSteps
<1>6. CASE \/ \E s \in Sessions : \/ Dies(s) \/ KillCompletes(s)
                                 \/ CloseSettles(s) \/ CleanupTimer(s)
           \/ \E s \in Sessions, saved \in BOOLEAN : ExitEvent(s, saved)
  BY <1>6, TerminalSteps
<1>7. CASE \/ \E c \in Callers, s \in Sessions :
                StopCall(c, "stop", s) \/ StopCall(c, "close", s) \/ CloseCall(c, s)
           \/ \E c \in Callers : CallContinues(c)
  BY <1>7, CallSteps
<1>8. CASE \E c \in Callers, last \in Writes : CallRemoves(c, last)
  <2>1. PICK c \in Callers, last \in Writes : CallRemoves(c, last)
    BY <1>8
  <2>2. call[c].session \in Sessions
    BY <2>1 DEF CallRemoves, IInv, Placed
  <2> QED BY <2>1, <2>2, RemovalSteps
<1>9. CASE \E s \in Sessions, last \in Writes : RemoveCall(s, last)
  BY <1>9, RemovalSteps
<1>10. CASE \E w \in Workspaces : TeardownBegins(w) \/ TeardownStops(w) \/ TeardownCloses(w)
                                 \/ TeardownEnds(w) \/ TeardownRefused(w)
  BY <1>10, BeginSteps, StopsSteps, ClosesSteps, EndsSteps, RefusedSteps
<1>11. CASE \E w \in Workspaces, s \in Sessions : TeardownStop(w, s) \/ TeardownStopped(w, s)
  BY <1>11, StoppingSteps
<1>12. CASE \E w \in Workspaces : \E ended \in SUBSET Ended(w), rows, metas \in SUBSET stored[w] :
              TeardownFails(w, ended, rows, metas) \/ CrashClosing(w, ended, rows, metas)
  <2>1. PICK w \in Workspaces : \E ended \in SUBSET Ended(w), rows, metas \in SUBSET stored[w] :
              TeardownFails(w, ended, rows, metas) \/ CrashClosing(w, ended, rows, metas)
    BY <1>12
  <2>2. PICK ended \in SUBSET Ended(w), rows \in SUBSET stored[w], metas \in SUBSET stored[w] :
              TeardownFails(w, ended, rows, metas) \/ CrashClosing(w, ended, rows, metas)
    BY <2>1
  <2>3. CASE TeardownFails(w, ended, rows, metas)
    BY <2>3, FailureSteps
  <2>4. CASE CrashClosing(w, ended, rows, metas)
    BY <2>4, CrashSteps
  <2> QED BY <2>2, <2>3, <2>4
<1>13. CASE Crash \/ \E s \in Sessions : CrashRemoving(s)
  BY <1>13, CrashSteps
<1> QED BY <1>1, <1>2, <1>3, <1>4, <1>5, <1>6, <1>7, <1>8, <1>9, <1>10, <1>11, <1>12, <1>13 DEF Next

\* The inductive invariant of creation, exit, stop, close, removal, teardown and
\* crash, in every order the managers' awaits allow and with any write throwing.
THEOREM Invariance == Spec => []IInv
  BY InitIInv, StepIInv, PTL DEF Spec

\* Every variable keeps its type, terminalToSession leads only to sessions the
\* manager holds, and no terminal is disposed more than once.
THEOREM TypeCorrect == Spec => []TypeOK
<1>1. IInv => TypeOK
  BY DEF IInv
<1> QED BY <1>1, Invariance, PTL

\* A session SessionManager takes for live has a terminal that runs, and the
\* terminal leads back to it.
THEOREM LiveSessionsHaveTerminals == Spec => []LiveHasTerminal
<1>1. IInv => LiveHasTerminal
  BY DEF IInv, AllSound, Sound, LiveHasTerminal
<1> QED BY <1>1, Invariance, PTL

\* A session that is not live has no token.  Its row does not say that it runs,
\* unless finishSession could not write it since the last start; rows that are
\* not hydrated, because they have their end time, never do.
THEOREM TokensOfTheLiving == Spec => []OnlyTheLiving
<1>1. IInv => OnlyTheLiving
  BY DEF IInv, AllSound, Sound, Saved, OnlyTheLiving
<1> QED BY <1>1, Invariance, PTL

\* A closed workspace has no session, row, token or terminal of those that had
\* their row when it was closed, however often the server crashed and whatever
\* writes of closes and removals threw before; and no metadata of them either
\* but where a row was deleted without it.
THEOREM ClosedWorkspacesEmpty == Spec => []CloseLeavesNothing
<1>1. IInv => CloseLeavesNothing
  BY DEF IInv
<1> QED BY <1>1, Invariance, PTL
=============================================================================
