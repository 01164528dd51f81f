-------------------------- MODULE SupervisorCycle --------------------------
(***************************************************************************)
(* One supervisor of packages/server/src/supervisor/manager.ts: the        *)
(* evaluation cycle (beginCycle, finishCycle, executeCycleWithRetry,       *)
(* finalizeSuccessfulCycle, markSupervisorError) interleaved with the      *)
(* calls a client makes on it (pause, resume, delete, update, restore) and *)
(* with the session it drives.                                             *)
(*                                                                         *)
(* The server is one JavaScript thread: everything between two awaits is   *)
(* one step.  A pc names the await an asynchronous function is suspended   *)
(* at, and the action for that pc is the continuation up to the next       *)
(* await.  Continuations of promises that are already settled run in the   *)
(* same step.  updatePersistedSupervisor is one await: the supervisor must *)
(* be in the repository when it is called, meta.json is read and written   *)
(* (this may fail), and the patch is applied to the repository afterwards  *)
(* -- to whatever the repository holds by then.                            *)
(***************************************************************************)
EXTENDS Integers, FiniteSets

CONSTANTS
  Runs,       \* slots for concurrently executing evaluations (beginCycle ...)
  Calls,      \* slots for concurrently executing client calls
  Ops,        \* the operations the clients of this instance use
  Triggers,   \* the kinds of trigger that occur in this instance
  MaxCount,   \* maxSupervisionCount; 0 means unlimited
  RetryMax,   \* retryMaxCount of the retry settings; 0 is retries disabled
  IoFails,    \* whether file system calls of the target store may fail
  MaxTime,    \* bound: the last value of the clock
  MaxRuns,    \* bound: evaluations begun
  MaxCalls    \* bound: client calls made

AllOps == {"pause", "resume", "delete", "objective", "edit", "restore"}
AllTriggers == {"turn_completed", "manual", "scheduled"}

ASSUME CycleAssumption ==
  /\ Ops \subseteq AllOps
  /\ Triggers \subseteq AllTriggers
  /\ IoFails \in BOOLEAN
  /\ {MaxCount, RetryMax, MaxTime, MaxRuns, MaxCalls} \subseteq Nat

VARIABLES
  repo,             \* the supervisor's entry in SupervisorRepo
  snap,             \* its entry in SupervisorManager.supervisors
  inFlight,         \* it is a member of inFlight, with a controller and a completion
  aborted,          \* the AbortSignal of the cycle in flight
  pendingDelete,    \* membership of pendingDeletes, and of
  pendingPause,     \* pendingPauses, and of
  pendingObjective, \* pendingObjectiveUpdates
  run,              \* the evaluations, by slot
  call,             \* the client calls, by slot
  session,          \* the state of the supervised session
  clock,            \* Date.now(), coarsened to the instants that matter
  started, issued,  \* evaluations begun and calls made, against the bounds
  \* History variables: nothing in the model reads them but the properties.
  asked,            \* cancellations asked for since the cycle in flight began
  injections,       \* guidance messages the cycle in flight wrote to the session
  intent,           \* what the last pause call promised
  deleteAsked,      \* where the cycle was when delete was called
  fires,            \* how often each schedule time has started a cycle
  finalized         \* cycles whose outcome was persisted since the last reset

flags == <<pendingDelete, pendingPause, pendingObjective>>
lock == <<inFlight, aborted>>
bounds == <<started, issued>>
history == <<asked, injections, intent, deleteAsked, fires, finalized>>
vars == <<repo, snap, lock, flags, run, call, session, clock, bounds, history>>

SupervisorStates == {"idle", "evaluating", "injecting", "paused", "stopped", "error"}
Times == 0..MaxTime            \* as a schedule, 0 is "no schedule"
Injectable == {"idle", "running"}

\* A supervisor as far as control depends on it; "gone" stands for no entry.
Entry == [state : SupervisorStates \cup {"gone"}, count : Nat, sched : Times]
NoEntry == [state |-> "gone", count |-> 0, sched |-> 0]
Exists(e) == e.state # "gone"

BeginPCs == {"context", "flipEvaluating"}
AttemptPCs == {"evaluate", "retryWait", "flipRetry", "flipInjecting"}
OutcomePCs == {"saveOutcome", "flipFinal", "attachFinal"}
CancelPCs == {"abortRecord", "flipAborted"}
FailPCs == {"flipFailed", "attachFailed"}
\* The awaits of an evaluation that holds inFlight, and of one that does not.
CyclePCs == BeginPCs \cup AttemptPCs \cup OutcomePCs \cup CancelPCs \cup FailPCs
TailPCs == {"flipStopped", "markError", "attachError"}

\* rec is the supervisor as the suspended function captured it, due the schedule
\* that this cycle consumes.
Run == [pc : CyclePCs \cup TailPCs \cup {"off"}, trigger : AllTriggers,
        attempt : Nat, rec : Entry, due : Times,
        verdict : {"continue", "stop"}]
NoRun == [pc |-> "off", trigger |-> "manual", attempt |-> 0, rec |-> NoEntry,
          due |-> 0, verdict |-> "continue"]

WaitPCs == {"waitDelete", "waitCycle"}
CallPCs == {"persist", "woken", "reset", "persistUpdate", "rollback",
            "attachUpdate", "clone", "persistRestore", "finishRestore"}
Keep == -1   \* an update that leaves scheduledAt out of its patch
Call == [op : AllOps, pc : CallPCs \cup WaitPCs \cup {"off"}, arg : Times \cup {Keep},
         rec : Entry, cur : Entry]
NoCall == [op |-> "pause", pc |-> "off", arg |-> Keep, rec |-> NoEntry, cur |-> NoEntry]

TypeOK ==
  /\ repo \in Entry /\ snap \in Entry
  /\ inFlight \in BOOLEAN /\ aborted \in BOOLEAN
  /\ pendingDelete \in BOOLEAN /\ pendingPause \in BOOLEAN /\ pendingObjective \in BOOLEAN
  /\ run \in [Runs -> Run]
  /\ call \in [Calls -> Call]
  /\ session \in {"starting", "idle", "running", "ended", "removed"}
  /\ clock \in Times
  /\ started \in Nat /\ issued \in Nat /\ injections \in Nat /\ finalized \in Nat
  /\ asked \subseteq {"pause", "delete", "objective"}
  /\ intent \in {"none", "early", "late"}
  /\ deleteAsked \in {"none", "preparing", "final", "aborting", "marking"}
  /\ fires \in [Times -> Nat]

\* create() has just stored the supervisor; it may have been given a schedule.
Init ==
  /\ repo \in [state : {"idle"}, count : {0},
               sched : IF "scheduled" \in Triggers THEN Times \cap {0, 1} ELSE {0}]
  /\ snap = repo
  /\ inFlight = FALSE /\ aborted = FALSE
  /\ pendingDelete = FALSE /\ pendingPause = FALSE /\ pendingObjective = FALSE
  /\ run = [k \in Runs |-> NoRun]
  /\ call = [c \in Calls |-> NoCall]
  /\ session \in {"starting", "idle", "running"}
  /\ clock = 0
  /\ started = 0 /\ issued = 0
  /\ asked = {} /\ injections = 0 /\ intent = "none" /\ deleteAsked = "none"
  /\ fires = [t \in Times |-> 0] /\ finalized = 0

----------------------------------------------------------------------------
(* Pieces of the handlers.                                                 *)

\* Mutant: update() is not woken.
ResolvedDeletesOnly(r) == IF r.pc = "waitDelete" THEN NoCall ELSE r

\* releaseInFlight resolves the completion: delete() returns, update() goes on.
Resolved(r) == IF r.pc = "waitDelete" THEN NoCall
               ELSE IF r.pc = "waitCycle" THEN [r EXCEPT !.pc = "woken"] ELSE r
ReleaseInFlight ==
  /\ inFlight' = FALSE
  /\ aborted' = FALSE
  /\ call' = [c \in Calls |-> Resolved(call[c])]

DeleteNow ==
  /\ repo' = NoEntry /\ snap' = NoEntry
  /\ pendingDelete' = FALSE /\ pendingPause' = FALSE /\ pendingObjective' = FALSE
  /\ ReleaseInFlight

\* Mutants: the flags survive the cycle; the cycle ends without releasing.
FinallyKeepsFlags(k) ==
  /\ run' = [run EXCEPT ![k] = NoRun]
  /\ UNCHANGED flags
  /\ ReleaseInFlight
FinallyHolds(k) ==
  /\ run' = [run EXCEPT ![k] = NoRun]
  /\ pendingObjective' = FALSE /\ pendingPause' = FALSE
  /\ UNCHANGED <<pendingDelete, lock, call>>

\* The finally block of finishCycle.
Finally(k) ==
  /\ run' = [run EXCEPT ![k] = NoRun]
  /\ pendingObjective' = FALSE /\ pendingPause' = FALSE
  /\ UNCHANGED pendingDelete
  /\ ReleaseInFlight

Suspend(k, r) == run' = [run EXCEPT ![k] = r] /\ UNCHANGED <<flags, lock, call>>
At(k, pc) == [run[k] EXCEPT !.pc = pc]

\* Whether the persist a function is suspended at can still take effect.
PersistCan == Exists(repo)
PersistMayFail == IoFails \/ ~Exists(repo)

\* The failure branch of finishCycle's catch; s and r are the current entries.
EnterFailure(k, s, r) ==
  IF Exists(s) /\ Exists(r) THEN Suspend(k, At(k, "flipFailed")) ELSE Finally(k)

\* The state a cancelled cycle leaves, given the snapshot.  The mutant trusts the
\* snapshot, which a pause in progress has not reached yet.
AbortStateOfSnapshot(s) == IF s.state = "paused" THEN "paused" ELSE "idle"
AbortState(s) ==
  IF pendingPause \/ (~pendingObjective /\ s.state = "paused") THEN "paused" ELSE "idle"

\* Its abort branch: a pending delete first, then an objective update, a pause.
\* The mutant ends the cycle without writing the state back.
EnterAbortSilently(k, s, r) ==
  IF Exists(s) /\ pendingDelete THEN Suspend(k, At(k, "abortRecord")) ELSE Finally(k)
EnterAbort(k, s, r) ==
  IF Exists(s) /\ pendingDelete THEN Suspend(k, At(k, "abortRecord"))
  ELSE IF Exists(s) /\ Exists(r)
       THEN Suspend(k, [run[k] EXCEPT !.pc = "flipAborted", !.rec.state = AbortState(s)])
       ELSE Finally(k)

\* The catch block of beginCycle: release, then markSupervisorError.
BeginFails(k) ==
  /\ run' = [run EXCEPT ![k] = IF Exists(repo) THEN At(k, "markError") ELSE NoRun]
  /\ UNCHANGED flags
  /\ ReleaseInFlight

\* The last statement of both regular ends: honour a pending delete.  The mutant
\* does so only while the supervisor has not been stopped.
DeleteUnlessStopped(k, e) ==
  IF pendingDelete /\ e.state # "stopped"
  THEN DeleteNow /\ run' = [run EXCEPT ![k] = NoRun]
  ELSE snap' = e /\ UNCHANGED repo /\ Finally(k)
DeleteIfPending(k, e) ==
  IF pendingDelete
  THEN DeleteNow /\ run' = [run EXCEPT ![k] = NoRun]
  ELSE snap' = e /\ UNCHANGED repo /\ Finally(k)

----------------------------------------------------------------------------
(* beginCycle                                                              *)

\* The guards before the first await, in the order that decides which applies:
\* the caps are tested before the schedule.
\* The mutant does not look at inFlight.
CapReached == MaxCount > 0 /\ snap.count >= MaxCount
AcceptsWhileBusy(t) ==
  /\ Exists(snap) /\ session # "removed"
  /\ ~CapReached
  /\ IF t = "manual" THEN snap.state \notin {"paused", "stopped"} /\ session \in Injectable
     ELSE snap.state = "idle" /\ session \in Injectable
Accepts(t) ==
  /\ Exists(snap) /\ session # "removed"
  /\ ~inFlight
  /\ snap.state \notin {"paused", "stopped"}
  /\ t # "manual" => snap.state = "idle" /\ session \in Injectable
  /\ IF CapReached THEN Exists(repo)
     ELSE CASE t = "turn_completed" -> snap.sched <= clock
            [] t = "scheduled"      -> snap.sched \in 1..clock
            [] t = "manual"         -> session \in Injectable

CanTrigger(k, t) == run[k].pc = "off" /\ started < MaxRuns /\ Accepts(t)

\* beginCycle up to its first await; a rejected trigger changes nothing.
Trigger(k, t) ==
  /\ CanTrigger(k, t)
  /\ IF CapReached
     THEN /\ run' = [run EXCEPT ![k] = At(k, "flipStopped")]
          /\ UNCHANGED <<lock, asked, injections>>
     ELSE /\ inFlight' = TRUE /\ aborted' = FALSE
          /\ asked' = {} /\ injections' = 0
          /\ run' = [run EXCEPT ![k] =
                       [NoRun EXCEPT !.pc = "context", !.trigger = t, !.rec = snap]]
  /\ started' = started + 1
  /\ intent' = "none"
  /\ UNCHANGED <<repo, snap, flags, call, clock, issued, deleteAsked,
                 fires, finalized>>

\* A manual trigger comes from a client.  The scheduler's timer fires when
\* listScheduledSupervisors() has an entry that is due.
ManualTrigger(k) == "manual" \in Triggers /\ Trigger(k, "manual") /\ UNCHANGED session
ScheduledDue(k) ==
  /\ "scheduled" \in Triggers
  /\ snap.state = "idle" /\ snap.sched \in 1..clock
  /\ Trigger(k, "scheduled")
  /\ UNCHANGED session

\* Target state and context are read; the schedule is consumed if it is due.
BuildContext(k) ==
  /\ run[k].pc = "context"
  /\ \/ /\ Exists(repo)
        /\ LET r == run[k]
               consumes == \/ r.trigger = "scheduled"
                           \/ r.trigger = "turn_completed" /\ r.rec.sched <= clock
           IN  Suspend(k, [r EXCEPT !.pc = "flipEvaluating",
                                    !.due = IF consumes THEN r.rec.sched ELSE 0])
     \/ /\ IoFails \/ session = "removed" \/ ~Exists(repo)
        /\ BeginFails(k)
  /\ UNCHANGED <<repo, snap, session, clock, bounds, history>>

\* The schedule after the flip; undefined in the patch keeps the repository's.  The
\* mutants consume it only when the scheduler noticed, and store the marker.
ScheduleOfTimer(r) == IF r.trigger = "scheduled" THEN 0 ELSE repo.sched
ScheduleMarked(r) == IF r.due # 0 THEN Keep ELSE repo.sched
NextSchedule(r) ==
  IF r.due # 0 THEN 0 ELSE IF r.rec.sched # 0 THEN r.rec.sched ELSE repo.sched

FlipEvaluating(k) ==
  /\ run[k].pc = "flipEvaluating"
  /\ \/ /\ PersistCan
        /\ repo' = [repo EXCEPT !.state = "evaluating", !.sched = NextSchedule(run[k])]
        /\ fires' = IF run[k].due # 0 THEN [fires EXCEPT ![run[k].due] = @ + 1] ELSE fires
        /\ snap' = repo'
        /\ Suspend(k, At(k, "evaluate"))
     \/ /\ PersistMayFail
        /\ BeginFails(k)
        /\ UNCHANGED <<repo, snap, fires>>
  /\ UNCHANGED <<session, clock, bounds, asked, injections, intent, deleteAsked, finalized>>

\* The cap was reached.  This runs without inFlight.
FlipStopped(k) ==
  /\ run[k].pc = "flipStopped"
  /\ \/ /\ PersistCan
        /\ repo' = [repo EXCEPT !.state = "stopped"] /\ snap' = repo'
     \/ PersistMayFail /\ UNCHANGED <<repo, snap>>
  /\ Suspend(k, NoRun)
  /\ UNCHANGED <<session, clock, bounds, history>>

\* markSupervisorError, also without inFlight; its own failures are only logged.
MarkError(k) ==
  /\ run[k].pc = "markError"
  /\ \/ /\ PersistCan
        /\ repo' = [repo EXCEPT !.state = "error"]
        /\ Suspend(k, [run[k] EXCEPT !.pc = "attachError", !.rec = repo'])
     \/ PersistMayFail /\ Suspend(k, NoRun) /\ UNCHANGED repo
  /\ UNCHANGED <<snap, session, clock, bounds, history>>

AttachError(k) ==
  /\ run[k].pc = "attachError"
  /\ snap' = run[k].rec \/ (IoFails /\ UNCHANGED snap)
  /\ Suspend(k, NoRun)
  /\ UNCHANGED <<repo, session, clock, bounds, history>>

----------------------------------------------------------------------------
(* executeCycleWithRetry                                                   *)

\* The passes of one attempt.  An aborted evaluator is killed and rejects;
\* only a timeout that was already terminating it, or a failing target write
\* between two passes, gets ahead of the abort.
EvaluatorAborts(k) ==
  /\ run[k].pc = "evaluate"
  /\ aborted
  /\ EnterAbort(k, snap, repo)
  /\ UNCHANGED <<repo, snap, session, clock, bounds, history>>

\* A timeout or an evaluator failure: retried while the budget lasts.
EvaluatorFails(k) ==
  /\ run[k].pc = "evaluate"
  /\ IF run[k].attempt < RetryMax
     THEN IF aborted THEN EnterAbort(k, snap, repo) ELSE Suspend(k, At(k, "retryWait"))
     ELSE EnterFailure(k, snap, repo)
  /\ UNCHANGED <<repo, snap, session, clock, bounds, history>>

\* Any other error of a pass is not retried.
EvaluationBreaks(k) ==
  /\ run[k].pc = "evaluate"
  /\ EnterFailure(k, snap, repo)
  /\ UNCHANGED <<repo, snap, session, clock, bounds, history>>

\* A stop verdict, or a verdict without guidance to inject.
EvaluatorConcludes(k, verdict) ==
  /\ run[k].pc = "evaluate"
  /\ ~aborted
  /\ Suspend(k, [run[k] EXCEPT !.pc = "saveOutcome", !.verdict = verdict])
  /\ UNCHANGED <<repo, snap, session, clock, bounds, history>>

EvaluatorGuides(k) ==
  /\ run[k].pc = "evaluate"
  /\ ~aborted
  /\ IF pendingPause THEN EnterAbort(k, snap, repo)
     ELSE IF Exists(snap) /\ Exists(repo) THEN Suspend(k, At(k, "flipInjecting"))
     ELSE EnterFailure(k, snap, repo)
  /\ UNCHANGED <<repo, snap, session, clock, bounds, history>>

\* sleep() rejects on abort; otherwise the timer starts the next attempt.
RetryElapses(k) ==
  /\ run[k].pc = "retryWait"
  /\ IF aborted THEN EnterAbort(k, snap, repo)
     ELSE IF Exists(repo) THEN Suspend(k, At(k, "flipRetry"))
     ELSE EnterFailure(k, snap, repo)
  /\ UNCHANGED <<repo, snap, session, clock, bounds, history>>

FlipRetry(k) ==
  /\ run[k].pc = "flipRetry"
  /\ \/ /\ PersistCan
        /\ repo' = [repo EXCEPT !.state = "evaluating"] /\ snap' = repo'
        /\ Suspend(k, [run[k] EXCEPT !.pc = "evaluate", !.attempt = @ + 1])
     \/ /\ PersistMayFail
        /\ EnterFailure(k, snap, repo)
        /\ UNCHANGED <<repo, snap>>
  /\ UNCHANGED <<session, clock, bounds, history>>

\* Mutant: inject() without its look at the signal.
InjectUnchecked(k) ==
  IF session \notin Injectable
  THEN EnterFailure(k, snap', repo') /\ UNCHANGED <<session, injections>>
  ELSE /\ session' = "running"
       /\ injections' = injections + 1
       /\ Suspend(k, [run[k] EXCEPT !.pc = "saveOutcome", !.verdict = "continue"])

\* The state flips to injecting, and inject() runs in the same step: it looks
\* at the signal, then at the session, then writes to the session's terminal.
Inject(k) ==
  IF aborted
  THEN EnterAbort(k, snap', repo') /\ UNCHANGED <<session, injections>>
  ELSE IF session \notin Injectable
  THEN EnterFailure(k, snap', repo') /\ UNCHANGED <<session, injections>>
  ELSE /\ session' = "running"
       /\ injections' = injections + 1
       /\ Suspend(k, [run[k] EXCEPT !.pc = "saveOutcome", !.verdict = "continue"])

FlipInjecting(k) ==
  /\ run[k].pc = "flipInjecting"
  /\ \/ /\ PersistCan
        /\ repo' = [repo EXCEPT !.state = "injecting"] /\ snap' = repo'
        /\ Inject(k)
     \/ /\ PersistMayFail
        /\ EnterFailure(k, snap, repo)
        /\ UNCHANGED <<repo, snap, session, injections>>
  /\ UNCHANGED <<clock, bounds, asked, intent, deleteAsked, fires, finalized>>

----------------------------------------------------------------------------
(* finalizeSuccessfulCycle                                                 *)

\* The final patch, with the count of the snapshot of that moment.  The mutant
\* counts the attempts of a cycle.
FinalEntryOfAttempts(k) ==
  [state |-> IF run[k].verdict = "stop" THEN "stopped" ELSE "idle",
   count |-> snap.count + run[k].attempt + 1, sched |-> 0]
FinalEntry(k) ==
  [state |-> IF run[k].verdict = "stop" THEN "stopped" ELSE "idle",
   count |-> snap.count + 1, sched |-> 0]

\* Target memory, cycle record and target status are written first.
SaveOutcome(k) ==
  /\ run[k].pc = "saveOutcome"
  /\ \/ IF Exists(repo)
        THEN Suspend(k, [run[k] EXCEPT !.pc = "flipFinal", !.rec = FinalEntry(k)])
        ELSE EnterFailure(k, snap, repo)
     \/ IoFails /\ EnterFailure(k, snap, repo)
  /\ UNCHANGED <<repo, snap, session, clock, bounds, history>>

FlipFinal(k) ==
  /\ run[k].pc = "flipFinal"
  /\ \/ /\ PersistCan
        /\ repo' = [run[k].rec EXCEPT !.sched = repo.sched]
        /\ finalized' = finalized + 1
        /\ Suspend(k, [run[k] EXCEPT !.pc = "attachFinal", !.rec = repo'])
     \/ /\ PersistMayFail
        /\ EnterFailure(k, snap, repo)
        /\ UNCHANGED <<repo, finalized>>
  /\ UNCHANGED <<snap, session, clock, bounds, asked, injections, intent, deleteAsked, fires>>

\* What was persisted becomes the snapshot only after the target state is read.
AttachFinal(k) ==
  /\ run[k].pc = "attachFinal"
  /\ \/ DeleteIfPending(k, run[k].rec)
     \/ IoFails /\ EnterFailure(k, snap, repo) /\ UNCHANGED <<repo, snap>>
  /\ UNCHANGED <<session, clock, bounds, history>>

----------------------------------------------------------------------------
(* The catch block of finishCycle                                          *)

AbortRecord(k) ==
  /\ run[k].pc = "abortRecord"
  /\ \/ DeleteNow /\ run' = [run EXCEPT ![k] = NoRun]
     \/ IoFails /\ Finally(k) /\ UNCHANGED <<repo, snap>>
  /\ UNCHANGED <<session, clock, bounds, history>>

FlipAborted(k) ==
  /\ run[k].pc = "flipAborted"
  /\ \/ PersistCan /\ repo' = [repo EXCEPT !.state = run[k].rec.state] /\ snap' = repo'
     \/ PersistMayFail /\ UNCHANGED <<repo, snap>>
  /\ Finally(k)
  /\ UNCHANGED <<session, clock, bounds, history>>

FlipFailed(k) ==
  /\ run[k].pc = "flipFailed"
  /\ \/ /\ PersistCan
        /\ repo' = [repo EXCEPT !.state = "error"]
        /\ Suspend(k, [run[k] EXCEPT !.pc = "attachFailed", !.rec = repo'])
     \/ PersistMayFail /\ Finally(k) /\ UNCHANGED repo
  /\ UNCHANGED <<snap, session, clock, bounds, history>>

AttachFailed(k) ==
  /\ run[k].pc = "attachFailed"
  /\ \/ DeleteIfPending(k, run[k].rec)
     \/ IoFails /\ Finally(k) /\ UNCHANGED <<repo, snap>>
  /\ UNCHANGED <<session, clock, bounds, history>>

----------------------------------------------------------------------------
(* The calls of clients                                                    *)

CanCall(c, op) == op \in Ops /\ call[c].pc = "off" /\ issued < MaxCalls
Begin(c, op, pc, arg, rec, cur) ==
  call' = [call EXCEPT ![c] = [op |-> op, pc |-> pc, arg |-> arg, rec |-> rec, cur |-> cur]]
CallAt(c, pc) == [call EXCEPT ![c].pc = pc]
Return(c) == call' = [call EXCEPT ![c] = NoCall]

\* Ask the cycle in flight, if any, to stop because of w.
Cancel(w) ==
  /\ aborted' = (aborted \/ inFlight)
  /\ asked' = IF inFlight THEN asked \cup {w} ELSE asked

\* What a pause promises: "early" before the outcome of the evaluation is being
\* saved, nothing at all while another call may write the state.
OutcomeOpen == \E k \in Runs : run[k].pc \in BeginPCs \cup AttemptPCs
PauseMoment(c) == IF \E d \in Calls \ {c} : call[d].pc # "off" THEN "none"
                  ELSE IF OutcomeOpen THEN "early" ELSE "late"

\* pause() asks the cycle to stop before it finds out whether the supervisor exists.
Pause(c) ==
  /\ CanCall(c, "pause") /\ (inFlight \/ Exists(repo))
  /\ Cancel("pause")
  /\ pendingPause' = (pendingPause \/ inFlight)
  /\ IF Exists(repo)
     THEN Begin(c, "pause", "persist", Keep, [NoEntry EXCEPT !.state = "paused"], NoEntry)
     ELSE UNCHANGED call
  /\ intent' = PauseMoment(c)
  /\ issued' = issued + 1
  /\ UNCHANGED <<repo, snap, inFlight, pendingDelete, pendingObjective, run, session,
                 clock, started, injections, deleteAsked, fires, finalized>>

\* resume() looks neither at the state nor at a pending pause.
Resume(c) ==
  /\ CanCall(c, "resume") /\ Exists(repo)
  /\ Begin(c, "resume", "persist", Keep, [NoEntry EXCEPT !.state = "idle"], NoEntry)
  /\ intent' = "none"
  /\ issued' = issued + 1
  /\ UNCHANGED <<repo, snap, lock, flags, run, session, clock, started, asked,
                 injections, deleteAsked, fires, finalized>>

\* pause() and resume() after their persist.
PersistState(c) ==
  /\ call[c].pc = "persist"
  /\ \/ PersistCan /\ repo' = [repo EXCEPT !.state = call[c].rec.state] /\ snap' = repo'
     \/ PersistMayFail /\ UNCHANGED <<repo, snap>>
  /\ Return(c)
  /\ UNCHANGED <<lock, flags, run, session, clock, bounds, history>>

\* delete() of a supervisor whose cycle is in flight only asks for the deletion.
AskDelete ==
  /\ Cancel("delete")
  /\ pendingDelete' = TRUE
  /\ UNCHANGED <<repo, snap, inFlight, pendingPause, pendingObjective>>

\* What a delete promises depends on where it finds the cycle: "final" if the cycle
\* in flight still has its look at the pending deletes before it, or there is none.
DeleteMoment ==
  IF \E k \in Runs : run[k].pc \in {"markError", "attachError"} THEN "marking"
  ELSE IF \E k \in Runs : run[k].pc \in BeginPCs THEN "preparing"
  ELSE IF \E k \in Runs : run[k].pc = "flipAborted" THEN "aborting"
  ELSE "final"

\* The mutant does not wait for the cycle.
DeleteAtOnce(c) ==
  /\ CanCall(c, "delete") /\ Exists(snap)
  /\ repo' = NoEntry /\ snap' = NoEntry
  /\ deleteAsked' = DeleteMoment
  /\ issued' = issued + 1
  /\ UNCHANGED <<lock, flags, call, run, session, clock, started, asked, injections, intent,
                 fires, finalized>>

Delete(c) ==
  /\ CanCall(c, "delete") /\ Exists(snap)
  /\ IF inFlight
     THEN AskDelete /\ Begin(c, "delete", "waitDelete", Keep, NoEntry, NoEntry)
     ELSE DeleteNow /\ UNCHANGED asked
  /\ deleteAsked' = DeleteMoment
  /\ issued' = issued + 1
  /\ UNCHANGED <<run, session, clock, started, injections, intent, fires,
                 finalized>>

\* The session is removed; the manager deletes its supervisor on that event.
SessionRemoved ==
  /\ "delete" \in Ops
  /\ session = "ended"
  /\ session' = "removed"
  /\ IF ~Exists(snap) THEN UNCHANGED <<repo, snap, lock, flags, call, asked, deleteAsked>>
     ELSE /\ deleteAsked' = DeleteMoment
          /\ IF inFlight THEN AskDelete /\ UNCHANGED call
             ELSE DeleteNow /\ UNCHANGED asked
  /\ UNCHANGED <<run, clock, bounds, injections, intent, fires, finalized>>

\* The patch of update() is computed from the snapshot of this moment: it
\* writes back every field of it, not only those the client changed.  A schedule
\* of 0 in the patch keeps the one in the repository (undefined), unless the
\* client cleared it (arg = 0).
StartUpdate(c, op, arg) ==
  LET kept == IF snap.state = "paused" THEN "paused" ELSE "idle"
      next == IF op = "objective" THEN [state |-> kept, count |-> 0, sched |-> snap.sched]
              ELSE [snap EXCEPT !.state = IF @ = "error" THEN "idle" ELSE @]
      rec == IF arg = Keep THEN next ELSE [next EXCEPT !.sched = arg]
  IN  IF op = "objective" THEN Begin(c, op, "reset", arg, rec, snap)
      ELSE IF Exists(repo) THEN Begin(c, op, "persistUpdate", arg, rec, snap)
      ELSE Return(c)

\* An objective change first cancels the cycle in flight and waits for its end.
Update(c, op, arg) ==
  /\ Exists(snap)
  /\ IF op = "objective" /\ inFlight
     THEN /\ Cancel("objective")
          /\ pendingObjective' = TRUE
          /\ Begin(c, op, "waitCycle", arg, NoEntry, NoEntry)
     ELSE StartUpdate(c, op, arg) /\ UNCHANGED <<aborted, asked, pendingObjective>>
  /\ intent' = "none"
  /\ issued' = issued + 1
  /\ UNCHANGED <<repo, snap, inFlight, pendingDelete, pendingPause, run, session, clock,
                 started, injections, deleteAsked, fires, finalized>>

\* "edit" changes evaluator, model, cap or schedule; arg is the new schedule.
ScheduleArgs == {Keep} \cup (IF "scheduled" \in Triggers
                             THEN {0} \cup {t \in Times : t > clock} ELSE {})
UpdateObjective(c) ==
  CanCall(c, "objective") /\ \E arg \in ScheduleArgs : Update(c, "objective", arg)
Edit(c) == CanCall(c, "edit") /\ \E arg \in ScheduleArgs : Update(c, "edit", arg)

UpdateWoken(c) ==
  /\ call[c].pc = "woken"
  /\ IF Exists(snap) THEN StartUpdate(c, call[c].op, call[c].arg) ELSE Return(c)
  /\ UNCHANGED <<repo, snap, lock, flags, run, session, clock, bounds, history>>

\* After a failure the rollback writes the captured snapshot back.
EnterRollback(c) == IF Exists(repo) THEN call' = CallAt(c, "rollback") ELSE Return(c)

ResetTarget(c) ==
  /\ call[c].pc = "reset"
  /\ \/ IF Exists(repo) THEN call' = CallAt(c, "persistUpdate") ELSE EnterRollback(c)
     \/ IoFails /\ EnterRollback(c)
  /\ UNCHANGED <<repo, snap, lock, flags, run, session, clock, bounds, history>>

PersistUpdate(c) ==
  /\ call[c].pc = "persistUpdate"
  /\ \/ /\ PersistCan
        /\ LET rec == call[c].rec
           IN  repo' = IF rec.sched = 0 /\ call[c].arg = Keep
                       THEN [rec EXCEPT !.sched = repo.sched] ELSE rec
        /\ call' = CallAt(c, "attachUpdate")
        /\ finalized' = IF call[c].op = "objective" THEN 0 ELSE finalized
     \/ /\ PersistMayFail
        /\ IF call[c].op = "objective" THEN EnterRollback(c) ELSE Return(c)
        /\ UNCHANGED <<repo, finalized>>
  /\ UNCHANGED <<snap, lock, flags, run, session, clock, bounds, asked, injections, intent,
                 deleteAsked, fires>>

Rollback(c) ==
  /\ call[c].pc = "rollback"
  /\ \/ PersistCan /\ repo' = call[c].cur
     \/ PersistMayFail /\ UNCHANGED repo
  /\ Return(c)
  /\ UNCHANGED <<snap, lock, flags, run, session, clock, bounds, history>>

\* hydratePersistedSupervisor: the latest entry becomes the snapshot.
AttachUpdate(c) ==
  /\ call[c].pc = "attachUpdate"
  /\ \/ Exists(repo) /\ snap' = repo
     \/ PersistMayFail /\ UNCHANGED snap
  /\ Return(c)
  /\ UNCHANGED <<repo, lock, flags, run, session, clock, bounds, history>>

\* restore() into the session's existing supervisor does not look at inFlight.
Restore(c) ==
  /\ CanCall(c, "restore") /\ Exists(snap)
  /\ \E arg \in ScheduleArgs : Begin(c, "restore", "clone", arg, NoEntry, snap)
  /\ intent' = "none"
  /\ issued' = issued + 1
  /\ UNCHANGED <<repo, snap, lock, flags, run, session, clock, started, asked,
                 injections, deleteAsked, fires, finalized>>

\* The source's files are cloned; its cycles become the count.
CloneTarget(c) ==
  /\ call[c].pc = "clone"
  /\ \/ /\ Exists(repo)
        /\ \E cycles \in 0..1 :
             LET kept == IF call[c].cur.state = "paused" THEN "paused" ELSE "idle"
                 sched == IF call[c].arg = Keep THEN 0 ELSE call[c].arg
             IN  Begin(c, "restore", "persistRestore", call[c].arg,
                       [state |-> kept, count |-> cycles, sched |-> sched], call[c].cur)
     \/ PersistMayFail /\ Return(c)
  /\ UNCHANGED <<repo, snap, lock, flags, run, session, clock, bounds, history>>

PersistRestore(c) ==
  /\ call[c].pc = "persistRestore"
  /\ \/ /\ PersistCan
        /\ repo' = call[c].rec
        /\ finalized' = repo'.count
        /\ call' = CallAt(c, "finishRestore")
     \/ PersistMayFail /\ Return(c) /\ UNCHANGED <<repo, finalized>>
  /\ UNCHANGED <<snap, lock, flags, run, session, clock, bounds, asked, injections, intent,
                 deleteAsked, fires>>

\* The source target is removed, then the captured entry becomes the snapshot.
FinishRestore(c) ==
  /\ call[c].pc = "finishRestore"
  /\ snap' = call[c].rec \/ (IoFails /\ UNCHANGED snap)
  /\ Return(c)
  /\ UNCHANGED <<repo, lock, flags, run, session, clock, bounds, history>>

----------------------------------------------------------------------------
(* The session and the clock                                               *)

SessionMoves ==
  /\ \/ session = "starting" /\ session' = "idle"
     \/ session = "idle" /\ session' = "running"
     \/ session \in {"starting", "idle", "running"} /\ session' = "ended"
  /\ UNCHANGED <<repo, snap, lock, flags, run, call, clock, bounds, history>>

\* The session goes idle and announces turn_completed in the same step.
TurnCompletes ==
  /\ session = "running" /\ session' = "idle"
  /\ IF "turn_completed" \in Triggers /\ \E k \in Runs : CanTrigger(k, "turn_completed")
     THEN \E k \in Runs : Trigger(k, "turn_completed")
     ELSE UNCHANGED <<repo, snap, lock, flags, run, call, clock, bounds, history>>

Tick ==
  /\ "scheduled" \in Triggers
  /\ clock < MaxTime /\ clock' = clock + 1
  /\ UNCHANGED <<repo, snap, lock, flags, run, call, session, bounds, history>>

RunStep(k) ==
  \/ BuildContext(k) \/ FlipEvaluating(k) \/ FlipStopped(k) \/ MarkError(k)
  \/ AttachError(k)
  \/ EvaluatorAborts(k) \/ EvaluatorFails(k) \/ EvaluationBreaks(k)
  \/ EvaluatorConcludes(k, "stop") \/ EvaluatorConcludes(k, "continue") \/ EvaluatorGuides(k)
  \/ RetryElapses(k) \/ FlipRetry(k) \/ FlipInjecting(k)
  \/ SaveOutcome(k) \/ FlipFinal(k) \/ AttachFinal(k)
  \/ AbortRecord(k) \/ FlipAborted(k) \/ FlipFailed(k) \/ AttachFailed(k)

CallStep(c) ==
  \/ PersistState(c) \/ UpdateWoken(c) \/ ResetTarget(c) \/ PersistUpdate(c)
  \/ Rollback(c) \/ AttachUpdate(c) \/ CloneTarget(c) \/ PersistRestore(c)
  \/ FinishRestore(c)

CallBegins(c) ==
  Pause(c) \/ Resume(c) \/ Delete(c) \/ UpdateObjective(c) \/ Edit(c) \/ Restore(c)

Next ==
  \/ \E k \in Runs : ManualTrigger(k) \/ ScheduledDue(k) \/ RunStep(k)
  \/ \E c \in Calls : CallBegins(c) \/ CallStep(c)
  \/ SessionRemoved \/ SessionMoves \/ TurnCompletes \/ Tick

Spec == Init /\ [][Next]_vars

\* Evaluators are killed at their timeout and file operations end, so every
\* suspended function goes on; nobody has to make a call or to start a turn.
Fairness ==
  /\ \A k \in Runs : WF_vars(RunStep(k))
  /\ \A c \in Calls : WF_vars(CallStep(c))
FairSpec == Spec /\ Fairness

----------------------------------------------------------------------------
(* Properties                                                              *)

Quiet == (\A k \in Runs : run[k].pc = "off") /\ (\A c \in Calls : call[c].pc = "off")
Active == {"evaluating", "injecting"}

\* inFlight is exactly "an evaluation is between its guards and its release",
\* and there is never a second one: triggers of the client, the scheduler and the
\* session race for it across the awaits, and three code paths release it.
OneCycle ==
  /\ inFlight <=> \E k \in Runs : run[k].pc \in CyclePCs
  /\ \A j, k \in Runs : run[j].pc \in CyclePCs /\ run[k].pc \in CyclePCs => j = k

\* A cycle that was asked to stop, by pause, delete or a new objective, at any
\* await since its guards, never writes guidance to the session afterwards.
CancelledNeverInjects == [][injections' > injections => asked = {}]_vars

\* Whoever waits for the completion of a cycle waits for one that will be
\* resolved: completions are dropped from the map as they are resolved.
WaitersHaveCycle == \A c \in Calls : call[c].pc \in WaitPCs => inFlight

\* While a cycle runs its attempts or writes its outcome, its supervisor exists:
\* delete() and the removal of the session leave it to the cycle to delete it.
CycleOwnsSupervisor ==
  \A k \in Runs : run[k].pc \in CyclePCs \ BeginPCs => Exists(repo) /\ Exists(snap)

\* Nothing outlives a cycle: without updates and restores racing with it a
\* supervisor shows evaluating or injecting only while one is in flight, and a
\* pause or objective change that it honoured is not left to cancel the next.
\* (A cycle whose preparation failed leaves its flags; without failing files
\* only the removal of the session makes it fail.)
NothingOutlivesCycle ==
  /\ snap.state \in Active => inFlight
  /\ session # "removed" => (pendingPause \/ pendingObjective => inFlight)

\* The count is the number of cycles whose outcome was saved, whatever aborts,
\* failures and pauses came between, and it does not pass the cap.
CountExact ==
  /\ Quiet /\ Exists(repo) => repo.count = finalized /\ snap.count = finalized
  /\ MaxCount > 0 => repo.count <= MaxCount

\* One schedule starts one cycle, whoever notices first that it is due.
ScheduleFiresOnce == \A t \in Times : fires[t] <= 1

\* A pause accepted while the evaluation is being prepared, evaluates, waits for
\* a retry or is about to inject leaves the supervisor paused -- or in error,
\* if the evaluator timed out first.
PauseHoldsBeforeOutcome ==
  Quiet /\ intent = "early" => snap.state \in {"paused", "error", "gone"}

\* Whenever a pause was accepted, the supervisor does not end up idle, from
\* where the next turn of the session would start another cycle.
PauseHolds == Quiet /\ intent # "none" => snap.state # "idle"

\* A delete accepted during the attempts, while their outcome or failure is saved,
\* or with no cycle about, has removed the supervisor once all is quiet.  One
\* accepted while a cycle is prepared is lost to it if the preparation fails, and one
\* accepted while a cancelled cycle writes its state back is lost to it always: the
\* call returns and the supervisor is there.  But it is not forgotten: it is still
\* pending, and the next cycle, if there is one, ends with it.  (Only what is accepted
\* while a failed preparation is being marked may be undone, by the mark.)
DeletesAreKept ==
  Quiet => /\ deleteAsked = "final" => ~Exists(snap)
           /\ deleteAsked \in {"preparing", "aborting"} => ~Exists(snap) \/ pendingDelete

\* The evaluations in flight implement the abstract slot: at most one, and its
\* one write to the session precedes any cancellation.
Slot == INSTANCE EvaluationSlot WITH
          Evaluations <- Runs, holders <- {k \in Runs : run[k].pc \in CyclePCs},
          cancelled <- aborted, writes <- injections
SlotSpec == Slot!Spec

\* Every cycle ends and releases inFlight; every call, also one that waits for a
\* cycle, returns.
CycleEnds == inFlight ~> ~inFlight
CallsReturn == \A c \in Calls : call[c].pc # "off" ~> call[c].pc = "off"
=============================================================================
