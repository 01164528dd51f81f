----------------------- MODULE SupervisorCycle_proofs -----------------------
(***************************************************************************)
(* Proofs about SupervisorCycle, for every set of slots, every cap, retry   *)
(* budget and bound: the type invariant, that at most one evaluation holds  *)
(* inFlight, that nobody waits for a completion that is already resolved,   *)
(* that a cancelled evaluation writes nothing to the session, that the      *)
(* evaluations implement the abstract EvaluationSlot, and that a supervisor *)
(* outlives the cycle that runs for it.                                     *)
(***************************************************************************)
EXTENDS SupervisorCycle, TLAPS

USE DEF lock, flags, bounds, history

\* TypeOK in three parts: what the helpers of the handlers change, what the
\* actions assign directly, and the history variables.
Control ==
  /\ run \in [Runs -> Run]
  /\ call \in [Calls -> Call]
  /\ inFlight \in BOOLEAN /\ aborted \in BOOLEAN
  /\ pendingDelete \in BOOLEAN /\ pendingPause \in BOOLEAN /\ pendingObjective \in BOOLEAN

Data ==
  /\ repo \in Entry /\ snap \in Entry
  /\ session \in {"starting", "idle", "running", "ended", "removed"}
  /\ clock \in Times
  /\ started \in Nat /\ issued \in Nat

History ==
  /\ injections \in Nat /\ finalized \in Nat
  /\ asked \subseteq {"pause", "delete", "objective"}
  /\ intent \in {"none", "early", "late"}
  /\ deleteAsked \in {"none", "preparing", "final", "aborting", "marking"}
  /\ fires \in [Times -> Nat]

LEMMA TypeParts == TypeOK <=> Control /\ Data /\ History
  BY DEF TypeOK, Control, Data, History

\* The part of the inductive invariant about who holds inFlight.
Flight ==
  /\ OneCycle
  /\ WaitersHaveCycle
  /\ ~inFlight => ~aborted

----------------------------------------------------------------------------
(* The neutral records and the records the handlers build.                 *)

LEMMA Neutral ==
  /\ 0 \in Times
  /\ NoEntry \in Entry /\ ~Exists(NoEntry)
  /\ NoCall \in Call /\ NoCall.pc = "off"
  /\ NoRun \in Run /\ NoRun.pc = "off"
<1>1. 0 \in Times
  BY CycleAssumption DEF Times
<1>2. NoEntry \in Entry /\ ~Exists(NoEntry)
  BY <1>1 DEF NoEntry, Entry, Exists
<1>. QED
  BY <1>1, <1>2 DEF NoCall, Call, AllOps, NoRun, Run, AllTriggers

LEMMA OffIsNoCycle == "off" \notin CyclePCs /\ "off" \notin WaitPCs
  BY DEF CyclePCs, BeginPCs, AttemptPCs, OutcomePCs, CancelPCs, FailPCs, WaitPCs

\* A run keeps its type when its pc, or its pc and captured entry, are replaced.
LEMMA RunMoves ==
  ASSUME Control, NEW k \in Runs, NEW p \in CyclePCs \cup TailPCs
  PROVE  At(k, p) \in Run /\ At(k, p).pc = p /\ At(k, p).rec = run[k].rec
  BY DEF At, Run, Control

LEMMA RunCaptures ==
  ASSUME Control, NEW k \in Runs, NEW p \in CyclePCs \cup TailPCs, NEW e \in Entry
  PROVE  /\ [run[k] EXCEPT !.pc = p, !.rec = e] \in Run
         /\ [run[k] EXCEPT !.pc = p, !.rec = e].pc = p
         /\ [run[k] EXCEPT !.pc = p, !.rec = e].rec = e
  BY DEF Run, Control

LEMMA ResolvedType ==
  ASSUME NEW r \in Call
  PROVE  /\ Resolved(r) \in Call
         /\ Resolved(r).pc \notin WaitPCs
<1>1. CASE r.pc = "waitDelete"
  BY <1>1, Neutral, OffIsNoCycle DEF Resolved
<1>2. CASE r.pc = "waitCycle"
  BY <1>2 DEF Resolved, Call, CallPCs, WaitPCs
<1>. QED BY <1>1, <1>2 DEF Resolved, WaitPCs

----------------------------------------------------------------------------
(* What the helpers of the handlers do to Control and Flight.              *)

LEMMA SuspendKeeps ==
  ASSUME Control, Flight, NEW k \in Runs, NEW r \in Run, Suspend(k, r),
         run[k].pc \in CyclePCs <=> r.pc \in CyclePCs
  PROVE  Control' /\ Flight'
<1>1. Control'
  BY DEF Control, Suspend
<1>2. OneCycle'
  BY DEF Control, Suspend, Flight, OneCycle
<1>. QED BY <1>1, <1>2 DEF Suspend, Flight, WaitersHaveCycle

LEMMA ReleaseKeeps ==
  ASSUME Control, Flight, NEW k \in Runs, NEW r \in Run,
         run[k].pc \in CyclePCs, r.pc \notin CyclePCs,
         run' = [run EXCEPT ![k] = r], ReleaseInFlight,
         pendingDelete' \in BOOLEAN, pendingPause' \in BOOLEAN, pendingObjective' \in BOOLEAN
  PROVE  Control' /\ Flight'
<1>1. /\ call' \in [Calls -> Call]
      /\ \A c \in Calls : call'[c].pc \notin WaitPCs
      /\ inFlight' = FALSE /\ aborted' = FALSE
  BY ResolvedType DEF Control, ReleaseInFlight
<1>2. run' \in [Runs -> Run]
  BY DEF Control
<1>3. \A j \in Runs : run'[j].pc \notin CyclePCs
  BY DEF Control, Flight, OneCycle
<1>. QED BY <1>1, <1>2, <1>3 DEF Control, Flight, OneCycle, WaitersHaveCycle

LEMMA FinallyKeeps ==
  ASSUME Control, Flight, NEW k \in Runs, run[k].pc \in CyclePCs, Finally(k)
  PROVE  Control' /\ Flight'
  BY Neutral, OffIsNoCycle, ReleaseKeeps DEF Finally, Control

LEMMA DeleteNowKeeps ==
  ASSUME Control, Flight, DeleteNow,
         \/ ~inFlight /\ run' = run
         \/ \E k \in Runs : run[k].pc \in CyclePCs /\ run' = [run EXCEPT ![k] = NoRun]
  PROVE  Control' /\ Flight' /\ repo' = NoEntry /\ snap' = NoEntry
<1>1. CASE ~inFlight /\ run' = run
  <2>1. /\ call' \in [Calls -> Call]
        /\ \A c \in Calls : call'[c].pc \notin WaitPCs
        /\ inFlight' = FALSE /\ aborted' = FALSE
    BY ResolvedType DEF Control, DeleteNow, ReleaseInFlight
  <2>. QED BY <1>1, <2>1 DEF Control, DeleteNow, Flight, OneCycle, WaitersHaveCycle
<1>2. CASE \E k \in Runs : run[k].pc \in CyclePCs /\ run' = [run EXCEPT ![k] = NoRun]
  BY <1>2, Neutral, OffIsNoCycle, ReleaseKeeps DEF DeleteNow
<1>. QED BY <1>1, <1>2 DEF DeleteNow

LEMMA EnterFailureKeeps ==
  ASSUME Control, Flight, NEW k \in Runs, run[k].pc \in CyclePCs, NEW s, NEW r,
         EnterFailure(k, s, r)
  PROVE  Control' /\ Flight'
<1>1. "flipFailed" \in CyclePCs
  BY DEF CyclePCs, FailPCs
<1>2. At(k, "flipFailed") \in Run /\ At(k, "flipFailed").pc \in CyclePCs
  BY <1>1, RunMoves
<1>3. CASE Suspend(k, At(k, "flipFailed"))
  BY <1>2, <1>3, SuspendKeeps
<1>. QED BY <1>3, FinallyKeeps DEF EnterFailure

LEMMA EnterAbortKeeps ==
  ASSUME Control, Flight, NEW k \in Runs, run[k].pc \in CyclePCs, NEW s, NEW r,
         EnterAbort(k, s, r)
  PROVE  Control' /\ Flight'
<1>1. run[k] \in Run
  BY DEF Control
<1>2. {"abortRecord", "flipAborted"} \subseteq CyclePCs
  BY DEF CyclePCs, CancelPCs
<1> DEFINE next == AbortState(s)
           moved == [run[k] EXCEPT !.pc = "flipAborted", !.rec.state = next]
<1>3. CASE Suspend(k, At(k, "abortRecord"))
  <2>1. At(k, "abortRecord") \in Run /\ At(k, "abortRecord").pc \in CyclePCs
    BY <1>2, RunMoves
  <2>. QED BY <1>3, <2>1, SuspendKeeps
<1>4. CASE Suspend(k, moved)
  <2>1. next \in SupervisorStates
    BY DEF SupervisorStates, AbortState
  <2>2. moved \in Run /\ moved.pc = "flipAborted"
    <3> HIDE DEF next
    <3>. QED BY <1>1, <1>2, <2>1 DEF Run, Entry
  <2>. HIDE DEF moved
  <2>. QED BY <1>2, <1>4, <2>2, SuspendKeeps
<1>. QED BY <1>3, <1>4, FinallyKeeps DEF EnterAbort

\* The catch block of beginCycle ends the flight before it marks the error.
LEMMA BeginFailsKeeps ==
  ASSUME Control, Flight, NEW k \in Runs, run[k].pc \in CyclePCs, BeginFails(k)
  PROVE  Control' /\ Flight'
<1> DEFINE r == IF Exists(repo) THEN At(k, "markError") ELSE NoRun
<1>2. "markError" \in TailPCs /\ "markError" \notin CyclePCs
  BY DEF TailPCs, CyclePCs, BeginPCs, AttemptPCs, OutcomePCs, CancelPCs, FailPCs
<1>3. r \in Run /\ r.pc \notin CyclePCs
  BY <1>2, RunMoves, Neutral, OffIsNoCycle
<1>4. run' = [run EXCEPT ![k] = r] /\ ReleaseInFlight /\ UNCHANGED flags
  BY DEF BeginFails
<1>. HIDE DEF r
<1>. QED BY <1>3, <1>4, ReleaseKeeps DEF Control

LEMMA DeleteIfPendingKeeps ==
  ASSUME Control, Flight, NEW k \in Runs, run[k].pc \in CyclePCs, NEW e \in Entry,
         repo \in Entry, DeleteIfPending(k, e)
  PROVE  Control' /\ Flight' /\ repo' \in Entry /\ snap' \in Entry
  BY Neutral, DeleteNowKeeps, FinallyKeeps DEF DeleteIfPending

----------------------------------------------------------------------------
(* Every step keeps the types and Flight.                                  *)

Typed == Control /\ Data /\ History /\ Flight

LEMMA PcSets ==
  /\ BeginPCs \cup AttemptPCs \cup OutcomePCs \cup CancelPCs \cup FailPCs = CyclePCs
  /\ {"context", "flipEvaluating", "evaluate", "retryWait", "flipRetry", "flipInjecting",
      "saveOutcome", "flipFinal", "attachFinal", "abortRecord", "flipAborted",
      "flipFailed", "attachFailed"} \subseteq CyclePCs
  /\ {"flipStopped", "markError", "attachError"} \subseteq TailPCs
  /\ TailPCs \cap CyclePCs = {}
  BY DEF BeginPCs, AttemptPCs, OutcomePCs, CancelPCs, FailPCs, CyclePCs, TailPCs

LEMMA EntryEdits ==
  ASSUME NEW e \in Entry, NEW st \in SupervisorStates, NEW t \in Times
  PROVE  /\ [e EXCEPT !.state = st] \in Entry
         /\ [e EXCEPT !.sched = t] \in Entry
         /\ [e EXCEPT !.state = st, !.sched = t] \in Entry
  BY DEF Entry

LEMMA TriggerTyped ==
  ASSUME Typed, NEW k \in Runs, NEW t \in AllTriggers, Trigger(k, t), Data'
  PROVE  Typed'
<1> DEFINE new == [NoRun EXCEPT !.pc = "context", !.trigger = t, !.rec = snap]
<1>1. run[k].pc \notin CyclePCs /\ ~inFlight
  BY OffIsNoCycle DEF Trigger, CanTrigger, Accepts
<1>2. History'
  BY DEF Typed, History, Trigger
<1>3. CASE CapReached
  <2>1. At(k, "flipStopped") \in Run /\ At(k, "flipStopped").pc \notin CyclePCs
    BY RunMoves, PcSets DEF Typed
  <2>2. Suspend(k, At(k, "flipStopped"))
    BY <1>3 DEF Trigger, Suspend
  <2>. QED BY <1>1, <1>2, <2>1, <2>2, SuspendKeeps DEF Typed
<1>4. CASE ~CapReached
  <2>1. new \in Run /\ new.pc = "context"
    BY Neutral, PcSets DEF Typed, Data, NoRun, Run
  <2>2. /\ run' = [run EXCEPT ![k] = new]
        /\ inFlight' = TRUE /\ aborted' = FALSE
        /\ UNCHANGED <<flags, call>>
    BY <1>4 DEF Trigger
  <2>. HIDE DEF new
  <2>3. Control'
    BY <2>1, <2>2 DEF Typed, Control
  <2>4. run'[k].pc \in CyclePCs /\ \A j \in Runs \ {k} : run'[j].pc \notin CyclePCs
    BY <1>1, <2>1, <2>2, PcSets DEF Typed, Control, Flight, OneCycle
  <2>5. Flight'
    BY <2>2, <2>4 DEF Flight, OneCycle, WaitersHaveCycle
  <2>. QED BY <1>2, <2>3, <2>5 DEF Typed
<1>. QED BY <1>3, <1>4

LEMMA BuildContextTyped ==
  ASSUME Typed, NEW k \in Runs, BuildContext(k)
  PROVE  Typed'
<1> DEFINE consumes == \/ run[k].trigger = "scheduled"
                       \/ run[k].trigger = "turn_completed" /\ run[k].rec.sched <= clock
           d == IF consumes THEN run[k].rec.sched ELSE 0
           new == [run[k] EXCEPT !.pc = "flipEvaluating", !.due = d]
<1>1. Data' /\ History' /\ run[k].pc \in CyclePCs
  BY PcSets DEF Typed, Data, History, BuildContext
<1>2. CASE Suspend(k, new)
  <2>1. d \in Times
    BY Neutral DEF Typed, Control, Run, Entry
  <2>2. new \in Run /\ new.pc = "flipEvaluating"
    <3>. HIDE DEF d
    <3>. QED BY <2>1, PcSets DEF Typed, Control, Run
  <2>. HIDE DEF new
  <2>. QED BY <1>1, <1>2, <2>2, SuspendKeeps, PcSets DEF Typed
<1>3. CASE BeginFails(k)
  BY <1>1, <1>3, BeginFailsKeeps DEF Typed
<1>. QED BY <1>2, <1>3 DEF BuildContext

LEMMA FlipEvaluatingTyped ==
  ASSUME Typed, NEW k \in Runs, FlipEvaluating(k)
  PROVE  Typed'
<1>1. run[k].pc \in CyclePCs
  BY PcSets DEF FlipEvaluating
<1>2. CASE BeginFails(k) /\ UNCHANGED <<repo, snap, fires>>
  BY <1>1, <1>2, BeginFailsKeeps DEF Typed, Data, History, FlipEvaluating
<1>3. CASE PersistCan /\ ~(BeginFails(k) /\ UNCHANGED <<repo, snap, fires>>)
  <2> DEFINE sched == NextSchedule(run[k])
  <2>1. sched \in Times /\ run[k].due \in Times
    BY Neutral DEF Typed, Control, Data, Run, Entry, NextSchedule
  <2>2. /\ repo' = [repo EXCEPT !.state = "evaluating", !.sched = sched]
        /\ snap' = repo'
        /\ fires' = IF run[k].due # 0 THEN [fires EXCEPT ![run[k].due] = @ + 1] ELSE fires
        /\ Suspend(k, At(k, "evaluate"))
    BY <1>3 DEF FlipEvaluating
  <2>3. Data'
    <3>. HIDE DEF sched
    <3>1. repo' \in Entry
      BY <2>1, <2>2, EntryEdits DEF Typed, Data, SupervisorStates
    <3>. QED BY <2>2, <3>1 DEF Typed, Data, FlipEvaluating
  <2>4. History'
    BY <2>1, <2>2 DEF Typed, History, FlipEvaluating
  <2>5. At(k, "evaluate") \in Run /\ At(k, "evaluate").pc \in CyclePCs
    BY RunMoves, PcSets DEF Typed
  <2>. QED BY <1>1, <2>2, <2>3, <2>4, <2>5, SuspendKeeps DEF Typed
<1>. QED BY <1>2, <1>3 DEF FlipEvaluating

LEMMA FlipStoppedTyped ==
  ASSUME Typed, NEW k \in Runs, FlipStopped(k)
  PROVE  Typed'
<1>1. Data'
  BY EntryEdits DEF Typed, Data, FlipStopped, SupervisorStates
<1>2. run[k].pc \notin CyclePCs /\ NoRun.pc \notin CyclePCs /\ NoRun \in Run
  BY PcSets, Neutral, OffIsNoCycle DEF FlipStopped
<1>3. Suspend(k, NoRun)
  BY DEF FlipStopped
<1>. QED BY <1>1, <1>2, <1>3, SuspendKeeps DEF Typed, History, FlipStopped

LEMMA MarkErrorTyped ==
  ASSUME Typed, NEW k \in Runs, MarkError(k)
  PROVE  Typed'
<1>1. run[k].pc \notin CyclePCs
  BY PcSets DEF MarkError
<1>2. History'
  BY DEF Typed, History, MarkError
<1>3. CASE Suspend(k, NoRun) /\ UNCHANGED repo
  <2>1. NoRun.pc \notin CyclePCs /\ NoRun \in Run
    BY Neutral, OffIsNoCycle
  <2>2. Data'
    BY <1>3 DEF Typed, Data, MarkError
  <2>. QED BY <1>1, <1>2, <1>3, <2>1, <2>2, SuspendKeeps DEF Typed
<1>4. CASE /\ repo' = [repo EXCEPT !.state = "error"]
           /\ Suspend(k, [run[k] EXCEPT !.pc = "attachError", !.rec = repo'])
  <2>1. repo' \in Entry
    BY <1>4, EntryEdits DEF Typed, Data, SupervisorStates
  <2>2. PICK e \in Entry : e = repo'
    BY <2>1
  <2> DEFINE new == [run[k] EXCEPT !.pc = "attachError", !.rec = e]
  <2>3. Data'
    BY <2>1 DEF Typed, Data, MarkError
  <2>4. Suspend(k, new)
    BY <1>4, <2>2
  <2>5. new \in Run /\ new.pc \notin CyclePCs
    <3>1. "attachError" \in TailPCs /\ "attachError" \notin CyclePCs
      BY PcSets
    <3>2. run[k] \in Run
      BY DEF Typed, Control
    <3>. QED BY <3>1, <3>2 DEF Run
  <2>. HIDE DEF new
  <2>. QED BY <1>1, <1>2, <2>3, <2>4, <2>5, SuspendKeeps DEF Typed
<1>. QED BY <1>3, <1>4 DEF MarkError

LEMMA AttachErrorTyped ==
  ASSUME Typed, NEW k \in Runs, AttachError(k)
  PROVE  Typed'
<1>1. run[k].rec \in Entry
  BY DEF Typed, Control, Run
<1>2. Data' /\ History'
  BY <1>1 DEF Typed, Data, History, AttachError
<1>3. run[k].pc \notin CyclePCs /\ NoRun.pc \notin CyclePCs /\ NoRun \in Run
  BY PcSets, Neutral, OffIsNoCycle DEF AttachError
<1>. QED BY <1>2, <1>3, SuspendKeeps DEF Typed, AttachError

\* The steps of an attempt that touch nothing but the evaluation itself.
LEMMA AttemptTyped ==
  ASSUME Typed, NEW k \in Runs,
         \/ EvaluatorAborts(k) \/ EvaluatorFails(k) \/ EvaluationBreaks(k)
         \/ EvaluatorConcludes(k, "stop") \/ EvaluatorConcludes(k, "continue")
         \/ EvaluatorGuides(k) \/ RetryElapses(k)
  PROVE  Typed'
<1>1. run[k].pc \in CyclePCs /\ run[k] \in Run
  BY PcSets DEF EvaluatorAborts, EvaluatorFails, EvaluationBreaks, EvaluatorConcludes,
                EvaluatorGuides, RetryElapses, Typed, Control
<1>2. Data' /\ History'
  BY DEF EvaluatorAborts, EvaluatorFails, EvaluationBreaks, EvaluatorConcludes,
         EvaluatorGuides, RetryElapses, Typed, Data, History
<1>3. CASE EnterAbort(k, snap, repo) \/ EnterFailure(k, snap, repo)
  BY <1>1, <1>2, <1>3, EnterAbortKeeps, EnterFailureKeeps DEF Typed
<1>4. CASE \E p \in CyclePCs : Suspend(k, At(k, p))
  <2>1. PICK p \in CyclePCs : Suspend(k, At(k, p))
    BY <1>4
  <2>2. At(k, p) \in Run /\ At(k, p).pc \in CyclePCs
    BY RunMoves DEF Typed
  <2>. QED BY <1>1, <1>2, <2>1, <2>2, SuspendKeeps DEF Typed
<1>5. CASE \E v \in {"stop", "continue"} :
             Suspend(k, [run[k] EXCEPT !.pc = "saveOutcome", !.verdict = v])
  <2>1. PICK v \in {"stop", "continue"} :
             Suspend(k, [run[k] EXCEPT !.pc = "saveOutcome", !.verdict = v])
    BY <1>5
  <2> DEFINE new == [run[k] EXCEPT !.pc = "saveOutcome", !.verdict = v]
  <2>2. new \in Run /\ new.pc \in CyclePCs
    BY <1>1, PcSets DEF Run
  <2>3. Suspend(k, new)
    BY <2>1
  <2>. HIDE DEF new
  <2>. QED BY <1>1, <1>2, <2>2, <2>3, SuspendKeeps DEF Typed
<1>. QED
  BY <1>3, <1>4, <1>5, PcSets
  DEF EvaluatorAborts, EvaluatorFails, EvaluationBreaks, EvaluatorConcludes,
      EvaluatorGuides, RetryElapses

LEMMA FlipRetryTyped ==
  ASSUME Typed, NEW k \in Runs, FlipRetry(k)
  PROVE  Typed'
<1>1. run[k].pc \in CyclePCs /\ run[k] \in Run
  BY PcSets DEF FlipRetry, Typed, Control
<1>2. Data' /\ History'
  BY EntryEdits DEF FlipRetry, Typed, Data, History, SupervisorStates
<1>3. CASE EnterFailure(k, snap, repo)
  BY <1>1, <1>2, <1>3, EnterFailureKeeps DEF Typed
<1>4. CASE Suspend(k, [run[k] EXCEPT !.pc = "evaluate", !.attempt = @ + 1])
  <2> DEFINE new == [run[k] EXCEPT !.pc = "evaluate", !.attempt = @ + 1]
  <2>1. new \in Run /\ new.pc \in CyclePCs
    <3>1. PICK n \in Nat : n = run[k].attempt + 1
      BY <1>1 DEF Run
    <3>2. new = [run[k] EXCEPT !.pc = "evaluate", !.attempt = n]
      BY <1>1, <3>1 DEF Run
    <3>. QED BY <1>1, <3>2, PcSets DEF Run
  <2>2. Suspend(k, new)
    BY <1>4
  <2>. HIDE DEF new
  <2>. QED BY <1>1, <1>2, <2>1, <2>2, SuspendKeeps DEF Typed
<1>. QED BY <1>3, <1>4 DEF FlipRetry

LEMMA FlipInjectingTyped ==
  ASSUME Typed, NEW k \in Runs, FlipInjecting(k)
  PROVE  Typed'
<1>1. run[k].pc \in CyclePCs /\ run[k] \in Run
  BY PcSets DEF FlipInjecting, Typed, Control
<1>2. Data' /\ History'
  <2>1. repo' \in Entry /\ snap' \in Entry
    BY EntryEdits DEF FlipInjecting, Typed, Data, SupervisorStates
  <2>2. injections' \in Nat /\ session' \in {session, "running"}
    BY DEF FlipInjecting, Inject, Typed, History
  <2>. QED BY <2>1, <2>2 DEF FlipInjecting, Typed, Data, History
<1>3. CASE \E s, r : EnterFailure(k, s, r) \/ EnterAbort(k, s, r)
  BY <1>1, <1>2, <1>3, EnterFailureKeeps, EnterAbortKeeps DEF Typed
<1>4. CASE Suspend(k, [run[k] EXCEPT !.pc = "saveOutcome", !.verdict = "continue"])
  <2> DEFINE new == [run[k] EXCEPT !.pc = "saveOutcome", !.verdict = "continue"]
  <2>1. new \in Run /\ new.pc \in CyclePCs
    BY <1>1, PcSets DEF Run
  <2>2. Suspend(k, new)
    BY <1>4
  <2>. HIDE DEF new
  <2>. QED BY <1>1, <1>2, <2>1, <2>2, SuspendKeeps DEF Typed
<1>. QED BY <1>3, <1>4 DEF FlipInjecting, Inject

LEMMA SaveOutcomeTyped ==
  ASSUME Typed, NEW k \in Runs, SaveOutcome(k)
  PROVE  Typed'
<1>1. run[k].pc \in CyclePCs /\ run[k] \in Run
  BY PcSets DEF SaveOutcome, Typed, Control
<1>2. Data' /\ History'
  BY DEF SaveOutcome, Typed, Data, History
<1>3. CASE EnterFailure(k, snap, repo)
  BY <1>1, <1>2, <1>3, EnterFailureKeeps DEF Typed
<1> DEFINE final == FinalEntry(k)
           new == [run[k] EXCEPT !.pc = "flipFinal", !.rec = final]
<1>4. CASE Suspend(k, new)
  <2>1. snap.count + 1 \in Nat
    BY DEF Typed, Data, Entry
  <2>2. final \in Entry
    BY <2>1, Neutral DEF Entry, SupervisorStates, FinalEntry
  <2>3. new \in Run /\ new.pc \in CyclePCs
    <3>. HIDE DEF final
    <3>. QED BY <1>1, <2>2, PcSets DEF Run
  <2>. HIDE DEF new
  <2>. QED BY <1>1, <1>2, <1>4, <2>3, SuspendKeeps DEF Typed
<1>. QED BY <1>3, <1>4 DEF SaveOutcome

LEMMA FlipFinalTyped ==
  ASSUME Typed, NEW k \in Runs, FlipFinal(k)
  PROVE  Typed'
<1>1. run[k].pc \in CyclePCs /\ run[k] \in Run
  BY PcSets DEF FlipFinal, Typed, Control
<1>2. repo' \in Entry
  BY <1>1 DEF FlipFinal, Typed, Data, Run, Entry
<1>3. Data' /\ History'
  BY <1>2 DEF FlipFinal, Typed, Data, History
<1>4. CASE EnterFailure(k, snap, repo)
  BY <1>1, <1>3, <1>4, EnterFailureKeeps DEF Typed
<1>5. CASE Suspend(k, [run[k] EXCEPT !.pc = "attachFinal", !.rec = repo'])
  <2>1. PICK e \in Entry : e = repo'
    BY <1>2
  <2> DEFINE new == [run[k] EXCEPT !.pc = "attachFinal", !.rec = e]
  <2>2. new \in Run /\ new.pc \in CyclePCs
    BY <1>1, PcSets DEF Run
  <2>3. Suspend(k, new)
    BY <1>5, <2>1
  <2>. HIDE DEF new
  <2>. QED BY <1>1, <1>3, <2>2, <2>3, SuspendKeeps DEF Typed
<1>. QED BY <1>4, <1>5 DEF FlipFinal

LEMMA AttachFinalTyped ==
  ASSUME Typed, NEW k \in Runs, AttachFinal(k)
  PROVE  Typed'
<1>1. run[k].pc \in CyclePCs /\ run[k].rec \in Entry
  BY PcSets DEF AttachFinal, Typed, Control, Run
<1>2. History'
  BY DEF AttachFinal, Typed, History
<1>3. CASE DeleteIfPending(k, run[k].rec)
  BY <1>1, <1>2, <1>3, DeleteIfPendingKeeps DEF AttachFinal, Typed, Data
<1>4. CASE EnterFailure(k, snap, repo) /\ UNCHANGED <<repo, snap>>
  BY <1>1, <1>2, <1>4, EnterFailureKeeps DEF AttachFinal, Typed, Data
<1>. QED BY <1>3, <1>4 DEF AttachFinal

LEMMA AbortRecordTyped ==
  ASSUME Typed, NEW k \in Runs, AbortRecord(k)
  PROVE  Typed'
<1>1. run[k].pc \in CyclePCs
  BY PcSets DEF AbortRecord
<1>2. CASE DeleteNow /\ run' = [run EXCEPT ![k] = NoRun]
  BY <1>1, <1>2, DeleteNowKeeps, Neutral DEF AbortRecord, Typed, Data, History
<1>3. CASE Finally(k) /\ UNCHANGED <<repo, snap>>
  BY <1>1, <1>3, FinallyKeeps DEF AbortRecord, Typed, Data, History
<1>. QED BY <1>2, <1>3 DEF AbortRecord

LEMMA FlipAbortedTyped ==
  ASSUME Typed, NEW k \in Runs, FlipAborted(k)
  PROVE  Typed'
<1>1. run[k].pc \in CyclePCs /\ run[k].rec.state \in SupervisorStates \cup {"gone"}
  BY PcSets DEF FlipAborted, Typed, Control, Run, Entry
<1>2. repo' \in Entry /\ snap' \in Entry
  BY <1>1 DEF FlipAborted, Typed, Data, Entry
<1>. QED BY <1>1, <1>2, FinallyKeeps DEF FlipAborted, Typed, Data, History

LEMMA FlipFailedTyped ==
  ASSUME Typed, NEW k \in Runs, FlipFailed(k)
  PROVE  Typed'
<1>1. run[k].pc \in CyclePCs /\ run[k] \in Run
  BY PcSets DEF FlipFailed, Typed, Control
<1>2. repo' \in Entry
  BY EntryEdits DEF FlipFailed, Typed, Data, SupervisorStates
<1>3. Data' /\ History'
  BY <1>2 DEF FlipFailed, Typed, Data, History
<1>4. CASE Finally(k)
  BY <1>1, <1>3, <1>4, FinallyKeeps DEF Typed
<1>5. CASE Suspend(k, [run[k] EXCEPT !.pc = "attachFailed", !.rec = repo'])
  <2>1. PICK e \in Entry : e = repo'
    BY <1>2
  <2> DEFINE new == [run[k] EXCEPT !.pc = "attachFailed", !.rec = e]
  <2>2. new \in Run /\ new.pc \in CyclePCs
    BY <1>1, PcSets DEF Run
  <2>3. Suspend(k, new)
    BY <1>5, <2>1
  <2>. HIDE DEF new
  <2>. QED BY <1>1, <1>3, <2>2, <2>3, SuspendKeeps DEF Typed
<1>. QED BY <1>4, <1>5 DEF FlipFailed

LEMMA AttachFailedTyped ==
  ASSUME Typed, NEW k \in Runs, AttachFailed(k)
  PROVE  Typed'
<1>1. run[k].pc \in CyclePCs /\ run[k].rec \in Entry
  BY PcSets DEF AttachFailed, Typed, Control, Run
<1>2. History'
  BY DEF AttachFailed, Typed, History
<1>3. CASE DeleteIfPending(k, run[k].rec)
  BY <1>1, <1>2, <1>3, DeleteIfPendingKeeps DEF AttachFailed, Typed, Data
<1>4. CASE Finally(k) /\ UNCHANGED <<repo, snap>>
  BY <1>1, <1>2, <1>4, FinallyKeeps DEF AttachFailed, Typed, Data
<1>. QED BY <1>3, <1>4 DEF AttachFailed

LEMMA RunStepTyped ==
  ASSUME Typed, NEW k \in Runs, RunStep(k)
  PROVE  Typed'
  BY BuildContextTyped, FlipEvaluatingTyped, FlipStoppedTyped, MarkErrorTyped,
     AttachErrorTyped, AttemptTyped, FlipRetryTyped, FlipInjectingTyped,
     SaveOutcomeTyped, FlipFinalTyped, AttachFinalTyped, AbortRecordTyped,
     FlipAbortedTyped, FlipFailedTyped, AttachFailedTyped DEF RunStep

----------------------------------------------------------------------------
(* The calls.                                                              *)

\* A call that waits for no cycle may be stored at any time, one that does while
\* there is a cycle.
LEMMA CallMoves ==
  ASSUME Control, Flight, NEW c \in Calls, NEW r \in Call,
         r.pc \in WaitPCs => inFlight,
         call' = [call EXCEPT ![c] = r], run' = run,
         inFlight' = inFlight, aborted' \in BOOLEAN, aborted' => inFlight,
         pendingDelete' \in BOOLEAN, pendingPause' \in BOOLEAN, pendingObjective' \in BOOLEAN
  PROVE  Control' /\ Flight'
  BY DEF Control, Flight, OneCycle, WaitersHaveCycle

LEMMA BeginRecord ==
  ASSUME NEW op \in AllOps, NEW pc \in CallPCs \cup WaitPCs,
         NEW arg \in Times \cup {Keep}, NEW rec \in Entry, NEW cur \in Entry
  PROVE  [op |-> op, pc |-> pc, arg |-> arg, rec |-> rec, cur |-> cur] \in Call
  BY DEF Call

LEMMA CallPcSets ==
  /\ {"persist", "woken", "reset", "persistUpdate", "rollback", "attachUpdate",
      "clone", "persistRestore", "finishRestore"} \subseteq CallPCs
  /\ {"waitDelete", "waitCycle"} \subseteq WaitPCs
  /\ CallPCs \cap WaitPCs = {}
  BY DEF CallPCs, WaitPCs

\* Beginning a call, moving it on and returning it, for a step that leaves the
\* evaluations and the lock alone.
LEMMA BeginKeeps ==
  ASSUME Control, Flight, NEW c \in Calls, NEW op \in AllOps,
         NEW pc \in CallPCs \cup WaitPCs, NEW arg \in Times \cup {Keep},
         NEW rec \in Entry, NEW cur \in Entry,
         pc \in WaitPCs => inFlight,
         Begin(c, op, pc, arg, rec, cur), run' = run,
         inFlight' = inFlight, aborted' \in BOOLEAN, aborted' => inFlight,
         pendingDelete' \in BOOLEAN, pendingPause' \in BOOLEAN, pendingObjective' \in BOOLEAN
  PROVE  Control' /\ Flight'
<1> DEFINE r == [op |-> op, pc |-> pc, arg |-> arg, rec |-> rec, cur |-> cur]
<1>1. r \in Call /\ r.pc = pc
  BY BeginRecord
<1>2. call' = [call EXCEPT ![c] = r]
  BY DEF Begin
<1>. HIDE DEF r
<1>. QED BY <1>1, <1>2, CallMoves

LEMMA ReturnKeeps ==
  ASSUME Control, Flight, NEW c \in Calls, Return(c), UNCHANGED <<run, lock, flags>>
  PROVE  Control' /\ Flight'
  BY Neutral, OffIsNoCycle, CallMoves DEF Return, Control, Flight

LEMMA CallAtKeeps ==
  ASSUME Control, Flight, NEW c \in Calls, NEW pc \in CallPCs,
         call' = CallAt(c, pc), UNCHANGED <<run, lock, flags>>
  PROVE  Control' /\ Flight'
<1> DEFINE r == [call[c] EXCEPT !.pc = pc]
<1>1. r \in Call /\ r.pc = pc
  BY DEF Control, Call
<1>2. call' = [call EXCEPT ![c] = r]
  BY DEF CallAt
<1>. HIDE DEF r
<1>. QED BY <1>1, <1>2, CallPcSets, CallMoves DEF Control, Flight

LEMMA PauseTyped ==
  ASSUME Typed, NEW c \in Calls, Pause(c)
  PROVE  Typed'
<1>1. Data' /\ History'
  BY DEF Pause, PauseMoment, Cancel, Typed, Data, History
<1>2. [NoEntry EXCEPT !.state = "paused"] \in Entry /\ NoEntry \in Entry
  BY Neutral, EntryEdits DEF SupervisorStates
<1>3. /\ aborted' = (aborted \/ inFlight) /\ run' = run /\ inFlight' = inFlight
      /\ pendingPause' = (pendingPause \/ inFlight)
      /\ UNCHANGED <<pendingDelete, pendingObjective>>
  BY DEF Pause, Cancel
<1>4. /\ aborted' \in BOOLEAN /\ (aborted' => inFlight) /\ pendingPause' \in BOOLEAN
      /\ pendingDelete' \in BOOLEAN /\ pendingObjective' \in BOOLEAN
  BY <1>3 DEF Typed, Control, Flight
<1>5. CASE Begin(c, "pause", "persist", Keep, [NoEntry EXCEPT !.state = "paused"], NoEntry)
  BY <1>1, <1>2, <1>3, <1>4, <1>5, CallPcSets, BeginKeeps DEF Typed, AllOps
<1>6. CASE UNCHANGED call
  BY <1>1, <1>3, <1>4, <1>6 DEF Typed, Control, Flight, OneCycle, WaitersHaveCycle
<1>. QED BY <1>5, <1>6 DEF Pause

LEMMA ResumeTyped ==
  ASSUME Typed, NEW c \in Calls, Resume(c)
  PROVE  Typed'
<1>1. Data' /\ History'
  BY DEF Resume, Typed, Data, History
<1>2. [NoEntry EXCEPT !.state = "idle"] \in Entry /\ NoEntry \in Entry
  BY Neutral, EntryEdits DEF SupervisorStates
<1>3. Begin(c, "resume", "persist", Keep, [NoEntry EXCEPT !.state = "idle"], NoEntry)
  BY DEF Resume
<1>4. UNCHANGED <<run, lock, flags>>
  BY DEF Resume
<1>. QED BY <1>1, <1>2, <1>3, <1>4, CallPcSets, BeginKeeps DEF Typed, Control, Flight, AllOps

LEMMA PersistStateTyped ==
  ASSUME Typed, NEW c \in Calls, PersistState(c)
  PROVE  Typed'
<1>1. call[c].rec.state \in SupervisorStates \cup {"gone"}
  BY DEF Typed, Control, Call, Entry
<1>2. repo' \in Entry /\ snap' \in Entry
  BY <1>1 DEF PersistState, Typed, Data, Entry
<1>. QED BY <1>2, ReturnKeeps DEF PersistState, Typed, Data, History

LEMMA AskDeleteKeeps ==
  ASSUME Typed, AskDelete
  PROVE  /\ inFlight' = inFlight /\ aborted' \in BOOLEAN /\ (aborted' => inFlight)
         /\ pendingDelete' \in BOOLEAN /\ pendingPause' \in BOOLEAN
         /\ pendingObjective' \in BOOLEAN
         /\ asked' \subseteq {"pause", "delete", "objective"}
         /\ repo' \in Entry /\ snap' \in Entry
<1>1. aborted' = (aborted \/ inFlight)
  BY DEF AskDelete, Cancel
<1>2. aborted' \in BOOLEAN /\ (aborted' => inFlight)
  BY <1>1 DEF Typed, Control, Flight
<1>. QED BY <1>2 DEF AskDelete, Cancel, Typed, Control, Data, History

LEMMA DeleteTyped ==
  ASSUME Typed, NEW c \in Calls, Delete(c)
  PROVE  Typed'
<1>1. CASE inFlight
  <2>1. AskDelete /\ Begin(c, "delete", "waitDelete", Keep, NoEntry, NoEntry)
    BY <1>1 DEF Delete
  <2>2. Control' /\ Flight'
    BY <1>1, <2>1, AskDeleteKeeps, Neutral, CallPcSets, BeginKeeps
    DEF Delete, Typed, AllOps
  <2>. QED BY <2>1, <2>2, AskDeleteKeeps DEF Delete, DeleteMoment, Typed, Data, History
<1>2. CASE ~inFlight
  <2>1. DeleteNow /\ UNCHANGED asked /\ run' = run
    BY <1>2 DEF Delete
  <2>2. Control' /\ Flight' /\ repo' = NoEntry /\ snap' = NoEntry
    BY <1>2, <2>1, DeleteNowKeeps DEF Typed
  <2>3. Data'
    BY <2>2, Neutral DEF Delete, Typed, Data
  <2>. QED BY <2>1, <2>2, <2>3 DEF Delete, DeleteMoment, Typed, History
<1>. QED BY <1>1, <1>2

LEMMA SessionRemovedTyped ==
  ASSUME Typed, SessionRemoved
  PROVE  Typed'
<1>1. CASE UNCHANGED <<repo, snap, lock, flags, call, asked, deleteAsked>>
  <2>1. Control' /\ Flight'
    BY <1>1 DEF SessionRemoved, Typed, Control, Flight, OneCycle, WaitersHaveCycle
  <2>2. Data' /\ History'
    BY <1>1 DEF SessionRemoved, Typed, Data, History
  <2>. QED BY <2>1, <2>2 DEF Typed
<1>2. CASE inFlight /\ AskDelete /\ UNCHANGED call /\ deleteAsked' = DeleteMoment
  <2>1. Control' /\ Flight'
    BY <1>2, AskDeleteKeeps
    DEF SessionRemoved, Typed, Control, Flight, OneCycle, WaitersHaveCycle
  <2>. QED BY <1>2, <2>1, AskDeleteKeeps DEF SessionRemoved, DeleteMoment, Typed, Data, History
<1>3. CASE ~inFlight /\ DeleteNow /\ UNCHANGED asked /\ deleteAsked' = DeleteMoment
  BY <1>3, DeleteNowKeeps, Neutral DEF SessionRemoved, DeleteMoment, Typed, Data, History
<1>. QED BY <1>1, <1>2, <1>3 DEF SessionRemoved

LEMMA StartUpdateKeeps ==
  ASSUME Typed, NEW c \in Calls, NEW op \in AllOps,
         NEW arg \in Times \cup {Keep}, StartUpdate(c, op, arg), UNCHANGED <<run, lock, flags>>
  PROVE  Control' /\ Flight'
<1> DEFINE kept == IF snap.state = "paused" THEN "paused" ELSE "idle"
           fresh == [state |-> kept, count |-> 0, sched |-> snap.sched]
           same == [snap EXCEPT !.state = IF @ = "error" THEN "idle" ELSE @]
           next == IF op = "objective" THEN fresh ELSE same
           rec == IF arg = Keep THEN next ELSE [next EXCEPT !.sched = arg]
<1>1. fresh \in Entry
  BY DEF Typed, Data, Entry, SupervisorStates
<1>2. same \in Entry
  BY DEF Typed, Data, Entry, SupervisorStates
<1>3. rec \in Entry
  <2>1. next \in Entry
    BY <1>1, <1>2
  <2>. HIDE DEF next
  <2>. QED BY <2>1, EntryEdits DEF Entry
<1>4. \/ Begin(c, op, "reset", arg, rec, snap)
      \/ Begin(c, op, "persistUpdate", arg, rec, snap)
      \/ Return(c)
  BY DEF StartUpdate
<1>. HIDE DEF rec
<1>5. snap \in Entry
  BY DEF Typed, Data
<1>6. CASE \E pc \in CallPCs : Begin(c, op, pc, arg, rec, snap)
  <2>1. PICK pc \in CallPCs : Begin(c, op, pc, arg, rec, snap)
    BY <1>6
  <2>. QED BY <1>3, <1>5, <2>1, CallPcSets, BeginKeeps DEF Typed, Control, Flight
<1>. QED BY <1>4, <1>6, ReturnKeeps, CallPcSets DEF Typed

LEMMA ScheduleArgsType == ScheduleArgs \subseteq Times \cup {Keep}
  BY Neutral DEF ScheduleArgs

LEMMA UpdateTyped ==
  ASSUME Typed, NEW c \in Calls, NEW op \in {"objective", "edit"},
         NEW arg \in Times \cup {Keep}, Update(c, op, arg)
  PROVE  Typed'
<1>1. Data' /\ History'
  <2>1. asked' \in {asked, asked \cup {"objective"}}
    BY DEF Update, Cancel
  <2>2. Data'
    BY DEF Update, Typed, Data
  <2>. QED BY <2>1, <2>2 DEF Update, Typed, History
<1>2. CASE op = "objective" /\ inFlight
  <2>1. aborted' = (aborted \/ inFlight)
    BY <1>2 DEF Update, Cancel
  <2>2. aborted' \in BOOLEAN /\ (aborted' => inFlight)
    BY <2>1 DEF Typed, Control, Flight
  <2>3. /\ Begin(c, op, "waitCycle", arg, NoEntry, NoEntry)
        /\ pendingObjective' = TRUE
        /\ UNCHANGED <<inFlight, run, pendingDelete, pendingPause>>
    BY <1>2 DEF Update
  <2>. QED
    BY <1>1, <1>2, <2>2, <2>3, Neutral, CallPcSets, BeginKeeps DEF Typed, Control, AllOps
<1>3. CASE ~(op = "objective" /\ inFlight)
  <2>1. StartUpdate(c, op, arg) /\ UNCHANGED <<run, lock, flags>>
    BY <1>3 DEF Update
  <2>. QED BY <1>1, <2>1, StartUpdateKeeps DEF Typed, AllOps
<1>. QED BY <1>2, <1>3

LEMMA UpdateWokenTyped ==
  ASSUME Typed, NEW c \in Calls, UpdateWoken(c)
  PROVE  Typed'
<1>1. call[c].op \in AllOps /\ call[c].arg \in Times \cup {Keep}
  BY DEF Typed, Control, Call
<1>2. Data' /\ History' /\ UNCHANGED <<run, lock, flags>>
  BY DEF UpdateWoken, Typed, Data, History
<1>. QED BY <1>1, <1>2, StartUpdateKeeps, ReturnKeeps DEF UpdateWoken, Typed

LEMMA ResetTargetTyped ==
  ASSUME Typed, NEW c \in Calls, ResetTarget(c)
  PROVE  Typed'
<1>1. Data' /\ History' /\ UNCHANGED <<run, lock, flags>>
  BY DEF ResetTarget, Typed, Data, History
<1>. QED
  BY <1>1, CallAtKeeps, ReturnKeeps, CallPcSets DEF ResetTarget, EnterRollback, Typed

LEMMA PersistUpdateTyped ==
  ASSUME Typed, NEW c \in Calls, PersistUpdate(c)
  PROVE  Typed'
<1>1. call[c].rec \in Entry /\ repo.sched \in Times
  BY DEF Typed, Control, Data, Call, Entry
<1>2. repo' \in Entry
  <2>1. repo' \in {repo, call[c].rec, [call[c].rec EXCEPT !.sched = repo.sched]}
    BY DEF PersistUpdate
  <2>2. [call[c].rec EXCEPT !.sched = repo.sched] \in Entry
    BY <1>1 DEF Entry
  <2>. QED BY <1>1, <2>1, <2>2 DEF Typed, Data
<1>3. Data' /\ History'
  BY <1>2 DEF PersistUpdate, Typed, Data, History
<1>4. UNCHANGED <<run, lock, flags>>
  BY DEF PersistUpdate
<1>. QED
  BY <1>3, <1>4, CallAtKeeps, ReturnKeeps, CallPcSets DEF PersistUpdate, EnterRollback, Typed

LEMMA PersistRestoreTyped ==
  ASSUME Typed, NEW c \in Calls, PersistRestore(c)
  PROVE  Typed'
<1>1. call[c].rec \in Entry /\ call[c].rec.count \in Nat
  BY DEF Typed, Control, Call, Entry
<1>2. Data' /\ History'
  BY <1>1 DEF PersistRestore, Typed, Data, History
<1>3. UNCHANGED <<run, lock, flags>>
  BY DEF PersistRestore
<1>. QED BY <1>2, <1>3, CallAtKeeps, ReturnKeeps, CallPcSets DEF PersistRestore, Typed

\* The last steps of update() and restore().
LEMMA CallEndsTyped ==
  ASSUME Typed, NEW c \in Calls, Rollback(c) \/ AttachUpdate(c) \/ FinishRestore(c)
  PROVE  Typed'
<1>1. call[c].rec \in Entry /\ call[c].cur \in Entry
  BY DEF Typed, Control, Call
<1>2. Data' /\ History' /\ Return(c) /\ UNCHANGED <<run, lock, flags>>
  BY <1>1 DEF Rollback, AttachUpdate, FinishRestore, Typed, Data, History
<1>. QED BY <1>2, ReturnKeeps DEF Typed

LEMMA RestoreTyped ==
  ASSUME Typed, NEW c \in Calls, Restore(c)
  PROVE  Typed'
<1>1. Data' /\ History' /\ UNCHANGED <<run, lock, flags>>
  BY DEF Restore, Typed, Data, History
<1>2. PICK arg \in Times \cup {Keep} : Begin(c, "restore", "clone", arg, NoEntry, snap)
  BY ScheduleArgsType, Neutral DEF Restore
<1>. QED
  BY <1>1, <1>2, Neutral, CallPcSets, BeginKeeps DEF Typed, Control, Data, Flight, AllOps

LEMMA CloneTargetTyped ==
  ASSUME Typed, NEW c \in Calls, CloneTarget(c)
  PROVE  Typed'
<1>1. Data' /\ History' /\ UNCHANGED <<run, lock, flags>>
  BY DEF CloneTarget, Typed, Data, History
<1>2. call[c].arg \in Times \cup {Keep} /\ call[c].cur \in Entry
  BY DEF Typed, Control, Call
<1>3. CASE Return(c)
  BY <1>1, <1>3, ReturnKeeps DEF Typed
<1>4. CASE ~Return(c)
  <2> DEFINE kept == IF call[c].cur.state = "paused" THEN "paused" ELSE "idle"
             sched == IF call[c].arg = Keep THEN 0 ELSE call[c].arg
  <2>1. PICK cycles \in 0..1 :
          Begin(c, "restore", "persistRestore", call[c].arg,
                [state |-> kept, count |-> cycles, sched |-> sched], call[c].cur)
    BY <1>4 DEF CloneTarget
  <2>2. kept \in SupervisorStates /\ sched \in Times
    BY <1>2, Neutral DEF SupervisorStates
  <2>. HIDE DEF kept, sched
  <2>3. [state |-> kept, count |-> cycles, sched |-> sched] \in Entry
    BY <2>2 DEF Entry
  <2>. QED
    BY <1>1, <1>2, <2>1, <2>3, CallPcSets, BeginKeeps DEF Typed, Control, Flight, AllOps
<1>. QED BY <1>3, <1>4

LEMMA EnvironmentTyped ==
  ASSUME Typed, SessionMoves \/ Tick \/ UNCHANGED vars
  PROVE  Typed'
<1>1. UNCHANGED <<run, call, lock, flags>>
  BY DEF SessionMoves, Tick, vars
<1>2. Control' /\ Flight'
  BY <1>1 DEF Typed, Control, Flight, OneCycle, WaitersHaveCycle
<1>3. clock' \in Times
  BY CycleAssumption DEF SessionMoves, Tick, vars, Typed, Data, Times
<1>4. session' \in {"starting", "idle", "running", "ended", "removed"}
  BY DEF SessionMoves, Tick, vars, Typed, Data
<1>5. UNCHANGED <<repo, snap, bounds, history>>
  BY DEF SessionMoves, Tick, vars
<1>. QED BY <1>2, <1>3, <1>4, <1>5 DEF Typed, Data, History

LEMMA TriggersTyped ==
  ASSUME Typed, NEW k \in Runs, ManualTrigger(k) \/ ScheduledDue(k)
  PROVE  Typed'
<1>1. PICK t \in AllTriggers : Trigger(k, t) /\ UNCHANGED session
  BY DEF ManualTrigger, ScheduledDue, AllTriggers
<1>2. Data'
  BY <1>1 DEF Trigger, Typed, Data
<1>. QED BY <1>1, <1>2, TriggerTyped

LEMMA TurnCompletesTyped ==
  ASSUME Typed, TurnCompletes
  PROVE  Typed'
<1>1. CASE \E k \in Runs : Trigger(k, "turn_completed")
  <2>1. PICK k \in Runs : Trigger(k, "turn_completed")
    BY <1>1
  <2>2. Data'
    BY <2>1 DEF Trigger, TurnCompletes, Typed, Data
  <2>. QED BY <2>1, <2>2, TriggerTyped DEF AllTriggers
<1>2. CASE UNCHANGED <<repo, snap, lock, flags, run, call, clock, bounds, history>>
  <2>1. Control' /\ Flight'
    BY <1>2 DEF Typed, Control, Flight, OneCycle, WaitersHaveCycle
  <2>2. Data' /\ History'
    BY <1>2 DEF TurnCompletes, Typed, Data, History
  <2>. QED BY <2>1, <2>2 DEF Typed
<1>. QED BY <1>1, <1>2 DEF TurnCompletes

LEMMA CallTyped ==
  ASSUME Typed, NEW c \in Calls, CallBegins(c) \/ CallStep(c)
  PROVE  Typed'
<1>1. CASE UpdateObjective(c) \/ Edit(c)
  <2>1. PICK op \in {"objective", "edit"}, arg \in Times \cup {Keep} : Update(c, op, arg)
    BY <1>1, ScheduleArgsType DEF UpdateObjective, Edit
  <2>. QED BY <2>1, UpdateTyped
<1>. QED
  BY <1>1, PauseTyped, ResumeTyped, PersistStateTyped, DeleteTyped, UpdateWokenTyped,
     ResetTargetTyped, PersistUpdateTyped, CallEndsTyped, RestoreTyped, CloneTargetTyped,
     PersistRestoreTyped DEF CallBegins, CallStep

LEMMA InitTyped == Init => Typed
<1>. SUFFICES ASSUME Init PROVE Typed
  OBVIOUS
<1>1. repo \in Entry /\ snap \in Entry
  <2>1. repo.sched \in Times
    BY Neutral DEF Init
  <2>. QED BY <2>1 DEF Init, Entry, SupervisorStates
<1>2. Control
  BY Neutral DEF Init, Control
<1>3. Data
  BY <1>1, Neutral DEF Init, Data
<1>4. History
  BY DEF Init, History
<1>5. Flight
  BY Neutral, OffIsNoCycle DEF Init, Flight, OneCycle, WaitersHaveCycle
<1>. QED BY <1>2, <1>3, <1>4, <1>5 DEF Typed

LEMMA StepTyped == Typed /\ [Next]_vars => Typed'
  BY TriggersTyped, RunStepTyped, CallTyped, SessionRemovedTyped, TurnCompletesTyped,
     EnvironmentTyped DEF Next

----------------------------------------------------------------------------
(* The theorems of this level.                                             *)

\* The inductive invariant: types, who holds inFlight and who waits for its
\* release, whatever evaluations and calls interleave.
THEOREM TypedAlways == Spec => []Typed
  BY InitTyped, StepTyped, PTL DEF Spec

\* Every variable keeps its type, for any number of evaluations and calls.
THEOREM TypeCorrect == Spec => []TypeOK
<1>1. Typed => TypeOK
  BY TypeParts DEF Typed
<1>. QED BY <1>1, TypedAlways, PTL

\* At most one evaluation is between its guards and its release, and inFlight
\* says so: the evaluations of a supervisor exclude each other.
THEOREM MutualExclusion == Spec => []OneCycle
<1>1. Typed => OneCycle
  BY DEF Typed, Flight
<1>. QED BY <1>1, TypedAlways, PTL

\* A call that waits for the end of a cycle waits for a cycle in flight, whose
\* release wakes it up.
THEOREM NoLostWaiter == Spec => []WaitersHaveCycle
<1>1. Typed => WaitersHaveCycle
  BY DEF Typed, Flight
<1>. QED BY <1>1, TypedAlways, PTL

----------------------------------------------------------------------------
(* A cancelled evaluation writes nothing more.                             *)

\* Whoever asked the cycle in flight to stop has aborted its signal.
Asks == inFlight /\ asked # {} => aborted

\* The steps of an evaluation leave the lock alone or release it.
LockStep == UNCHANGED lock \/ inFlight' = FALSE

LEMMA HandlersLock ==
  ASSUME NEW k \in Runs, NEW s, NEW r
  PROVE  /\ Suspend(k, r) => LockStep
         /\ Finally(k) => LockStep
         /\ BeginFails(k) => LockStep
         /\ EnterFailure(k, s, r) => LockStep
         /\ EnterAbort(k, s, r) => LockStep
         /\ DeleteIfPending(k, r) => LockStep
         /\ DeleteNow => LockStep
<1>1. /\ \A e : Suspend(k, e) => LockStep
      /\ Finally(k) => LockStep
      /\ DeleteNow => LockStep
      /\ BeginFails(k) => LockStep
  BY DEF LockStep, Suspend, Finally, DeleteNow, BeginFails, ReleaseInFlight
<1>2. EnterFailure(k, s, r) => LockStep
  BY <1>1 DEF EnterFailure
<1>3. EnterAbort(k, s, r) => LockStep
  BY <1>1 DEF EnterAbort
<1>. QED BY <1>1, <1>2, <1>3 DEF DeleteIfPending

LEMMA RunLock ==
  ASSUME NEW k \in Runs, RunStep(k)
  PROVE  LockStep /\ asked' = asked
<1>1. CASE BuildContext(k) \/ FlipEvaluating(k) \/ FlipStopped(k) \/ MarkError(k) \/ AttachError(k)
  BY <1>1, HandlersLock
  DEF BuildContext, FlipEvaluating, FlipStopped, MarkError, AttachError
<1>2. CASE \/ EvaluatorAborts(k) \/ EvaluatorFails(k) \/ EvaluationBreaks(k)
           \/ EvaluatorConcludes(k, "stop") \/ EvaluatorConcludes(k, "continue")
           \/ EvaluatorGuides(k) \/ RetryElapses(k)
  BY <1>2, HandlersLock
  DEF EvaluatorAborts, EvaluatorFails, EvaluationBreaks, EvaluatorConcludes,
      EvaluatorGuides, RetryElapses
<1>3. CASE FlipRetry(k) \/ FlipInjecting(k) \/ SaveOutcome(k) \/ FlipFinal(k) \/ AttachFinal(k)
  BY <1>3, HandlersLock
  DEF FlipRetry, FlipInjecting, Inject, SaveOutcome, FlipFinal, AttachFinal
<1>4. CASE AbortRecord(k) \/ FlipAborted(k) \/ FlipFailed(k) \/ AttachFailed(k)
  BY <1>4, HandlersLock DEF AbortRecord, FlipAborted, FlipFailed, AttachFailed
<1>. QED BY <1>1, <1>2, <1>3, <1>4 DEF RunStep

LEMMA TriggerLock ==
  ASSUME NEW k \in Runs, NEW t, Trigger(k, t), Asks
  PROVE  Asks'
  BY DEF Trigger, Asks

LEMMA CancelLock ==
  ASSUME Typed, Asks, NEW w, Cancel(w), inFlight' = inFlight
  PROVE  Asks'
  BY DEF Cancel, Asks

LEMMA CallLock ==
  ASSUME Typed, Asks, NEW c \in Calls, CallBegins(c) \/ CallStep(c)
  PROVE  Asks'
<1>1. CASE CallStep(c)
  BY <1>1 DEF CallStep, PersistState, UpdateWoken, ResetTarget, PersistUpdate, Rollback,
              AttachUpdate, CloneTarget, PersistRestore, FinishRestore, Asks
<1>2. CASE Pause(c)
  BY <1>2, CancelLock DEF Pause
<1>3. CASE Resume(c) \/ Restore(c)
  BY <1>3 DEF Resume, Restore, Asks
<1>4. CASE Delete(c)
  BY <1>4, CancelLock DEF Delete, AskDelete, DeleteNow, ReleaseInFlight, Asks
<1>5. CASE \E op, arg : Update(c, op, arg)
  BY <1>5, CancelLock DEF Update, Asks
<1>. QED BY <1>1, <1>2, <1>3, <1>4, <1>5 DEF CallBegins, UpdateObjective, Edit

LEMMA StepAsks == Typed /\ Asks /\ [Next]_vars => Asks'
<1>. SUFFICES ASSUME Typed, Asks, [Next]_vars PROVE Asks'
  OBVIOUS
<1>1. CASE \E k \in Runs : ManualTrigger(k) \/ ScheduledDue(k)
  BY <1>1, TriggerLock DEF ManualTrigger, ScheduledDue
<1>2. CASE \E k \in Runs : RunStep(k)
  BY <1>2, RunLock DEF LockStep, Asks
<1>3. CASE \E c \in Calls : CallBegins(c) \/ CallStep(c)
  BY <1>3, CallLock
<1>4. CASE SessionRemoved
  BY <1>4, CancelLock DEF SessionRemoved, AskDelete, DeleteNow, ReleaseInFlight, Asks
<1>5. CASE SessionMoves \/ Tick \/ UNCHANGED vars
  BY <1>5 DEF SessionMoves, Tick, vars, Asks
<1>6. CASE TurnCompletes
  BY <1>6, TriggerLock DEF TurnCompletes, Asks
<1>. QED BY <1>1, <1>2, <1>3, <1>4, <1>5, <1>6 DEF Next

\* Only FlipInjecting writes to the session, and it looks at the signal first.
LEMMA InjectsUnaborted ==
  ASSUME Typed, [Next]_vars, injections' > injections
  PROVE  \E k \in Runs : FlipInjecting(k) /\ ~aborted /\ run[k].pc \in CyclePCs
<1>1. injections \in Nat
  BY DEF Typed, History
<1>2. CASE \E k \in Runs : FlipInjecting(k)
  <2>1. PICK k \in Runs : FlipInjecting(k)
    BY <1>2
  <2>2. injections' # injections
    BY <1>1
  <2>3. ~aborted
    BY <2>1, <2>2 DEF FlipInjecting, Inject
  <2>4. run[k].pc \in CyclePCs
    BY <2>1, PcSets DEF FlipInjecting
  <2>. QED BY <2>1, <2>3, <2>4
<1>3. ASSUME NEW k \in Runs, RunStep(k), ~FlipInjecting(k)
      PROVE  injections' = injections
  BY <1>3 DEF RunStep, BuildContext, FlipEvaluating, FlipStopped, MarkError, AttachError,
       EvaluatorAborts, EvaluatorFails, EvaluationBreaks, EvaluatorConcludes,
       EvaluatorGuides, RetryElapses, FlipRetry, SaveOutcome, FlipFinal, AttachFinal,
       AbortRecord, FlipAborted, FlipFailed, AttachFailed
<1>4. ASSUME NEW k \in Runs, NEW t, Trigger(k, t) PROVE injections' \in {injections, 0}
  BY <1>4 DEF Trigger
<1>5. ASSUME NEW c \in Calls, CallBegins(c) \/ CallStep(c) PROVE injections' = injections
  BY <1>5 DEF CallBegins, CallStep, Pause, Resume, Delete, UpdateObjective, Edit, Update,
       Restore, PersistState, UpdateWoken, ResetTarget, PersistUpdate, Rollback,
       AttachUpdate, CloneTarget, PersistRestore, FinishRestore
<1>6. CASE SessionRemoved \/ SessionMoves \/ Tick \/ UNCHANGED vars
  BY <1>1, <1>6 DEF SessionRemoved, SessionMoves, Tick, vars
<1>7. ASSUME TurnCompletes PROVE injections' \in {injections, 0}
  BY <1>4, <1>7 DEF TurnCompletes
<1>. QED
  BY <1>1, <1>2, <1>3, <1>4, <1>5, <1>6, <1>7 DEF Next, ManualTrigger, ScheduledDue

\* A cycle that was asked to stop never writes guidance to the session again.
THEOREM NoLateInjection == Spec => CancelledNeverInjects
<1>1. Init => Asks
  BY DEF Init, Asks
<1>2. Typed /\ Asks /\ [Next]_vars => [injections' > injections => asked = {}]_vars
  <2>. SUFFICES ASSUME Typed, Asks, [Next]_vars, injections' > injections
                PROVE  asked = {}
    OBVIOUS
  <2>1. PICK k \in Runs : ~aborted /\ run[k].pc \in CyclePCs
    BY InjectsUnaborted
  <2>2. inFlight
    BY <2>1 DEF Typed, Flight, OneCycle
  <2>. QED BY <2>1, <2>2 DEF Asks
<1>3. Spec => [](Typed /\ Asks)
  BY <1>1, InitTyped, StepTyped, StepAsks, PTL DEF Spec
<1>. QED BY <1>2, <1>3, PTL DEF Spec, CancelledNeverInjects

----------------------------------------------------------------------------
(* The evaluations implement the abstract slot.                            *)

\* An evaluation that has not written to the session yet is the only one, and
\* the count of its messages still stands at nought.
Fresh == BeginPCs \cup AttemptPCs
Unwritten == \A k \in Runs : run[k].pc \in Fresh => injections = 0

\* What a step means for the slot: nothing, or the end of the one in flight.
Holds ==
  /\ \A j \in Runs : /\ run'[j].pc \in CyclePCs <=> run[j].pc \in CyclePCs
                     /\ run'[j].pc \in Fresh => run[j].pc \in Fresh
  /\ aborted' = aborted
Lets(k) ==
  /\ run[k].pc \in CyclePCs
  /\ \A j \in Runs : run'[j].pc \notin CyclePCs
  /\ aborted' = FALSE

LEMMA FreshPCs ==
  /\ Fresh \subseteq CyclePCs
  /\ Fresh = {"context", "flipEvaluating", "evaluate", "retryWait", "flipRetry", "flipInjecting"}
  BY DEF Fresh, BeginPCs, AttemptPCs, CyclePCs

\* An evaluation moves on, to a state from which it may write only if it came
\* from one.
LEMMA SuspendHolds ==
  ASSUME Typed, NEW k \in Runs, NEW r, Suspend(k, r),
         r.pc \in CyclePCs <=> run[k].pc \in CyclePCs, r.pc \in Fresh => run[k].pc \in Fresh
  PROVE  Holds
  BY DEF Typed, Control, Suspend, Holds

\* The evaluation in flight ends.
LEMMA EndLets ==
  ASSUME Typed, NEW k \in Runs, NEW r, run[k].pc \in CyclePCs, r.pc \notin CyclePCs,
         run' = [run EXCEPT ![k] = r], ReleaseInFlight
  PROVE  Lets(k)
  BY DEF Typed, Control, Flight, OneCycle, ReleaseInFlight, Lets

LEMMA HandlersHold ==
  ASSUME Typed, NEW k \in Runs, run[k].pc \in CyclePCs, NEW s, NEW r
  PROVE  /\ Finally(k) => Lets(k)
         /\ BeginFails(k) => Lets(k)
         /\ EnterFailure(k, s, r) => Holds \/ Lets(k)
         /\ EnterAbort(k, s, r) => Holds \/ Lets(k)
         /\ DeleteIfPending(k, r) => Lets(k)
         /\ DeleteNow /\ run' = [run EXCEPT ![k] = NoRun] => Lets(k)
<1>1. NoRun.pc \notin CyclePCs
  BY Neutral, OffIsNoCycle
<1>2. Finally(k) => Lets(k)
  BY <1>1, EndLets DEF Finally
<1>3. DeleteNow /\ run' = [run EXCEPT ![k] = NoRun] => Lets(k)
  BY <1>1, EndLets DEF DeleteNow
<1>4. BeginFails(k) => Lets(k)
  <2> DEFINE e == IF Exists(repo) THEN At(k, "markError") ELSE NoRun
  <2>1. At(k, "markError").pc = "markError"
    BY RunMoves, PcSets DEF Typed
  <2>2. e.pc \notin CyclePCs
    BY <1>1, <2>1, PcSets
  <2>3. BeginFails(k) => run' = [run EXCEPT ![k] = e] /\ ReleaseInFlight
    BY DEF BeginFails
  <2> HIDE DEF e
  <2> QED BY <2>2, <2>3, EndLets
<1>5. EnterFailure(k, s, r) => Holds \/ Lets(k)
  <2>1. /\ At(k, "flipFailed").pc = "flipFailed"
        /\ "flipFailed" \in CyclePCs /\ "flipFailed" \notin Fresh
    BY RunMoves, PcSets, FreshPCs DEF Typed
  <2>2. Suspend(k, At(k, "flipFailed")) => Holds
    BY <2>1, SuspendHolds
  <2> QED BY <1>2, <2>2 DEF EnterFailure
<1>6. EnterAbort(k, s, r) => Holds \/ Lets(k)
  <2> DEFINE e == [run[k] EXCEPT !.pc = "flipAborted", !.rec.state = AbortState(s)]
  <2>1. /\ At(k, "abortRecord").pc = "abortRecord" /\ e.pc = "flipAborted"
        /\ {"abortRecord", "flipAborted"} \subseteq CyclePCs
        /\ "abortRecord" \notin Fresh /\ "flipAborted" \notin Fresh
    BY RunMoves, PcSets, FreshPCs DEF Typed, Control, Run
  <2>2. Suspend(k, At(k, "abortRecord")) => Holds
    BY <2>1, SuspendHolds
  <2>3. EnterAbort(k, s, r) => Suspend(k, At(k, "abortRecord")) \/ Suspend(k, e) \/ Finally(k)
    BY DEF EnterAbort
  <2> HIDE DEF e
  <2>4. Suspend(k, e) => Holds
    BY <2>1, SuspendHolds
  <2> QED BY <1>2, <2>2, <2>3, <2>4
<1> QED BY <1>2, <1>3, <1>4, <1>5, <1>6 DEF DeleteIfPending

\* One message, of an evaluation that goes on to save its outcome.
Writes(k) ==
  /\ Holds /\ run[k].pc \in Fresh /\ run'[k].pc \notin Fresh
  /\ ~aborted /\ injections' = injections + 1

LEMMA BeginSlot ==
  ASSUME Typed, NEW k \in Runs,
         BuildContext(k) \/ FlipEvaluating(k) \/ FlipStopped(k) \/ MarkError(k) \/ AttachError(k)
  PROVE  (Holds \/ Lets(k)) /\ injections' = injections
<1>1. run[k] \in Run /\ NoRun.pc = "off" /\ NoRun.pc \notin CyclePCs
  BY Neutral, OffIsNoCycle DEF Typed, Control
<1>2. CASE BuildContext(k)
  <2> DEFINE r(d) == [run[k] EXCEPT !.pc = "flipEvaluating", !.due = d]
  <2>1. \A d : r(d).pc = "flipEvaluating"
    BY <1>1 DEF Run
  <2>2. \A d : Suspend(k, r(d)) => Holds
    BY <1>2, <2>1, PcSets, FreshPCs, SuspendHolds DEF BuildContext
  <2>3. run[k].pc \in CyclePCs
    BY <1>2, PcSets DEF BuildContext
  <2> QED BY <1>2, <2>2, <2>3, HandlersHold DEF BuildContext
<1>3. CASE FlipEvaluating(k)
  <2>1. run[k].pc \in CyclePCs /\ run[k].pc \in Fresh /\ At(k, "evaluate").pc \in CyclePCs
    BY <1>3, PcSets, FreshPCs, RunMoves DEF Typed, FlipEvaluating
  <2>2. Suspend(k, At(k, "evaluate")) => Holds
    BY <2>1, SuspendHolds
  <2> QED BY <1>3, <2>1, <2>2, HandlersHold DEF FlipEvaluating
<1>4. CASE FlipStopped(k) \/ MarkError(k) \/ AttachError(k)
  <2>1. run[k].pc \notin CyclePCs
    BY <1>4, PcSets DEF FlipStopped, MarkError, AttachError
  <2>2. Suspend(k, NoRun) => Holds
    BY <1>1, <2>1, FreshPCs, SuspendHolds
  <2> DEFINE e == [run[k] EXCEPT !.pc = "attachError", !.rec = repo']
  <2>3. e.pc = "attachError" /\ e.pc \notin CyclePCs
    BY <1>1, PcSets DEF Run
  <2>4. Suspend(k, NoRun) \/ Suspend(k, e)
    BY <1>4 DEF FlipStopped, MarkError, AttachError
  <2> HIDE DEF e
  <2>5. Suspend(k, e) => Holds
    BY <2>1, <2>3, FreshPCs, SuspendHolds
  <2> QED BY <1>4, <2>2, <2>4, <2>5 DEF FlipStopped, MarkError, AttachError
<1> QED BY <1>2, <1>3, <1>4

LEMMA AttemptSlot ==
  ASSUME Typed, NEW k \in Runs,
         \/ EvaluatorAborts(k) \/ EvaluatorFails(k) \/ EvaluationBreaks(k)
         \/ EvaluatorConcludes(k, "stop") \/ EvaluatorConcludes(k, "continue")
         \/ EvaluatorGuides(k) \/ RetryElapses(k) \/ FlipRetry(k)
  PROVE  (Holds \/ Lets(k)) /\ injections' = injections
<1>1. /\ run[k] \in Run /\ run[k].pc \in {"evaluate", "retryWait", "flipRetry"}
      /\ injections' = injections
  BY DEF Typed, Control, EvaluatorAborts, EvaluatorFails, EvaluationBreaks, EvaluatorConcludes,
         EvaluatorGuides, RetryElapses, FlipRetry
<1>2. run[k].pc \in CyclePCs /\ run[k].pc \in Fresh
  BY <1>1, PcSets, FreshPCs
<1>3. \A p \in {"retryWait", "flipInjecting", "flipRetry"} : Suspend(k, At(k, p)) => Holds
  <2>1. ASSUME NEW p \in {"retryWait", "flipInjecting", "flipRetry"}
        PROVE  At(k, p).pc \in CyclePCs
    BY RunMoves, PcSets DEF Typed
  <2> QED BY <1>2, <2>1, SuspendHolds
<1> DEFINE concluded(v) == [run[k] EXCEPT !.pc = "saveOutcome", !.verdict = v]
           again == [run[k] EXCEPT !.pc = "evaluate", !.attempt = @ + 1]
<1>4. (\A v : concluded(v).pc = "saveOutcome") /\ again.pc = "evaluate"
  BY <1>1 DEF Run
<1>5. /\ \A v : EvaluatorConcludes(k, v) => Suspend(k, concluded(v))
      /\ FlipRetry(k) => Suspend(k, again) \/ EnterFailure(k, snap, repo)
  BY DEF EvaluatorConcludes, FlipRetry
<1> HIDE DEF concluded, again
<1>6. (\A v : Suspend(k, concluded(v)) => Holds) /\ (Suspend(k, again) => Holds)
  BY <1>2, <1>4, PcSets, SuspendHolds
<1>7. /\ EnterFailure(k, snap, repo) => Holds \/ Lets(k)
      /\ EnterAbort(k, snap, repo) => Holds \/ Lets(k)
  BY <1>2, HandlersHold
<1>8. CASE EvaluatorAborts(k) \/ EvaluatorFails(k) \/ EvaluationBreaks(k)
  BY <1>1, <1>3, <1>7, <1>8 DEF EvaluatorAborts, EvaluatorFails, EvaluationBreaks
<1>9. CASE EvaluatorConcludes(k, "stop") \/ EvaluatorConcludes(k, "continue") \/ FlipRetry(k)
  BY <1>1, <1>5, <1>6, <1>7, <1>9
<1>10. CASE EvaluatorGuides(k) \/ RetryElapses(k)
  BY <1>1, <1>3, <1>7, <1>10 DEF EvaluatorGuides, RetryElapses
<1> QED BY <1>8, <1>9, <1>10

LEMMA InjectSlot ==
  ASSUME Typed, NEW k \in Runs, FlipInjecting(k)
  PROVE  \/ (Holds \/ Lets(k)) /\ injections' = injections
         \/ Writes(k)
<1>1. run[k] \in Run /\ run[k].pc \in CyclePCs /\ run[k].pc \in Fresh
  BY PcSets, FreshPCs DEF Typed, Control, FlipInjecting
<1> DEFINE wrote == [run[k] EXCEPT !.pc = "saveOutcome", !.verdict = "continue"]
<1>2. wrote.pc = "saveOutcome" /\ "saveOutcome" \in CyclePCs /\ "saveOutcome" \notin Fresh
  BY <1>1, PcSets, FreshPCs DEF Run
<1>3. \/ EnterFailure(k, snap, repo) /\ UNCHANGED injections
      \/ EnterFailure(k, snap', repo') /\ UNCHANGED injections
      \/ EnterAbort(k, snap', repo') /\ UNCHANGED injections
      \/ ~aborted /\ injections' = injections + 1 /\ Suspend(k, wrote)
  BY DEF FlipInjecting, Inject
<1> HIDE DEF wrote
<1>4. Suspend(k, wrote) => Holds /\ run'[k].pc \notin Fresh
  BY <1>1, <1>2, SuspendHolds DEF Typed, Control, Suspend
<1> QED BY <1>1, <1>3, <1>4, HandlersHold DEF Writes

LEMMA OutcomeSlot ==
  ASSUME Typed, NEW k \in Runs,
         \/ SaveOutcome(k) \/ FlipFinal(k) \/ AttachFinal(k)
         \/ AbortRecord(k) \/ FlipAborted(k) \/ FlipFailed(k) \/ AttachFailed(k)
  PROVE  (Holds \/ Lets(k)) /\ injections' = injections
<1>1. run[k] \in Run /\ run[k].pc \in CyclePCs /\ injections' = injections
  BY PcSets DEF Typed, Control, SaveOutcome, FlipFinal, AttachFinal, AbortRecord, FlipAborted,
                FlipFailed, AttachFailed
<1>2. \A p \in {"flipFinal", "attachFinal", "attachFailed"} : \A e :
        Suspend(k, [run[k] EXCEPT !.pc = p, !.rec = e]) => Holds
  <2> SUFFICES ASSUME NEW p \in {"flipFinal", "attachFinal", "attachFailed"}, NEW e,
                      Suspend(k, [run[k] EXCEPT !.pc = p, !.rec = e])
               PROVE  Holds
    OBVIOUS
  <2>1. PICK r : r = [run[k] EXCEPT !.pc = p, !.rec = e]
    OBVIOUS
  <2>2. r.pc = p /\ p \in CyclePCs /\ p \notin Fresh
    BY <1>1, <2>1, PcSets, FreshPCs DEF Run
  <2>3. Suspend(k, r)
    BY <2>1
  <2> QED BY <1>1, <2>2, <2>3, SuspendHolds
<1>3. /\ EnterFailure(k, snap, repo) => Holds \/ Lets(k)
      /\ Finally(k) => Lets(k)
      /\ DeleteIfPending(k, run[k].rec) => Lets(k)
      /\ DeleteNow /\ run' = [run EXCEPT ![k] = NoRun] => Lets(k)
  BY <1>1, HandlersHold
<1>4. CASE SaveOutcome(k) \/ FlipFinal(k)
  BY <1>1, <1>2, <1>3, <1>4 DEF SaveOutcome, FlipFinal
<1>5. CASE AttachFinal(k) \/ AbortRecord(k) \/ FlipAborted(k) \/ FlipFailed(k) \/ AttachFailed(k)
  BY <1>1, <1>2, <1>3, <1>5 DEF AttachFinal, AbortRecord, FlipAborted, FlipFailed, AttachFailed
<1> QED BY <1>4, <1>5

LEMMA RunSlot ==
  ASSUME Typed, NEW k \in Runs, RunStep(k)
  PROVE  \/ (Holds \/ Lets(k)) /\ injections' = injections
         \/ Writes(k)
  BY BeginSlot, AttemptSlot, InjectSlot, OutcomeSlot DEF RunStep

\* The steps of calls, of the session and of the clock: evaluations stay where
\* they are, and the one in flight, if there is one, may be cancelled.
Leaves ==
  /\ run' = run /\ injections' = injections
  /\ aborted' = aborted \/ (inFlight /\ aborted' = TRUE)

LEMMA CallSlot ==
  ASSUME Typed, NEW c \in Calls, CallBegins(c) \/ CallStep(c)
  PROVE  Leaves
<1>1. CASE CallStep(c)
  BY <1>1 DEF CallStep, PersistState, UpdateWoken, ResetTarget, PersistUpdate, Rollback,
              AttachUpdate, CloneTarget, PersistRestore, FinishRestore, Leaves
<1>2. CASE Pause(c) \/ Resume(c) \/ Restore(c)
  BY <1>2 DEF Pause, Cancel, Resume, Restore, Leaves, Typed, Control
<1>3. CASE Delete(c)
  BY <1>3 DEF Delete, AskDelete, Cancel, DeleteNow, ReleaseInFlight, Leaves, Typed, Control, Flight
<1>4. ASSUME NEW op, NEW arg, Update(c, op, arg) PROVE Leaves
  BY <1>4 DEF Update, Cancel, Leaves, Typed, Control
<1>. QED BY <1>1, <1>2, <1>3, <1>4 DEF CallBegins, UpdateObjective, Edit

LEMMA EnvironmentSlot ==
  ASSUME Typed, SessionRemoved \/ SessionMoves \/ Tick \/ UNCHANGED vars
  PROVE  Leaves
<1>1. CASE SessionRemoved
  BY <1>1 DEF SessionRemoved, AskDelete, Cancel, DeleteNow, ReleaseInFlight, Leaves, Typed, Control,
              Flight
<1>2. CASE SessionMoves \/ Tick \/ UNCHANGED vars
  BY <1>2 DEF SessionMoves, Tick, vars, Leaves
<1>. QED BY <1>1, <1>2

\* A trigger: the cap is reached, and the evaluation that begins only stops the
\* supervisor, or it takes the slot, which was free.
LEMMA TriggerSlot ==
  ASSUME Typed, NEW k \in Runs, NEW t, Trigger(k, t)
  PROVE  \/ Holds /\ injections' = injections
         \/ /\ \A j \in Runs : run[j].pc \notin CyclePCs
            /\ run'[k].pc \in CyclePCs /\ \A j \in Runs \ {k} : run'[j].pc \notin CyclePCs
            /\ aborted' = FALSE /\ injections' = 0
<1>1. run[k].pc \notin CyclePCs /\ ~inFlight
  BY OffIsNoCycle DEF Trigger, CanTrigger, Accepts
<1>2. CASE CapReached
  <2>1. At(k, "flipStopped").pc \notin CyclePCs
    BY RunMoves, PcSets DEF Typed
  <2>2. Suspend(k, At(k, "flipStopped")) /\ injections' = injections
    BY <1>2 DEF Trigger, Suspend
  <2>. QED BY <1>1, <2>1, <2>2, FreshPCs, SuspendHolds
<1>3. CASE ~CapReached
  <2>1. PICK new : new = [NoRun EXCEPT !.pc = "context", !.trigger = t, !.rec = snap]
    OBVIOUS
  <2>2. new.pc = "context" /\ new.pc \in CyclePCs
    BY <2>1, PcSets DEF NoRun
  <2>3. run' = [run EXCEPT ![k] = new] /\ aborted' = FALSE /\ injections' = 0
    BY <1>3, <2>1 DEF Trigger
  <2>. QED BY <1>1, <2>2, <2>3 DEF Typed, Control, Flight, OneCycle
<1>. QED BY <1>2, <1>3

LEMMA StepUnwritten == Typed /\ Unwritten /\ [Next]_vars => Unwritten'
<1>. SUFFICES ASSUME Typed, Unwritten, [Next]_vars PROVE Unwritten'
  OBVIOUS
<1>1. ASSUME NEW k \in Runs, NEW t, Trigger(k, t) PROVE Unwritten'
  BY <1>1, TriggerSlot DEF Unwritten, Holds
<1>2. ASSUME NEW k \in Runs, RunStep(k) PROVE Unwritten'
  <2>1. CASE (Holds \/ Lets(k)) /\ injections' = injections
    BY <2>1, FreshPCs DEF Unwritten, Holds, Lets
  <2>2. CASE Writes(k)
    <3>1. \A j \in Runs : j # k => run'[j].pc \notin Fresh
      BY <2>2, FreshPCs DEF Writes, Holds, Typed, Flight, OneCycle
    <3>. QED BY <2>2, <3>1 DEF Unwritten, Writes
  <2>. QED BY <1>2, <2>1, <2>2, RunSlot
<1>3. ASSUME Leaves PROVE Unwritten'
  BY <1>3 DEF Leaves, Unwritten
<1>4. CASE \E k \in Runs : ManualTrigger(k) \/ ScheduledDue(k)
  BY <1>1, <1>4 DEF ManualTrigger, ScheduledDue
<1>5. CASE TurnCompletes
  BY <1>1, <1>5 DEF TurnCompletes, Unwritten
<1>6. CASE \E c \in Calls : CallBegins(c) \/ CallStep(c)
  BY <1>3, <1>6, CallSlot
<1>7. CASE SessionRemoved \/ SessionMoves \/ Tick \/ UNCHANGED vars
  BY <1>3, <1>7, EnvironmentSlot
<1>. QED BY <1>2, <1>4, <1>5, <1>6, <1>7 DEF Next

Holders == {k \in Runs : run[k].pc \in CyclePCs}

\* Every step of the manager is a step of the slot, or leaves it alone.
LEMMA SlotStep == Typed /\ Unwritten /\ [Next]_vars => [Slot!Next]_Slot!slotVars
<1>. SUFFICES ASSUME Typed, Unwritten, [Next]_vars
              PROVE  Slot!Next \/ UNCHANGED <<Holders, aborted, injections>>
  BY DEF Slot!slotVars, Holders
<1>1. ASSUME NEW k \in Runs, run[k].pc \in CyclePCs PROVE Holders = {k}
  BY <1>1 DEF Typed, Flight, OneCycle, Holders
<1>2. inFlight => Holders # {}
  BY DEF Typed, Flight, OneCycle, Holders
<1>3. ASSUME Holds PROVE Holders' = Holders /\ aborted' = aborted
  BY <1>3 DEF Holds, Holders
<1>4. ASSUME NEW k \in Runs, RunStep(k)
      PROVE  Slot!Next \/ UNCHANGED <<Holders, aborted, injections>>
  <2>1. CASE Holds /\ injections' = injections
    BY <2>1, <1>3
  <2>2. CASE Lets(k) /\ injections' = injections
    <3>1. Holders # {} /\ Holders' = {} /\ aborted' = FALSE
      BY <2>2, <1>1 DEF Lets, Holders
    <3>2. Slot!Release
      BY <2>2, <3>1 DEF Slot!Release, Holders
    <3>. QED BY <3>2 DEF Slot!Next
  <2>3. CASE Writes(k)
    <3>1. Holders # {} /\ Holders' = Holders /\ ~aborted /\ aborted' = aborted
      BY <2>3, <1>1, <1>3, FreshPCs DEF Writes
    <3>2. injections = 0 /\ injections' = 1
      BY <2>3 DEF Writes, Unwritten
    <3>3. Slot!Write
      BY <3>1, <3>2 DEF Slot!Write, Holders
    <3>. QED BY <3>3 DEF Slot!Next
  <2>. QED BY <1>4, <2>1, <2>2, <2>3, RunSlot
<1>5. ASSUME NEW k \in Runs, NEW t, Trigger(k, t)
      PROVE  Slot!Next \/ UNCHANGED <<Holders, aborted, injections>>
  <2>1. CASE Holds /\ injections' = injections
    BY <2>1, <1>3
  <2>2. CASE /\ \A j \in Runs : run[j].pc \notin CyclePCs
             /\ run'[k].pc \in CyclePCs /\ \A j \in Runs \ {k} : run'[j].pc \notin CyclePCs
             /\ aborted' = FALSE /\ injections' = 0
    <3>1. Holders = {} /\ Holders' = {k}
      BY <2>2 DEF Holders
    <3>2. Slot!Acquire(k)
      BY <2>2, <3>1 DEF Slot!Acquire, Holders
    <3>. QED BY <3>2 DEF Slot!Next
  <2>. QED BY <1>5, <2>1, <2>2, TriggerSlot
<1>6. ASSUME Leaves PROVE Slot!Next \/ UNCHANGED <<Holders, aborted, injections>>
  <2>1. Holders' = Holders /\ injections' = injections
    BY <1>6 DEF Leaves, Holders
  <2>2. CASE aborted' = aborted
    BY <2>1, <2>2
  <2>3. CASE inFlight /\ aborted' = TRUE
    <3>1. Slot!Cancel
      BY <2>1, <2>3, <1>2 DEF Slot!Cancel, Holders
    <3>. QED BY <3>1 DEF Slot!Next
  <2>. QED BY <1>6, <2>2, <2>3 DEF Leaves
<1>7. CASE \E k \in Runs : ManualTrigger(k) \/ ScheduledDue(k)
  BY <1>5, <1>7 DEF ManualTrigger, ScheduledDue
<1>8. CASE TurnCompletes
  BY <1>5, <1>8 DEF TurnCompletes, Holders
<1>9. CASE \E c \in Calls : CallBegins(c) \/ CallStep(c)
  BY <1>6, <1>9, CallSlot
<1>10. CASE SessionRemoved \/ SessionMoves \/ Tick \/ UNCHANGED vars
  BY <1>6, <1>10, EnvironmentSlot
<1>. QED BY <1>4, <1>7, <1>8, <1>9, <1>10 DEF Next

\* The evaluations of a supervisor, with inFlight, the signal and the writes to
\* the session, are a slot that one at a time takes, writes from once at most and
\* not after it was cancelled, and lets go.
THEOREM SlotRefinement == Spec => SlotSpec
<1>1. Init => Slot!Init
  BY Neutral, OffIsNoCycle DEF Init, Slot!Init
<1>2. Init => Unwritten
  BY DEF Init, Unwritten
<1>3. Spec => []Typed
  BY TypedAlways
<1>. QED BY <1>1, <1>2, <1>3, StepUnwritten, SlotStep, PTL DEF Spec, SlotSpec, Slot!Spec

\* What the slot promises, of the evaluations: there are never two in flight, and
\* one writes to the session once at most.
THEOREM SlotSafety == Spec => []Slot!SlotSafe
<1>1. Slot!Init => Slot!SlotSafe
  <2>. SUFFICES ASSUME Slot!Init PROVE (\A j, k \in Holders : j = k) /\ injections <= 1
    BY DEF Slot!SlotSafe, Holders
  <2>. QED BY DEF Slot!Init, Holders
<1>2. Slot!SlotSafe /\ [Slot!Next]_Slot!slotVars => Slot!SlotSafe'
  <2>. SUFFICES ASSUME \A j, k \in Holders : j = k, injections <= 1, [Slot!Next]_Slot!slotVars
                PROVE  (\A j, k \in Holders' : j = k) /\ injections' <= 1
    BY DEF Slot!SlotSafe, Holders
  <2>1. CASE Slot!Next
    BY <2>1 DEF Slot!Next, Slot!Acquire, Slot!Cancel, Slot!Write, Slot!Release, Holders
  <2>2. CASE UNCHANGED Slot!slotVars
    BY <2>2 DEF Slot!slotVars, Holders
  <2>. QED BY <2>1, <2>2
<1>. QED BY <1>1, <1>2, SlotRefinement, PTL DEF SlotSpec, Slot!Spec

----------------------------------------------------------------------------
(* A cycle owns its supervisor.                                            *)

\* What a suspended function captured, and will store, is a supervisor.
Stores == {"flipFinal", "attachFinal", "attachFailed", "attachError"}
Captured ==
  /\ \A k \in Runs : run[k].pc \in Stores => Exists(run[k].rec)
  /\ \A c \in Calls :
       /\ call[c].pc \in {"persist", "reset", "persistUpdate", "persistRestore",
                          "finishRestore"} => Exists(call[c].rec)
       /\ call[c].pc \in {"reset", "persistUpdate", "rollback"} => Exists(call[c].cur)

OwnInv == Typed /\ Captured /\ CycleOwnsSupervisor

Late == CyclePCs \ BeginPCs
LEMMA LatePCs ==
  /\ Late = {"evaluate", "retryWait", "flipRetry", "flipInjecting", "saveOutcome", "flipFinal",
             "attachFinal", "abortRecord", "flipAborted", "flipFailed", "attachFailed"}
  /\ "off" \notin Late /\ Late \subseteq CyclePCs
  BY DEF Late, CyclePCs, BeginPCs, AttemptPCs, OutcomePCs, CancelPCs, FailPCs

LEMMA CapturedReplaces ==
  ASSUME Typed, Captured, NEW k \in Runs, NEW r, run' = [run EXCEPT ![k] = r],
         r.pc \in Stores => Exists(r.rec), call' = call \/ ReleaseInFlight
  PROVE  Captured'
<1>1. \A j \in Runs : run'[j].pc \in Stores => Exists(run'[j].rec)
  BY DEF Typed, Control, Captured, Stores
<1>2. ASSUME NEW c \in Calls
      PROVE  call'[c] = call[c] \/ call'[c].pc \in {"off", "woken"}
  <2>1. call[c] \in Call
    BY DEF Typed, Control
  <2>2. Resolved(call[c]) = call[c] \/ Resolved(call[c]).pc \in {"off", "woken"}
    BY <2>1, Neutral DEF Resolved, Call
  <2>. QED BY <2>2 DEF ReleaseInFlight
<1>. QED BY <1>1, <1>2 DEF Captured, Stores, Exists

\* An evaluation in flight goes on with a supervisor that exists, or ends.
LEMMA OwnGoesOn ==
  ASSUME Typed, Captured, NEW k \in Runs, run[k].pc \in CyclePCs, NEW r, Suspend(k, r),
         r.pc \in Late => Exists(repo') /\ Exists(snap'),
         r.pc \in Stores => Exists(r.rec)
  PROVE  Captured' /\ CycleOwnsSupervisor'
<1>1. Captured'
  BY CapturedReplaces DEF Suspend
<1>2. CycleOwnsSupervisor'
  BY DEF Typed, Control, Flight, OneCycle, Suspend, CycleOwnsSupervisor, Late
<1>. QED BY <1>1, <1>2

LEMMA OwnEnds ==
  ASSUME Typed, Captured, NEW k \in Runs, run[k].pc \in CyclePCs
  PROVE  /\ Finally(k) => Captured' /\ CycleOwnsSupervisor'
         /\ BeginFails(k) => Captured' /\ CycleOwnsSupervisor'
         /\ DeleteNow /\ run' = [run EXCEPT ![k] = NoRun] => Captured' /\ CycleOwnsSupervisor'
<1>1. NoRun.pc \notin Stores
  BY Neutral DEF Stores
<1>2. Lets(k) => CycleOwnsSupervisor'
  BY DEF Lets, CycleOwnsSupervisor
<1>3. Finally(k) => Captured' /\ CycleOwnsSupervisor'
  BY <1>1, <1>2, CapturedReplaces, HandlersHold DEF Finally
<1>4. DeleteNow /\ run' = [run EXCEPT ![k] = NoRun] => Captured' /\ CycleOwnsSupervisor'
  BY <1>1, <1>2, CapturedReplaces, HandlersHold DEF DeleteNow
<1>5. BeginFails(k) => Captured' /\ CycleOwnsSupervisor'
  <2> DEFINE e == IF Exists(repo) THEN At(k, "markError") ELSE NoRun
  <2>1. At(k, "markError").pc = "markError"
    BY RunMoves, PcSets DEF Typed
  <2>2. e.pc \notin Stores
    BY <1>1, <2>1 DEF Stores
  <2>3. BeginFails(k) => run' = [run EXCEPT ![k] = e] /\ ReleaseInFlight
    BY DEF BeginFails
  <2>. HIDE DEF e
  <2>4. BeginFails(k) => Captured'
    BY <2>2, <2>3, CapturedReplaces
  <2>. QED BY <2>4, <1>2, HandlersHold
<1>. QED BY <1>3, <1>4, <1>5

LEMMA OwnFails ==
  ASSUME Typed, Captured, NEW k \in Runs, run[k].pc \in CyclePCs, NEW s, NEW r,
         Exists(repo'), Exists(snap')
  PROVE  /\ EnterFailure(k, s, r) => Captured' /\ CycleOwnsSupervisor'
         /\ EnterAbort(k, s, r) => Captured' /\ CycleOwnsSupervisor'
<1>1. EnterFailure(k, s, r) => Captured' /\ CycleOwnsSupervisor'
  <2>1. At(k, "flipFailed").pc \notin Stores
    BY RunMoves, PcSets DEF Typed, Stores
  <2>. QED BY <2>1, OwnGoesOn, OwnEnds DEF EnterFailure
<1>2. EnterAbort(k, s, r) => Captured' /\ CycleOwnsSupervisor'
  <2> DEFINE e == [run[k] EXCEPT !.pc = "flipAborted", !.rec.state = AbortState(s)]
  <2>1. /\ At(k, "abortRecord").pc = "abortRecord" /\ e.pc = "flipAborted"
    BY RunMoves, PcSets DEF Typed, Control, Run
  <2>2. At(k, "abortRecord").pc \notin Stores /\ e.pc \notin Stores
    BY <2>1 DEF Stores
  <2>3. EnterAbort(k, s, r) => Suspend(k, At(k, "abortRecord")) \/ Suspend(k, e) \/ Finally(k)
    BY DEF EnterAbort
  <2>. HIDE DEF e
  <2>4. Suspend(k, At(k, "abortRecord")) => Captured' /\ CycleOwnsSupervisor'
    BY <2>2, OwnGoesOn
  <2>5. Suspend(k, e) => Captured' /\ CycleOwnsSupervisor'
    BY <2>2, OwnGoesOn
  <2>. QED BY <2>3, <2>4, <2>5, OwnEnds
<1>. QED BY <1>1, <1>2

LEMMA BeginOwns ==
  ASSUME OwnInv, NEW k \in Runs, BuildContext(k) \/ FlipEvaluating(k)
  PROVE  Captured' /\ CycleOwnsSupervisor'
<1>1. Typed /\ Captured /\ run[k] \in Run /\ run[k].pc \in CyclePCs
  BY PcSets DEF OwnInv, Typed, Control, BuildContext, FlipEvaluating
<1>2. CASE BuildContext(k)
  <2>1. ASSUME NEW d, Suspend(k, [run[k] EXCEPT !.pc = "flipEvaluating", !.due = d])
        PROVE  Captured' /\ CycleOwnsSupervisor'
    <3>1. PICK r : r = [run[k] EXCEPT !.pc = "flipEvaluating", !.due = d]
      OBVIOUS
    <3>2. r.pc = "flipEvaluating" /\ r.pc \notin Late /\ r.pc \notin Stores /\ Suspend(k, r)
      BY <1>1, <2>1, <3>1, LatePCs DEF Run, Stores
    <3>. QED BY <1>1, <3>2, OwnGoesOn
  <2>. QED BY <1>1, <1>2, <2>1, OwnEnds DEF BuildContext
<1>3. CASE FlipEvaluating(k)
  <2>1. At(k, "evaluate").pc \notin Stores
    BY <1>1, RunMoves, PcSets DEF Typed, Stores
  <2>2. CASE BeginFails(k)
    BY <1>1, <2>2, OwnEnds
  <2>3. CASE /\ repo' = [repo EXCEPT !.state = "evaluating", !.sched = NextSchedule(run[k])]
             /\ snap' = repo' /\ Suspend(k, At(k, "evaluate"))
    <3>1. Exists(repo') /\ Exists(snap')
      BY <1>1, <2>3 DEF Typed, Data, Entry, Exists
    <3>. QED BY <1>1, <2>1, <2>3, <3>1, OwnGoesOn
  <2>. QED BY <1>3, <2>2, <2>3 DEF FlipEvaluating
<1>. QED BY <1>2, <1>3

LEMMA TailOwns ==
  ASSUME OwnInv, NEW k \in Runs, FlipStopped(k) \/ MarkError(k) \/ AttachError(k)
  PROVE  Captured' /\ CycleOwnsSupervisor'
<1>1. /\ Typed /\ Captured /\ CycleOwnsSupervisor /\ run[k] \in Run /\ repo \in Entry
      /\ run[k].pc \notin CyclePCs /\ NoRun.pc = "off"
  BY PcSets, Neutral DEF OwnInv, Typed, Control, Data, FlipStopped, MarkError, AttachError
<1> DEFINE e == [run[k] EXCEPT !.pc = "attachError", !.rec = repo']
<1>2. PICK r : Suspend(k, r) /\ \/ r = NoRun
                                \/ MarkError(k) /\ repo' = [repo EXCEPT !.state = "error"] /\ r = e
  BY DEF FlipStopped, MarkError, AttachError
<1>3. r.pc \notin Late /\ (r.pc \in Stores => Exists(r.rec))
  BY <1>1, <1>2, LatePCs DEF Run, Entry, Exists, Stores
<1>4. Captured'
  BY <1>1, <1>2, <1>3, CapturedReplaces DEF Suspend
<1>5. Exists(repo) => Exists(repo')
  BY <1>1 DEF FlipStopped, MarkError, AttachError, Entry, Exists
<1>6. Exists(snap) => Exists(snap')
  BY <1>1 DEF FlipStopped, MarkError, AttachError, Entry, Exists, Captured, Stores
<1>7. CycleOwnsSupervisor'
  BY <1>1, <1>2, <1>3, <1>5, <1>6 DEF CycleOwnsSupervisor, Suspend, Typed, Control, Late
<1>. QED BY <1>4, <1>7

LEMMA AttemptOwns ==
  ASSUME OwnInv, NEW k \in Runs,
         \/ EvaluatorAborts(k) \/ EvaluatorFails(k) \/ EvaluationBreaks(k)
         \/ EvaluatorConcludes(k, "stop") \/ EvaluatorConcludes(k, "continue")
         \/ EvaluatorGuides(k) \/ RetryElapses(k)
  PROVE  Captured' /\ CycleOwnsSupervisor'
<1>1. /\ Typed /\ Captured /\ run[k] \in Run /\ run[k].pc \in {"evaluate", "retryWait"}
      /\ UNCHANGED <<repo, snap>>
  BY DEF OwnInv, Typed, Control, EvaluatorAborts, EvaluatorFails, EvaluationBreaks,
         EvaluatorConcludes, EvaluatorGuides, RetryElapses
<1>2. run[k].pc \in CyclePCs /\ Exists(repo') /\ Exists(snap')
  BY <1>1, PcSets, LatePCs DEF OwnInv, CycleOwnsSupervisor, Late
<1>3. \A p \in {"retryWait", "flipInjecting", "flipRetry"} :
        Suspend(k, At(k, p)) => Captured' /\ CycleOwnsSupervisor'
  <2>1. ASSUME NEW p \in {"retryWait", "flipInjecting", "flipRetry"}
        PROVE  At(k, p).pc \notin Stores
    BY <1>1, RunMoves, PcSets DEF Stores, Typed
  <2>. QED BY <1>1, <1>2, <2>1, OwnGoesOn
<1>4. ASSUME NEW v, EvaluatorConcludes(k, v) PROVE Captured' /\ CycleOwnsSupervisor'
  <2>1. PICK r : r = [run[k] EXCEPT !.pc = "saveOutcome", !.verdict = v]
    OBVIOUS
  <2>2. r.pc = "saveOutcome" /\ r.pc \notin Stores /\ Suspend(k, r)
    BY <1>1, <1>4, <2>1 DEF EvaluatorConcludes, Run, Stores
  <2>. QED BY <1>1, <1>2, <2>2, OwnGoesOn
<1>5. /\ EnterFailure(k, snap, repo) => Captured' /\ CycleOwnsSupervisor'
      /\ EnterAbort(k, snap, repo) => Captured' /\ CycleOwnsSupervisor'
  BY <1>1, <1>2, OwnFails
<1>6. CASE EvaluatorAborts(k) \/ EvaluatorFails(k) \/ EvaluationBreaks(k)
  BY <1>3, <1>5, <1>6 DEF EvaluatorAborts, EvaluatorFails, EvaluationBreaks
<1>7. CASE EvaluatorGuides(k) \/ RetryElapses(k)
  BY <1>3, <1>5, <1>7 DEF EvaluatorGuides, RetryElapses
<1>. QED BY <1>4, <1>6, <1>7

LEMMA FlipOwns ==
  ASSUME OwnInv, NEW k \in Runs, FlipRetry(k) \/ FlipInjecting(k)
  PROVE  Captured' /\ CycleOwnsSupervisor'
<1>1. /\ Typed /\ Captured /\ run[k] \in Run /\ run[k].pc \in {"flipRetry", "flipInjecting"}
      /\ repo \in Entry
  BY DEF OwnInv, Typed, Control, Data, FlipRetry, FlipInjecting
<1>2. run[k].pc \in CyclePCs /\ Exists(repo) /\ Exists(snap)
  BY <1>1, PcSets, LatePCs DEF OwnInv, CycleOwnsSupervisor, Late
<1>3. Exists(repo') /\ Exists(snap')
  BY <1>1, <1>2 DEF FlipRetry, FlipInjecting, Entry, Exists
<1> DEFINE again == [run[k] EXCEPT !.pc = "evaluate", !.attempt = @ + 1]
           wrote == [run[k] EXCEPT !.pc = "saveOutcome", !.verdict = "continue"]
<1>4. PICK r : \/ r \in {again, wrote} /\ Suspend(k, r)
               \/ EnterFailure(k, snap, repo) \/ EnterFailure(k, snap', repo')
               \/ EnterAbort(k, snap', repo')
  BY DEF FlipRetry, FlipInjecting, Inject
<1>5. r \in {again, wrote} => r.pc \notin Stores
  BY <1>1 DEF Run, Stores
<1>. HIDE DEF again, wrote
<1>6. r \in {again, wrote} /\ Suspend(k, r) => Captured' /\ CycleOwnsSupervisor'
  BY <1>1, <1>2, <1>3, <1>5, OwnGoesOn
<1>. QED BY <1>1, <1>2, <1>3, <1>4, <1>6, OwnFails

LEMMA SaveOwns ==
  ASSUME OwnInv, NEW k \in Runs, SaveOutcome(k) \/ FlipFinal(k) \/ FlipFailed(k)
  PROVE  Captured' /\ CycleOwnsSupervisor'
<1>1. /\ Typed /\ Captured /\ run[k] \in Run
      /\ run[k].pc \in {"saveOutcome", "flipFinal", "flipFailed"} /\ repo \in Entry
  BY DEF OwnInv, Typed, Control, Data, SaveOutcome, FlipFinal, FlipFailed
<1>2. run[k].pc \in CyclePCs /\ Exists(repo) /\ Exists(snap)
  BY <1>1, PcSets, LatePCs DEF OwnInv, CycleOwnsSupervisor, Late
<1>3. EnterFailure(k, snap, repo) /\ UNCHANGED <<repo, snap>> => Captured' /\ CycleOwnsSupervisor'
  BY <1>1, <1>2, OwnFails
<1>4. CASE SaveOutcome(k)
  <2>1. PICK r : r = [run[k] EXCEPT !.pc = "flipFinal", !.rec = FinalEntry(k)]
    OBVIOUS
  <2>2. r.rec = FinalEntry(k) /\ Exists(r.rec)
    BY <1>1, <2>1 DEF Run, FinalEntry, Exists
  <2>3. Suspend(k, r) /\ UNCHANGED <<repo, snap>> => Captured' /\ CycleOwnsSupervisor'
    BY <1>1, <1>2, <2>2, OwnGoesOn
  <2>. QED BY <1>3, <1>4, <2>1, <2>3 DEF SaveOutcome
<1>5. CASE FlipFinal(k)
  <2>1. CASE /\ repo' = [run[k].rec EXCEPT !.sched = repo.sched] /\ UNCHANGED snap
             /\ Suspend(k, [run[k] EXCEPT !.pc = "attachFinal", !.rec = repo'])
    <3>1. PICK r : r = [run[k] EXCEPT !.pc = "attachFinal", !.rec = repo']
      OBVIOUS
    <3>2. r.rec = repo' /\ Suspend(k, r)
      BY <1>1, <2>1, <3>1 DEF Run
    <3>3. Exists(repo') /\ Exists(snap')
      BY <1>1, <1>2, <1>5, <2>1 DEF FlipFinal, Captured, Stores, Run, Entry, Exists
    <3>. QED BY <1>1, <1>2, <3>2, <3>3, OwnGoesOn
  <2>. QED BY <1>3, <1>5, <2>1 DEF FlipFinal
<1>6. CASE FlipFailed(k)
  <2>1. CASE /\ repo' = [repo EXCEPT !.state = "error"] /\ UNCHANGED snap
             /\ Suspend(k, [run[k] EXCEPT !.pc = "attachFailed", !.rec = repo'])
    <3>1. PICK r : r = [run[k] EXCEPT !.pc = "attachFailed", !.rec = repo']
      OBVIOUS
    <3>2. r.rec = repo' /\ Suspend(k, r)
      BY <1>1, <2>1, <3>1 DEF Run
    <3>3. Exists(repo') /\ Exists(snap')
      BY <1>1, <1>2, <2>1 DEF Entry, Exists
    <3>. QED BY <1>1, <1>2, <3>2, <3>3, OwnGoesOn
  <2>2. CASE Finally(k)
    BY <1>1, <1>2, <2>2, OwnEnds
  <2>. QED BY <1>6, <2>1, <2>2 DEF FlipFailed
<1>. QED BY <1>4, <1>5, <1>6

LEMMA OutcomeOwns ==
  ASSUME OwnInv, NEW k \in Runs,
         AttachFinal(k) \/ AbortRecord(k) \/ FlipAborted(k) \/ AttachFailed(k)
  PROVE  Captured' /\ CycleOwnsSupervisor'
<1>1. /\ Typed /\ Captured
      /\ run[k].pc \in {"attachFinal", "abortRecord", "flipAborted", "attachFailed"}
  BY DEF OwnInv, AttachFinal, AbortRecord, FlipAborted, AttachFailed
<1>2. run[k].pc \in CyclePCs /\ Exists(repo) /\ Exists(snap)
  BY <1>1, PcSets, LatePCs DEF OwnInv, CycleOwnsSupervisor, Late
<1>3. EnterFailure(k, snap, repo) /\ UNCHANGED <<repo, snap>> => Captured' /\ CycleOwnsSupervisor'
  BY <1>1, <1>2, OwnFails
<1>4. DeleteIfPending(k, run[k].rec) => Captured' /\ CycleOwnsSupervisor'
  BY <1>1, <1>2, OwnEnds DEF DeleteIfPending
<1>. QED BY <1>1, <1>2, <1>3, <1>4, OwnEnds
         DEF AttachFinal, AbortRecord, FlipAborted, AttachFailed

LEMMA RunOwns ==
  ASSUME OwnInv, NEW k \in Runs, RunStep(k)
  PROVE  Captured' /\ CycleOwnsSupervisor'
  BY BeginOwns, TailOwns, AttemptOwns, FlipOwns, SaveOwns, OutcomeOwns DEF RunStep

LEMMA TriggerOwns ==
  ASSUME OwnInv, NEW k \in Runs, NEW t, Trigger(k, t)
  PROVE  Captured' /\ CycleOwnsSupervisor'
<1>1. /\ Typed /\ Captured /\ CycleOwnsSupervisor /\ run[k].pc \notin CyclePCs
      /\ UNCHANGED <<repo, snap, call>>
  BY OffIsNoCycle DEF OwnInv, Trigger, CanTrigger, Accepts
<1>2. PICK r : run' = [run EXCEPT ![k] = r]
               /\ \/ r = At(k, "flipStopped")
                  \/ r = [NoRun EXCEPT !.pc = "context", !.trigger = t, !.rec = snap]
  BY DEF Trigger
<1>3. r.pc \in {"flipStopped", "context"}
  <2>1. At(k, "flipStopped").pc = "flipStopped"
    BY <1>1, RunMoves, PcSets DEF Typed
  <2>2. [NoRun EXCEPT !.pc = "context", !.trigger = t, !.rec = snap].pc = "context"
    BY DEF NoRun
  <2>. QED BY <1>2, <2>1, <2>2
<1>4. r.pc \notin Stores /\ r.pc \notin Late
  BY <1>3, LatePCs DEF Stores
<1>5. Captured'
  BY <1>1, <1>2, <1>4, CapturedReplaces
<1>. QED BY <1>1, <1>2, <1>4, <1>5 DEF CycleOwnsSupervisor, Late, Typed, Control

\* What a call holds: it stores a supervisor, and rolls back to one.
Holding(r) ==
  /\ r.pc \in {"persist", "reset", "persistUpdate", "persistRestore", "finishRestore"} =>
       Exists(r.rec)
  /\ r.pc \in {"reset", "persistUpdate", "rollback"} => Exists(r.cur)

LEMMA CallReplaces ==
  ASSUME Typed, Captured, NEW c \in Calls, NEW r, call' = [call EXCEPT ![c] = r], Holding(r),
         UNCHANGED run
  PROVE  Captured'
<1>1. \A d \in Calls : Holding(call'[d])
  BY DEF Typed, Control, Captured, Holding
<1>. QED BY <1>1 DEF Captured, Holding

\* Calls leave the evaluations alone, and the supervisor while one owns it.
LEMMA OwnStays ==
  ASSUME OwnInv, UNCHANGED run,
         \/ (Exists(repo) => Exists(repo')) /\ (Exists(snap) => Exists(snap'))
         \/ ~inFlight
  PROVE  CycleOwnsSupervisor'
  BY DEF OwnInv, Typed, Flight, OneCycle, CycleOwnsSupervisor

LEMMA ReturnHolds ==
  ASSUME Typed, Captured, NEW c \in Calls, Return(c), UNCHANGED run
  PROVE  Captured'
<1>1. Holding(NoCall)
  BY DEF Holding, NoCall
<1>. QED BY <1>1, CallReplaces DEF Return

LEMMA BeginHolds ==
  ASSUME Typed, Captured, NEW c \in Calls, NEW op, NEW pc, NEW arg, NEW rec, NEW cur,
         Begin(c, op, pc, arg, rec, cur), UNCHANGED run,
         pc \in {"persist", "reset", "persistUpdate", "persistRestore", "finishRestore"} =>
           Exists(rec),
         pc \in {"reset", "persistUpdate", "rollback"} => Exists(cur)
  PROVE  Captured'
<1>1. PICK r : r = [op |-> op, pc |-> pc, arg |-> arg, rec |-> rec, cur |-> cur]
  OBVIOUS
<1>2. Holding(r)
  BY <1>1 DEF Holding
<1>. QED BY <1>1, <1>2, CallReplaces DEF Begin

LEMMA CallAtHolds ==
  ASSUME Typed, Captured, NEW c \in Calls, NEW pc, call' = CallAt(c, pc), UNCHANGED run,
         pc \in {"persistUpdate", "finishRestore"} => Exists(call[c].rec),
         pc \in {"persistUpdate", "rollback"} => Exists(call[c].cur),
         pc \in {"persistUpdate", "finishRestore", "rollback", "attachUpdate"}
  PROVE  Captured'
<1>1. PICK r : r = [call[c] EXCEPT !.pc = pc]
  OBVIOUS
<1>2. r.pc = pc /\ r.rec = call[c].rec /\ r.cur = call[c].cur
  BY <1>1 DEF Typed, Control, Call
<1>3. Holding(r)
  BY <1>2 DEF Holding
<1>. QED BY <1>1, <1>3, CallReplaces DEF CallAt

LEMMA StartUpdateHolds ==
  ASSUME OwnInv, NEW c \in Calls, NEW op, NEW arg, StartUpdate(c, op, arg), Exists(snap),
         UNCHANGED run
  PROVE  Captured'
<1>1. Typed /\ Captured /\ snap \in Entry
  BY DEF OwnInv, Typed, Data
<1> DEFINE kept == IF snap.state = "paused" THEN "paused" ELSE "idle"
           next == IF op = "objective" THEN [state |-> kept, count |-> 0, sched |-> snap.sched]
                   ELSE [snap EXCEPT !.state = IF @ = "error" THEN "idle" ELSE @]
           rec == IF arg = Keep THEN next ELSE [next EXCEPT !.sched = arg]
<1>2. Exists(next)
  <2>1. CASE op = "objective"
    <3>1. next.state = kept /\ kept # "gone"
      BY <2>1
    <3>. QED BY <3>1 DEF Exists
  <2>2. CASE op # "objective"
    <3>1. next.state = IF snap.state = "error" THEN "idle" ELSE snap.state
      BY <2>2, <1>1 DEF Entry
    <3>. QED BY <3>1 DEF Exists
  <2>. QED BY <2>1, <2>2
<1>3. Exists(rec)
  <2>. HIDE DEF kept
  <2>1. next.state = [next EXCEPT !.sched = arg].state
    <3>1. CASE op = "objective"
      BY <3>1
    <3>2. CASE op # "objective"
      BY <3>2, <1>1 DEF Entry
    <3>. QED BY <3>1, <3>2
  <2>. HIDE DEF next
  <2>. QED BY <2>1, <1>2 DEF Exists
<1>4. \/ Begin(c, op, "reset", arg, rec, snap) \/ Begin(c, op, "persistUpdate", arg, rec, snap)
      \/ Return(c)
  BY DEF StartUpdate
<1>. HIDE DEF rec
<1>5. CASE Begin(c, op, "reset", arg, rec, snap)
  BY <1>1, <1>3, <1>5, BeginHolds
<1>6. CASE Begin(c, op, "persistUpdate", arg, rec, snap)
  BY <1>1, <1>3, <1>6, BeginHolds
<1>. QED BY <1>1, <1>4, <1>5, <1>6, ReturnHolds

LEMMA CallBeginOwns ==
  ASSUME OwnInv, NEW c \in Calls, CallBegins(c)
  PROVE  Captured' /\ CycleOwnsSupervisor'
<1>1. Typed /\ Captured /\ UNCHANGED run
  BY DEF OwnInv, CallBegins, Pause, Resume, Delete, UpdateObjective, Edit, Update, Restore
<1>2. CASE Pause(c) \/ Resume(c)
  <2>1. Exists([NoEntry EXCEPT !.state = "paused"]) /\ Exists([NoEntry EXCEPT !.state = "idle"])
    BY DEF NoEntry, Exists
  <2>2. call' = call => Captured'
    BY <1>1 DEF Captured
  <2>3. ASSUME NEW op, NEW e, Begin(c, op, "persist", Keep, e, NoEntry), Exists(e) PROVE Captured'
    BY <1>1, <2>3, BeginHolds
  <2>4. Captured'
    BY <1>2, <2>1, <2>2, <2>3 DEF Pause, Resume
  <2>. QED BY <1>2, <2>4, OwnStays DEF Pause, Resume
<1>3. CASE Delete(c)
  <2>1. CASE inFlight
    <3>1. Begin(c, "delete", "waitDelete", Keep, NoEntry, NoEntry) /\ UNCHANGED <<repo, snap>>
      BY <1>3, <2>1 DEF Delete, AskDelete
    <3>. QED BY <1>1, <3>1, BeginHolds, OwnStays
  <2>2. CASE ~inFlight
    <3>1. ReleaseInFlight
      BY <1>3, <2>2 DEF Delete, DeleteNow
    <3>2. ASSUME NEW d \in Calls PROVE call'[d] = call[d] \/ call'[d].pc \in {"off", "woken"}
      <4>1. call[d] \in Call
        BY <1>1 DEF Typed, Control
      <4>. QED BY <4>1, <3>1, Neutral DEF ReleaseInFlight, Resolved, Call
    <3>3. Captured'
      BY <1>1, <3>2 DEF Captured
    <3>. QED BY <1>1, <2>2, <3>3, OwnStays
  <2>. QED BY <2>1, <2>2
<1>4. ASSUME NEW op, NEW arg, Update(c, op, arg) PROVE Captured' /\ CycleOwnsSupervisor'
  <2>1. \/ Begin(c, op, "waitCycle", arg, NoEntry, NoEntry)
        \/ Exists(snap) /\ StartUpdate(c, op, arg)
    BY <1>4 DEF Update
  <2>2. Captured'
    BY <1>1, <2>1, BeginHolds, StartUpdateHolds
  <2>. QED BY <1>4, <2>2, OwnStays DEF Update
<1>5. CASE Restore(c)
  <2>1. PICK arg : Begin(c, "restore", "clone", arg, NoEntry, snap)
    BY <1>5 DEF Restore
  <2>2. Captured'
    BY <1>1, <2>1, BeginHolds
  <2>. QED BY <1>5, <2>2, OwnStays DEF Restore
<1>. QED BY <1>2, <1>3, <1>4, <1>5 DEF CallBegins, UpdateObjective, Edit

LEMMA CallStepOwns ==
  ASSUME OwnInv, NEW c \in Calls, CallStep(c)
  PROVE  Captured' /\ CycleOwnsSupervisor'
<1>1. /\ Typed /\ Captured /\ UNCHANGED run /\ call[c] \in Call /\ repo \in Entry /\ snap \in Entry
  BY DEF OwnInv, Typed, Control, Data, CallStep, PersistState, UpdateWoken, ResetTarget,
         PersistUpdate, Rollback, AttachUpdate, CloneTarget, PersistRestore, FinishRestore
<1>2. CASE PersistState(c) \/ AttachUpdate(c) \/ FinishRestore(c) \/ Rollback(c)
  <2>1. Return(c)
    BY <1>2 DEF PersistState, AttachUpdate, FinishRestore, Rollback
  <2>2. (Exists(repo) => Exists(repo')) /\ (Exists(snap) => Exists(snap'))
    BY <1>1, <1>2 DEF PersistState, AttachUpdate, FinishRestore, Rollback, Captured, Exists, Entry
  <2>. QED BY <1>1, <2>1, <2>2, ReturnHolds, OwnStays
<1>3. CASE UpdateWoken(c)
  <2>1. Return(c) \/ (Exists(snap) /\ StartUpdate(c, call[c].op, call[c].arg))
    BY <1>3 DEF UpdateWoken
  <2>2. Captured'
    BY <1>1, <2>1, ReturnHolds, StartUpdateHolds
  <2>. QED BY <1>1, <1>3, <2>2, OwnStays DEF UpdateWoken
<1>4. CASE ResetTarget(c)
  <2>1. call' = CallAt(c, "persistUpdate") \/ call' = CallAt(c, "rollback") \/ Return(c)
    BY <1>4 DEF ResetTarget, EnterRollback
  <2>2. Exists(call[c].rec) /\ Exists(call[c].cur)
    BY <1>1, <1>4 DEF ResetTarget, Captured
  <2>3. Captured'
    BY <1>1, <2>1, <2>2, ReturnHolds, CallAtHolds
  <2>. QED BY <1>1, <1>4, <2>3, OwnStays DEF ResetTarget
<1>5. CASE PersistUpdate(c)
  <2>1. Exists(call[c].rec) /\ Exists(call[c].cur)
    BY <1>1, <1>5 DEF PersistUpdate, Captured
  <2>2. call' = CallAt(c, "attachUpdate") \/ call' = CallAt(c, "rollback") \/ Return(c)
    BY <1>5 DEF PersistUpdate, EnterRollback
  <2>3. Captured'
    BY <1>1, <2>1, <2>2, ReturnHolds, CallAtHolds
  <2>4. (Exists(repo) => Exists(repo')) /\ UNCHANGED snap
    BY <1>1, <1>5, <2>1 DEF PersistUpdate, Exists, Call, Entry
  <2>. QED BY <1>1, <2>3, <2>4, OwnStays
<1>6. CASE CloneTarget(c)
  <2>1. Return(c) \/ \E cycles \in 0..1 :
          LET kept == IF call[c].cur.state = "paused" THEN "paused" ELSE "idle"
              sched == IF call[c].arg = Keep THEN 0 ELSE call[c].arg
          IN  Begin(c, "restore", "persistRestore", call[c].arg,
                    [state |-> kept, count |-> cycles, sched |-> sched], call[c].cur)
    BY <1>6 DEF CloneTarget
  <2>2. \/ Return(c)
        \/ \E e : Begin(c, "restore", "persistRestore", call[c].arg, e, call[c].cur) /\ Exists(e)
    BY <2>1 DEF Exists
  <2>3. Captured'
    BY <1>1, <2>2, ReturnHolds, BeginHolds
  <2>. QED BY <1>1, <1>6, <2>3, OwnStays DEF CloneTarget
<1>7. CASE PersistRestore(c)
  <2>1. Exists(call[c].rec)
    BY <1>1, <1>7 DEF PersistRestore, Captured
  <2>2. call' = CallAt(c, "finishRestore") \/ Return(c)
    BY <1>7 DEF PersistRestore
  <2>3. Captured'
    BY <1>1, <2>1, <2>2, ReturnHolds, CallAtHolds
  <2>4. (Exists(repo) => Exists(repo')) /\ UNCHANGED snap
    BY <1>1, <1>7, <2>1 DEF PersistRestore
  <2>. QED BY <1>1, <2>3, <2>4, OwnStays
<1>. QED BY <1>2, <1>3, <1>4, <1>5, <1>6, <1>7 DEF CallStep

LEMMA EnvironmentOwns ==
  ASSUME OwnInv, SessionRemoved \/ SessionMoves \/ Tick \/ UNCHANGED vars
  PROVE  Captured' /\ CycleOwnsSupervisor'
<1>1. Typed /\ Captured /\ UNCHANGED run
  BY DEF OwnInv, SessionRemoved, SessionMoves, Tick, vars
<1>2. CASE call' = call /\ UNCHANGED <<repo, snap>>
  <2>1. Captured'
    BY <1>1, <1>2 DEF Captured
  <2>. QED BY <1>1, <1>2, <2>1, OwnStays
<1>3. CASE ~inFlight /\ ReleaseInFlight
  <2>1. ASSUME NEW d \in Calls PROVE call'[d] = call[d] \/ call'[d].pc \in {"off", "woken"}
    <3>1. call[d] \in Call
      BY <1>1 DEF Typed, Control
    <3>. QED BY <3>1, <1>3, Neutral DEF ReleaseInFlight, Resolved, Call
  <2>2. Captured'
    BY <1>1, <2>1 DEF Captured
  <2>. QED BY <1>1, <1>3, <2>2, OwnStays
<1>4. \/ call' = call /\ UNCHANGED <<repo, snap>>
      \/ ~inFlight /\ ReleaseInFlight
  BY DEF SessionRemoved, AskDelete, DeleteNow, SessionMoves, Tick, vars
<1>. QED BY <1>2, <1>3, <1>4

LEMMA StepOwn == OwnInv /\ [Next]_vars => OwnInv'
<1>. SUFFICES ASSUME OwnInv, [Next]_vars PROVE OwnInv'
  OBVIOUS
<1>1. Typed'
  BY StepTyped DEF OwnInv
<1>2. ASSUME TurnCompletes PROVE Captured' /\ CycleOwnsSupervisor'
  <2>1. \/ \E k \in Runs : Trigger(k, "turn_completed")
        \/ UNCHANGED <<repo, snap, run, call>>
    BY <1>2 DEF TurnCompletes
  <2>2. CASE UNCHANGED <<repo, snap, run, call>>
    BY <2>2 DEF OwnInv, Captured, CycleOwnsSupervisor
  <2>. QED BY <2>1, <2>2, TriggerOwns
<1>3. Captured' /\ CycleOwnsSupervisor'
  BY <1>2, TriggerOwns, RunOwns, CallBeginOwns, CallStepOwns, EnvironmentOwns
     DEF Next, ManualTrigger, ScheduledDue
<1>. QED BY <1>1, <1>3 DEF OwnInv

\* While a cycle runs its attempts or writes its outcome, its supervisor exists,
\* whatever updates, rollbacks, restores and failing files come between.
THEOREM SupervisorOutlivesCycle == Spec => []CycleOwnsSupervisor
<1>1. Init => Captured /\ CycleOwnsSupervisor
  BY Neutral, LatePCs DEF Init, Captured, Stores, NoCall, CycleOwnsSupervisor, Late
<1>2. Init => OwnInv
  BY <1>1, InitTyped DEF OwnInv
<1>3. OwnInv => CycleOwnsSupervisor
  BY DEF OwnInv
<1>. QED BY <1>2, <1>3, StepOwn, PTL DEF Spec
=============================================================================
