--------------------- MODULE SupervisorOutcomes_proofs ---------------------
(***************************************************************************)
(* Proofs about what evaluations leave behind in SupervisorCycle when no    *)
(* update and no restore writes captured state back and no file operation   *)
(* fails (Plain): the five invariants of the run cycle_outcomes, for every  *)
(* number of evaluations and calls, every cap, retry budget and schedule.   *)
(* DeletesAreKept needs less, and is proved with updates as well.           *)
(***************************************************************************)
EXTENDS SupervisorCycle_proofs

USE DEF lock, flags, bounds, history

\* Only pauses, resumes and deletes are called, and files do not fail.
Plain == Ops \subseteq {"pause", "resume", "delete"} /\ ~IoFails

----------------------------------------------------------------------------
(* The inductive invariant, part by part.                                  *)

\* What the records of calls and evaluations hold.
Calling ==
  \A c \in Calls :
    /\ call[c].pc \in {"off", "persist", "waitDelete"}
    /\ call[c].pc = "persist" => call[c].rec.state \in {"paused", "idle"}
RecordFits(r) ==
  /\ r.pc \in {"flipFinal", "attachFinal"} => r.rec.state \in {"idle", "stopped"}
  /\ r.pc = "flipAborted" => r.rec.state \in {"paused", "idle"}
  /\ r.pc \in {"attachFailed", "attachError"} => r.rec.state = "error"
Recorded == \A k \in Runs : RecordFits(run[k])

\* An evaluation is marked as failed only after its session was removed, which
\* ends all triggers.
Marked ==
  \A k \in Runs : run[k].pc \in {"markError", "attachError"} => session = "removed" /\ ~inFlight

\* Repository and snapshot hold a supervisor together until then.  Afterwards one that
\* was deleted may come back to the snapshot alone, as the error of that evaluation.
Entries ==
  /\ Exists(repo) => Exists(snap)
  /\ ~Exists(repo) => repo = NoEntry /\ snap.state \in {"gone", "error"}
  /\ session # "removed" => (Exists(snap) \/ inFlight => Exists(repo))

\* A cycle counts once, when its outcome is persisted, and only below the cap.
CountFits(r) ==
  /\ r.pc = "flipFinal" => r.rec.count = finalized + 1
  /\ r.pc \in {"attachFinal", "attachFailed", "attachError"} => r.rec.count = finalized
  /\ r.pc = "flipStopped" => MaxCount > 0 /\ finalized >= MaxCount /\ ~inFlight
  /\ r.pc \in CyclePCs \ {"attachFinal"} /\ MaxCount > 0 => finalized < MaxCount
Counting ==
  /\ Exists(repo) => repo.count = finalized
  /\ Exists(snap) => snap.count = finalized \/ \E k \in Runs : run[k].pc = "attachFinal"
  /\ \A k \in Runs : CountFits(run[k])
  /\ MaxCount > 0 => finalized <= MaxCount

\* A schedule that is still there has not fired.
ScheduleFits(r) ==
  /\ r.pc \in BeginPCs => r.due \in {0, r.rec.sched}
  /\ Exists(repo) /\ r.pc \in BeginPCs \cup {"attachFinal", "attachFailed", "attachError"}
       => r.rec.sched = repo.sched
Scheduling ==
  /\ \A t \in Times : fires[t] <= 1
  /\ Exists(repo) /\ repo.sched # 0 => fires[repo.sched] = 0
  /\ fires[0] = 0
  /\ Exists(repo) /\ Exists(snap) => snap.sched = repo.sched
  /\ \A k \in Runs : ScheduleFits(run[k])

\* A request to stop is there, and an evaluation is shown, only while it is one.
Clearing == session # "removed" => (pendingPause \/ pendingObjective => inFlight)
Showing ==
  /\ snap.state \in Active => inFlight
  /\ \A k \in Runs : run[k].pc \in BeginPCs => snap.state \notin Active

\* A pause that came in time cancels the evaluation, which then ends paused,
\* in error or deleted; so it stays.
Settled == {"paused", "error", "gone"}
PauseFits(r) ==
  /\ r.pc \in BeginPCs \cup AttemptPCs => aborted /\ pendingPause
  /\ r.pc \notin OutcomePCs \cup {"flipStopped"}
  /\ r.pc = "flipAborted" => r.rec.state = "paused"
Pausing ==
  intent = "early" =>
    /\ \A k \in Runs : PauseFits(run[k])
    /\ \A c \in Calls : call[c].pc = "persist" => call[c].rec.state = "paused"
    /\ \/ snap.state \in Settled
       \/ \E k \in Runs : run[k].pc \in CyclePCs \cup {"markError", "attachError"}

\* A delete that came in time is done, or the evaluation in flight will do it.
Unheard == BeginPCs \cup {"markError", "attachError", "flipAborted"}
Deleting ==
  deleteAsked = "final" =>
    /\ (~Exists(repo) /\ ~Exists(snap)) \/ (inFlight /\ pendingDelete)
    /\ \A k \in Runs : run[k].pc \notin Unheard

\* Any other is pending until a later evaluation does it; and then no evaluation is left that
\* could show its error.
Delaying ==
  deleteAsked \in {"preparing", "aborting"} =>
    \/ pendingDelete
    \/ /\ ~Exists(repo) /\ ~Exists(snap)
       /\ \A k \in Runs : run[k].pc # "attachError"

PlainInv ==
  /\ OwnInv
  /\ Calling /\ Recorded /\ Marked /\ Entries /\ Counting /\ Scheduling /\ Clearing /\ Showing
  /\ Pausing

----------------------------------------------------------------------------
(* What a step of an evaluation amounts to while files do not fail.  k      *)
(* becomes e.                                                              *)

Prepares(k, e) ==
  /\ run[k].pc = "context" /\ e.pc = "flipEvaluating"
  /\ e.rec = run[k].rec /\ e.due \in {0, e.rec.sched}
  /\ Suspend(k, e) /\ UNCHANGED <<repo, snap, session, fires, finalized>>

Starts(k, e) ==
  /\ run[k].pc = "flipEvaluating" /\ e.pc = "evaluate"
  /\ repo' = [repo EXCEPT !.state = "evaluating", !.sched = NextSchedule(run[k])]
  /\ snap' = repo'
  /\ fires' = IF run[k].due # 0 THEN [fires EXCEPT ![run[k].due] = @ + 1] ELSE fires
  /\ Exists(repo)
  /\ Suspend(k, e) /\ UNCHANGED <<session, finalized>>

\* The preparation fails.
Stumbles(k, e) ==
  /\ run[k].pc \in BeginPCs
  /\ e.pc = IF Exists(repo) THEN "markError" ELSE "off"
  /\ session = "removed" \/ ~Exists(repo)
  /\ run' = [run EXCEPT ![k] = e] /\ ReleaseInFlight
  /\ UNCHANGED <<flags, repo, snap, session, fires, finalized>>

\* An attempt goes on, fails, gives guidance or is cancelled.
Tries(k, e) ==
  /\ run[k].pc \in AttemptPCs
  /\ \/ e.pc \in AttemptPCs \cup {"flipFailed"}
     \/ ~aborted /\ e.pc = "saveOutcome"
     \/ pendingDelete /\ e.pc = "abortRecord"
     \/ /\ ~pendingDelete /\ e.pc = "flipAborted"
        /\ e.rec.state \in {"paused", "idle"} /\ (pendingPause => e.rec.state = "paused")
  /\ \/ UNCHANGED <<repo, snap>>
     \/ (\E st \in Active : repo' = [repo EXCEPT !.state = st]) /\ snap' = repo'
  /\ Exists(repo) /\ Exists(snap)
  /\ Suspend(k, e) /\ UNCHANGED <<fires, finalized>>
  /\ session' = session \/ (session' = "running" /\ session # "removed")

Saves(k, e) ==
  /\ run[k].pc = "saveOutcome" /\ e.pc = "flipFinal" /\ e.rec = FinalEntry(k)
  /\ Exists(repo) /\ Exists(snap)
  /\ Suspend(k, e) /\ UNCHANGED <<repo, snap, session, fires, finalized>>

Finals(k, e) ==
  /\ run[k].pc = "flipFinal" /\ e.pc = "attachFinal" /\ e.rec = repo'
  /\ repo' = [run[k].rec EXCEPT !.sched = repo.sched]
  /\ finalized' = finalized + 1
  /\ Exists(repo) /\ Exists(snap)
  /\ Suspend(k, e) /\ UNCHANGED <<snap, session, fires>>

\* The error is persisted, by a cycle or after its preparation failed.
Errs(k, e) ==
  /\ \/ run[k].pc = "flipFailed" /\ e.pc = "attachFailed"
     \/ run[k].pc = "markError" /\ e.pc = "attachError"
  /\ repo' = [repo EXCEPT !.state = "error"] /\ e.rec = repo'
  /\ Exists(repo)
  /\ Suspend(k, e) /\ UNCHANGED <<snap, session, fires, finalized>>

Attaches(k) ==
  /\ run[k].pc \in {"attachFinal", "attachFailed"}
  /\ ~pendingDelete
  /\ snap' = run[k].rec
  /\ Finally(k) /\ UNCHANGED <<repo, session, fires, finalized>>

Deletes(k) ==
  /\ run[k].pc \in {"attachFinal", "attachFailed", "abortRecord"}
  /\ DeleteNow /\ run' = [run EXCEPT ![k] = NoRun]
  /\ UNCHANGED <<session, fires, finalized>>

Restates(k) ==
  /\ run[k].pc = "flipAborted"
  /\ repo' = [repo EXCEPT !.state = run[k].rec.state] /\ snap' = repo'
  /\ Exists(repo)
  /\ Finally(k) /\ UNCHANGED <<session, fires, finalized>>

\* Without inFlight: the cap was reached, or the error is shown.
Trails(k) ==
  /\ \/ /\ run[k].pc = "flipStopped" /\ Exists(repo)
        /\ repo' = [repo EXCEPT !.state = "stopped"] /\ snap' = repo'
     \/ run[k].pc \in {"flipStopped", "markError"} /\ ~Exists(repo) /\ UNCHANGED <<repo, snap>>
     \/ run[k].pc = "attachError" /\ snap' = run[k].rec /\ UNCHANGED repo
  /\ Suspend(k, NoRun) /\ UNCHANGED <<session, fires, finalized>>

Amounts(k, e) ==
  \/ Prepares(k, e) \/ Starts(k, e) \/ Stumbles(k, e) \/ Tries(k, e) \/ Saves(k, e)
  \/ Finals(k, e) \/ Errs(k, e) \/ Attaches(k) \/ Deletes(k) \/ Restates(k) \/ Trails(k)

LEMMA BeginAmounts ==
  ASSUME OwnInv, ~IoFails, NEW k \in Runs, BuildContext(k) \/ FlipEvaluating(k)
  PROVE  \E e : Amounts(k, e)
<1>1. /\ Typed /\ run[k] \in Run /\ NoRun.pc = "off"
      /\ \A p \in CyclePCs \cup TailPCs : At(k, p).pc = p
      /\ "markError" \in TailPCs /\ "evaluate" \in CyclePCs
  BY RunMoves, Neutral, PcSets DEF OwnInv, Typed, Control
<1>2. ASSUME BeginFails(k), run[k].pc \in BeginPCs, session = "removed" \/ ~Exists(repo),
             UNCHANGED <<repo, snap, session, fires, finalized>>
      PROVE  \E e : Stumbles(k, e)
  <2>1. PICK e : e = IF Exists(repo) THEN At(k, "markError") ELSE NoRun
    OBVIOUS
  <2>2. e.pc = IF Exists(repo) THEN "markError" ELSE "off"
    BY <1>1, <2>1
  <2>. QED BY <1>2, <2>1, <2>2 DEF BeginFails, Stumbles
<1>3. CASE BuildContext(k)
  <2>1. ASSUME NEW d \in {0, run[k].rec.sched},
               Suspend(k, [run[k] EXCEPT !.pc = "flipEvaluating", !.due = d])
        PROVE  \E e : Prepares(k, e)
    <3>1. PICK e : e = [run[k] EXCEPT !.pc = "flipEvaluating", !.due = d]
      OBVIOUS
    <3>2. e.pc = "flipEvaluating" /\ e.rec = run[k].rec /\ e.due = d
      BY <1>1, <3>1 DEF Run
    <3>. QED BY <1>3, <2>1, <3>1, <3>2 DEF Prepares, BuildContext
  <2>2. CASE BeginFails(k) /\ (session = "removed" \/ ~Exists(repo))
    <3>1. run[k].pc \in BeginPCs /\ UNCHANGED <<repo, snap, session, fires, finalized>>
      BY <1>3 DEF BuildContext, BeginPCs
    <3>. QED BY <1>2, <2>2, <3>1 DEF Amounts
  <2>. QED BY <1>3, <2>1, <2>2 DEF BuildContext, Amounts
<1>4. CASE FlipEvaluating(k)
  <2>1. CASE BeginFails(k) /\ ~Exists(repo) /\ UNCHANGED <<repo, snap, fires>>
    <3>1. run[k].pc \in BeginPCs /\ UNCHANGED <<repo, snap, session, fires, finalized>>
      BY <1>4, <2>1 DEF FlipEvaluating, BeginPCs
    <3>. QED BY <1>2, <2>1, <3>1 DEF Amounts
  <2>2. CASE ~(BeginFails(k) /\ ~Exists(repo) /\ UNCHANGED <<repo, snap, fires>>)
    <3>1. Starts(k, At(k, "evaluate"))
      BY <1>1, <1>4, <2>2 DEF FlipEvaluating, Starts, PersistCan, PersistMayFail
    <3>. QED BY <3>1 DEF Amounts
  <2>. QED BY <2>1, <2>2
<1>. QED BY <1>3, <1>4

LEMMA AttemptAmounts ==
  ASSUME OwnInv, ~IoFails, NEW k \in Runs,
         \/ EvaluatorAborts(k) \/ EvaluatorFails(k) \/ EvaluationBreaks(k)
         \/ EvaluatorConcludes(k, "stop") \/ EvaluatorConcludes(k, "continue")
         \/ EvaluatorGuides(k) \/ RetryElapses(k) \/ FlipRetry(k) \/ FlipInjecting(k)
  PROVE  \E e : Tries(k, e)
<1>1. /\ Typed /\ run[k] \in Run /\ repo \in Entry /\ snap \in Entry
      /\ run[k].pc \in AttemptPCs
      /\ \A p \in CyclePCs : At(k, p).pc = p
  BY RunMoves DEF OwnInv, Typed, Control, Data, EvaluatorAborts, EvaluatorFails,
      EvaluationBreaks, EvaluatorConcludes, EvaluatorGuides, RetryElapses, FlipRetry,
      FlipInjecting, AttemptPCs
<1>2. Exists(repo) /\ Exists(snap)
  BY <1>1, PcSets DEF OwnInv, CycleOwnsSupervisor, BeginPCs, AttemptPCs
<1>3. \/ UNCHANGED <<repo, snap>>
      \/ (\E st \in Active : repo' = [repo EXCEPT !.state = st]) /\ snap' = repo'
  BY DEF Active, EvaluatorAborts, EvaluatorFails, EvaluationBreaks, EvaluatorConcludes,
      EvaluatorGuides, RetryElapses, FlipRetry, FlipInjecting
<1>4. /\ UNCHANGED <<fires, finalized>>
      /\ session' = session \/ (session' = "running" /\ session # "removed")
  <2>1. CASE FlipInjecting(k)
    BY <2>1 DEF FlipInjecting, Inject, Injectable
  <2>2. CASE ~FlipInjecting(k)
    BY <2>2 DEF EvaluatorAborts, EvaluatorFails, EvaluationBreaks, EvaluatorConcludes,
        EvaluatorGuides, RetryElapses, FlipRetry
  <2>. QED BY <2>1, <2>2
<1>5. Exists(repo') /\ Exists(snap')
  BY <1>1, <1>2, <1>3 DEF Exists, Entry, Active
<1>. DEFINE Fits(e) ==
       \/ e.pc \in AttemptPCs \cup {"flipFailed"}
       \/ ~aborted /\ e.pc = "saveOutcome"
       \/ pendingDelete /\ e.pc = "abortRecord"
       \/ /\ ~pendingDelete /\ e.pc = "flipAborted"
          /\ e.rec.state \in {"paused", "idle"} /\ (pendingPause => e.rec.state = "paused")
     Moves == \E e : Suspend(k, e) /\ Fits(e)
<1>6. \A p \in AttemptPCs \cup {"flipFailed"} : Suspend(k, At(k, p)) => Moves
  BY <1>1, PcSets
<1>7. ASSUME NEW s, NEW r, Exists(s), Exists(r)
      PROVE  /\ EnterFailure(k, s, r) => Moves
             /\ EnterAbort(k, s, r) => Moves
  <2>1. EnterFailure(k, s, r) => Moves
    BY <1>6, <1>7 DEF EnterFailure
  <2>2. Suspend(k, At(k, "abortRecord")) /\ pendingDelete => Moves
    BY <1>1, PcSets
  <2>3. ASSUME Suspend(k, [run[k] EXCEPT !.pc = "flipAborted", !.rec.state = AbortState(s)]),
               ~pendingDelete
        PROVE  Moves
    <3>1. PICK e : e = [run[k] EXCEPT !.pc = "flipAborted", !.rec.state = AbortState(s)]
      OBVIOUS
    <3>2. e.pc = "flipAborted" /\ e.rec.state = AbortState(s)
      BY <1>1, <3>1 DEF Run, Entry
    <3>3. AbortState(s) \in {"paused", "idle"} /\ (pendingPause => AbortState(s) = "paused")
      BY DEF AbortState
    <3>. QED BY <2>3, <3>1, <3>2, <3>3
  <2>4. EnterAbort(k, s, r) => Moves
    BY <1>7, <2>2, <2>3 DEF EnterAbort
  <2>. QED BY <2>1, <2>4
<1>8. ASSUME NEW r, Suspend(k, r), \/ ~aborted /\ r.pc = "saveOutcome"
                                   \/ r.pc \in AttemptPCs
      PROVE  Moves
  BY <1>8
<1>9. /\ \A v : [run[k] EXCEPT !.pc = "saveOutcome", !.verdict = v].pc = "saveOutcome"
      /\ [run[k] EXCEPT !.pc = "evaluate", !.attempt = @ + 1].pc = "evaluate"
      /\ {"retryWait", "flipRetry", "flipInjecting", "evaluate"} \subseteq AttemptPCs
  BY <1>1 DEF Run, AttemptPCs
<1>. HIDE DEF Moves
<1>10. ASSUME EvaluatorAborts(k) \/ EvaluationBreaks(k)
       PROVE  Moves
  BY <1>10, <1>2, <1>7 DEF EvaluatorAborts, EvaluationBreaks
<1>11. ASSUME EvaluatorFails(k) \/ RetryElapses(k)
       PROVE  Moves
  BY <1>11, <1>2, <1>6, <1>7, <1>9 DEF EvaluatorFails, RetryElapses
<1>12. ASSUME EvaluatorConcludes(k, "stop") \/ EvaluatorConcludes(k, "continue")
       PROVE  Moves
  <2>1. PICK v : Suspend(k, [run[k] EXCEPT !.pc = "saveOutcome", !.verdict = v]) /\ ~aborted
    BY <1>12 DEF EvaluatorConcludes
  <2>. QED BY <2>1, <1>8, <1>9
<1>13. ASSUME EvaluatorGuides(k)
       PROVE  Moves
  BY <1>13, <1>2, <1>6, <1>7, <1>9 DEF EvaluatorGuides
<1>14. ASSUME FlipRetry(k)
       PROVE  Moves
  <2>1. \/ Suspend(k, [run[k] EXCEPT !.pc = "evaluate", !.attempt = @ + 1])
        \/ EnterFailure(k, snap, repo)
    BY <1>14 DEF FlipRetry
  <2>. QED BY <2>1, <1>2, <1>7, <1>8, <1>9
<1>15. ASSUME FlipInjecting(k)
       PROVE  Moves
  <2>1. \/ EnterFailure(k, snap, repo) \/ EnterFailure(k, snap', repo') \/ EnterAbort(k, snap', repo')
        \/ /\ ~aborted
           /\ Suspend(k, [run[k] EXCEPT !.pc = "saveOutcome", !.verdict = "continue"])
    BY <1>15 DEF FlipInjecting, Inject
  <2>. QED BY <2>1, <1>2, <1>5, <1>7, <1>8, <1>9
<1>16. Moves
  BY <1>10, <1>11, <1>12, <1>13, <1>14, <1>15
<1>. QED BY <1>1, <1>2, <1>3, <1>4, <1>16 DEF Moves, Tries

LEMMA OutcomeAmounts ==
  ASSUME OwnInv, ~IoFails, NEW k \in Runs,
         \/ SaveOutcome(k) \/ FlipFinal(k) \/ AttachFinal(k) \/ AbortRecord(k)
         \/ FlipAborted(k) \/ FlipFailed(k) \/ AttachFailed(k)
  PROVE  \E e : Amounts(k, e)
<1>1. /\ run[k] \in Run /\ repo \in Entry /\ snap \in Entry
      /\ run[k].pc \in {"saveOutcome", "flipFinal", "attachFinal", "abortRecord",
                        "flipAborted", "flipFailed", "attachFailed"}
  BY DEF OwnInv, Typed, Control, Data, SaveOutcome, FlipFinal, AttachFinal, AbortRecord,
      FlipAborted, FlipFailed, AttachFailed
<1>2. Exists(repo) /\ Exists(snap)
  BY <1>1, LatePCs DEF OwnInv, CycleOwnsSupervisor, Late
<1>3. CASE SaveOutcome(k)
  <2>1. PICK e : e = [run[k] EXCEPT !.pc = "flipFinal", !.rec = FinalEntry(k)]
    OBVIOUS
  <2>2. e.pc = "flipFinal" /\ e.rec = FinalEntry(k)
    BY <1>1, <2>1 DEF Run
  <2>3. Saves(k, e)
    BY <1>2, <1>3, <2>1, <2>2 DEF SaveOutcome, Saves
  <2>. QED BY <2>3 DEF Amounts
<1>4. CASE FlipFinal(k)
  <2>1. PICK e : e = [run[k] EXCEPT !.pc = "attachFinal", !.rec = repo']
    OBVIOUS
  <2>2. e.pc = "attachFinal" /\ e.rec = repo'
    BY <1>1, <2>1 DEF Run
  <2>3. Finals(k, e)
    BY <1>2, <1>4, <2>1, <2>2 DEF FlipFinal, Finals, PersistCan, PersistMayFail
  <2>. QED BY <2>3 DEF Amounts
<1>5. CASE FlipFailed(k)
  <2>1. PICK e : e = [run[k] EXCEPT !.pc = "attachFailed", !.rec = repo']
    OBVIOUS
  <2>2. e.pc = "attachFailed" /\ e.rec = repo'
    BY <1>1, <2>1 DEF Run
  <2>3. Errs(k, e)
    BY <1>2, <1>5, <2>1, <2>2 DEF FlipFailed, Errs, PersistCan, PersistMayFail, history, bounds
  <2>. QED BY <2>3 DEF Amounts
<1>6. CASE AttachFinal(k) \/ AttachFailed(k)
  <2>1. Attaches(k) \/ Deletes(k)
    BY <1>6 DEF AttachFinal, AttachFailed, DeleteIfPending, Attaches, Deletes
  <2>. QED BY <2>1 DEF Amounts
<1>7. CASE AbortRecord(k)
  <2>1. Deletes(k)
    BY <1>7 DEF AbortRecord, Deletes
  <2>. QED BY <2>1 DEF Amounts
<1>8. CASE FlipAborted(k)
  <2>1. Restates(k)
    BY <1>2, <1>8 DEF FlipAborted, Restates, PersistCan, PersistMayFail
  <2>. QED BY <2>1 DEF Amounts
<1>. QED BY <1>3, <1>4, <1>5, <1>6, <1>7, <1>8

LEMMA TailAmounts ==
  ASSUME OwnInv, ~IoFails, NEW k \in Runs, FlipStopped(k) \/ MarkError(k) \/ AttachError(k)
  PROVE  \E e : Amounts(k, e)
<1>1. run[k] \in Run
  BY DEF OwnInv, Typed, Control
<1>2. CASE FlipStopped(k)
  <2>1. Trails(k)
    BY <1>2 DEF FlipStopped, Trails, PersistCan, PersistMayFail
  <2>. QED BY <2>1 DEF Amounts
<1>3. CASE AttachError(k)
  <2>1. Trails(k)
    BY <1>3 DEF AttachError, Trails
  <2>. QED BY <2>1 DEF Amounts
<1>4. CASE MarkError(k) /\ ~Exists(repo)
  <2>1. Trails(k)
    BY <1>4 DEF MarkError, Trails, PersistCan
  <2>. QED BY <2>1 DEF Amounts
<1>5. CASE MarkError(k) /\ Exists(repo)
  <2>1. PICK e : e = [run[k] EXCEPT !.pc = "attachError", !.rec = repo']
    OBVIOUS
  <2>2. e.pc = "attachError" /\ e.rec = repo'
    BY <1>1, <2>1 DEF Run
  <2>3. Errs(k, e)
    BY <1>5, <2>1, <2>2 DEF MarkError, Errs, PersistMayFail
  <2>. QED BY <2>3 DEF Amounts
<1>. QED BY <1>2, <1>3, <1>4, <1>5

\* Every step of an evaluation is one of these, and asks for nothing.
LEMMA RunAmounts ==
  ASSUME OwnInv, ~IoFails, NEW k \in Runs, RunStep(k)
  PROVE  (\E e : Amounts(k, e)) /\ UNCHANGED <<intent, deleteAsked>>
<1>1. \E e : Amounts(k, e)
  BY BeginAmounts, AttemptAmounts, OutcomeAmounts, TailAmounts DEF RunStep, Amounts
<1>2. UNCHANGED <<intent, deleteAsked>>
  BY DEF RunStep, BuildContext, FlipEvaluating, FlipStopped, MarkError, AttachError,
      EvaluatorAborts, EvaluatorFails, EvaluationBreaks, EvaluatorConcludes,
      EvaluatorGuides, RetryElapses, FlipRetry, FlipInjecting, SaveOutcome, FlipFinal,
      AttachFinal, AbortRecord, FlipAborted, FlipFailed, AttachFailed
<1>. QED BY <1>1, <1>2

----------------------------------------------------------------------------
(* A delete that came in time.                                             *)

\* Nothing that a restore captured is stored again.
Unrestored == \A c \in Calls : call[c].pc \notin {"clone", "persistRestore", "finishRestore"}

\* The evaluation an effect is about, and what it leaves of the others.
LEMMA Replaced ==
  ASSUME OwnInv, NEW k \in Runs, NEW e, run' = [run EXCEPT ![k] = e]
  PROVE  run'[k] = e /\ \A j \in Runs : j # k => run'[j] = run[j]
  BY DEF OwnInv, Typed, Control

LEMMA InFlightOwns ==
  ASSUME OwnInv, NEW k \in Runs, run[k].pc \in CyclePCs
  PROVE  /\ inFlight /\ \A j \in Runs : run[j].pc \in CyclePCs => j = k
         /\ run[k].pc \notin BeginPCs => Exists(repo) /\ Exists(snap)
  BY DEF OwnInv, Typed, Flight, OneCycle, CycleOwnsSupervisor

LEMMA PcNames ==
  /\ BeginPCs = {"context", "flipEvaluating"}
  /\ AttemptPCs = {"evaluate", "retryWait", "flipRetry", "flipInjecting"}
  /\ OutcomePCs = {"saveOutcome", "flipFinal", "attachFinal"}
  /\ CyclePCs = {"context", "flipEvaluating", "evaluate", "retryWait", "flipRetry",
                 "flipInjecting", "saveOutcome", "flipFinal", "attachFinal", "abortRecord",
                 "flipAborted", "flipFailed", "attachFailed"}
  /\ TailPCs = {"flipStopped", "markError", "attachError"}
  BY DEF BeginPCs, AttemptPCs, OutcomePCs, CancelPCs, FailPCs, CyclePCs, TailPCs

LEMMA NothingExists == ~Exists(NoEntry) /\ NoRun.pc = "off" /\ NoEntry.state = "gone"
  BY DEF Exists, NoEntry, NoRun

\* One evaluation moves; none that moves into the marking of an error holds inFlight.
LEMMA OneMarked ==
  ASSUME OwnInv, Marked, NEW k \in Runs, NEW r, run' = [run EXCEPT ![k] = r],
         r.pc \in {"markError", "attachError"} => session' = "removed" /\ inFlight' = FALSE,
         session = "removed" => session' = "removed",
         ~inFlight => ~inFlight'
  PROVE  Marked'
  BY Replaced DEF Marked

LEMMA RunMarked ==
  ASSUME OwnInv, Marked, NEW k \in Runs, NEW e, Amounts(k, e)
  PROVE  Marked'
<1>1. CASE Prepares(k, e) \/ Starts(k, e) \/ Tries(k, e) \/ Saves(k, e) \/ Finals(k, e)
  <2>1. /\ run' = [run EXCEPT ![k] = e] /\ UNCHANGED inFlight
        /\ e.pc \notin {"markError", "attachError"}
        /\ session = "removed" => session' = "removed"
    BY <1>1, PcNames DEF Prepares, Starts, Tries, Saves, Finals, Suspend
  <2>. QED BY OneMarked, <2>1
<1>2. CASE Stumbles(k, e)
  <2>1. /\ run' = [run EXCEPT ![k] = e] /\ inFlight' = FALSE /\ UNCHANGED session
        /\ e.pc = "markError" => session = "removed"
        /\ e.pc # "attachError"
    BY <1>2 DEF Stumbles, ReleaseInFlight
  <2>. QED BY OneMarked, <2>1
<1>3. CASE Errs(k, e)
  <2>1. /\ run' = [run EXCEPT ![k] = e] /\ UNCHANGED <<inFlight, session>>
        /\ e.pc \in {"markError", "attachError"} => run[k].pc = "markError"
    BY <1>3 DEF Errs, Suspend
  <2>2. e.pc \in {"markError", "attachError"} => session = "removed" /\ ~inFlight
    BY <2>1 DEF Marked
  <2>. QED BY OneMarked, <2>1, <2>2 DEF OwnInv, Typed, Control
<1>4. CASE Attaches(k) \/ Deletes(k) \/ Restates(k) \/ Trails(k)
  <2>1. /\ run' = [run EXCEPT ![k] = NoRun] /\ UNCHANGED session
        /\ ~inFlight => ~inFlight'
    BY <1>4 DEF Attaches, Deletes, Restates, Trails, Finally, DeleteNow, ReleaseInFlight, Suspend
  <2>. QED BY OneMarked, <2>1, NothingExists
<1>. QED BY <1>1, <1>2, <1>3, <1>4 DEF Amounts

LEMMA RunDeleting ==
  ASSUME OwnInv, Deleting, NEW k \in Runs, NEW e, Amounts(k, e), UNCHANGED deleteAsked
  PROVE  Deleting'
<1>. SUFFICES ASSUME deleteAsked = "final" PROVE Deleting'
  BY DEF Deleting
<1>1. /\ (~Exists(repo) /\ ~Exists(snap)) \/ (inFlight /\ pendingDelete)
      /\ \A j \in Runs : run[j].pc \notin Unheard
  BY DEF Deleting
<1>2. ~Prepares(k, e) /\ ~Starts(k, e) /\ ~Stumbles(k, e) /\ ~Restates(k)
  BY <1>1, PcNames DEF Prepares, Starts, Stumbles, Restates, Unheard
<1>8. CASE Trails(k)
  <2>1. run[k].pc = "flipStopped" /\ Suspend(k, NoRun)
    BY <1>1, <1>8 DEF Trails, Unheard
  <2>2. \A j \in Runs : run'[j].pc \notin Unheard
    BY <1>1, <2>1, Replaced, NothingExists, PcNames DEF Suspend, Unheard
  <2>3. ~Exists(repo) /\ ~Exists(snap) => UNCHANGED <<repo, snap>>
    BY <1>8, <2>1 DEF Trails
  <2>. QED BY <1>1, <2>1, <2>2, <2>3 DEF Suspend, Deleting, Exists
<1>. SUFFICES ASSUME ~Trails(k) PROVE Deleting'
  BY <1>8
<1>3. run[k].pc \in CyclePCs /\ run[k].pc \notin BeginPCs
  BY <1>1, <1>2, PcNames DEF Amounts, Tries, Saves, Finals, Errs, Attaches, Deletes, Unheard
<1>4. inFlight /\ pendingDelete
  BY <1>1, <1>3, InFlightOwns
<1>5. CASE Tries(k, e) \/ Saves(k, e) \/ Finals(k, e) \/ Errs(k, e)
  <2>1. /\ Suspend(k, e)
        /\ e.pc \notin Unheard
    BY <1>1, <1>4, <1>5, PcNames DEF Tries, Saves, Finals, Errs, Unheard
  <2>2. \A j \in Runs : run'[j].pc \notin Unheard
    BY <1>1, <2>1, Replaced DEF Suspend
  <2>. QED BY <1>4, <2>1, <2>2 DEF Suspend, Deleting
<1>6. CASE Deletes(k)
  <2>1. \A j \in Runs : run'[j].pc \notin Unheard
    BY <1>1, <1>6, Replaced, NothingExists, PcNames DEF Deletes, Unheard
  <2>2. ~Exists(repo') /\ ~Exists(snap')
    BY <1>6, NothingExists DEF Deletes, DeleteNow
  <2>. QED BY <2>1, <2>2 DEF Deleting, Exists
<1>7. ~Attaches(k)
  BY <1>4 DEF Attaches
<1>. QED BY <1>2, <1>5, <1>6, <1>7 DEF Amounts

LEMMA RunDelaying ==
  ASSUME OwnInv, Marked, Delaying, NEW k \in Runs, NEW e, Amounts(k, e), UNCHANGED deleteAsked
  PROVE  Delaying'
<1>. SUFFICES ASSUME deleteAsked \in {"preparing", "aborting"} PROVE Delaying'
  BY DEF Delaying
<1>1. CASE Deletes(k)
  <2>1. \A j \in Runs : run[j].pc # "attachError"
    BY <1>1, InFlightOwns, PcNames DEF Deletes, Marked
  <2>2. \A j \in Runs : run'[j].pc # "attachError"
    BY <1>1, <2>1, Replaced, NothingExists DEF Deletes
  <2>3. ~Exists(repo') /\ ~Exists(snap')
    BY <1>1, NothingExists DEF Deletes, DeleteNow
  <2>. QED BY <2>2, <2>3 DEF Delaying, Exists
<1>2. CASE pendingDelete /\ ~Deletes(k)
  <2>1. UNCHANGED pendingDelete
    BY <1>2 DEF Amounts, Prepares, Starts, Stumbles, Tries, Saves, Finals, Errs, Attaches,
        Restates, Trails, Suspend, Finally
  <2>. QED BY <1>2, <2>1 DEF Delaying
<1>3. CASE ~pendingDelete /\ ~Deletes(k)
  <2>1. /\ ~Exists(repo) /\ ~Exists(snap)
        /\ \A j \in Runs : run[j].pc # "attachError"
    BY <1>3 DEF Delaying
  <2>2. ~Attaches(k)
    BY <2>1, InFlightOwns, PcNames DEF Attaches
  <2>3. Prepares(k, e) \/ Stumbles(k, e) \/ Trails(k)
    BY <1>3, <2>1, <2>2 DEF Amounts, Starts, Tries, Saves, Finals, Errs, Restates
  <2>4. UNCHANGED <<repo, snap>>
    BY <2>1, <2>3 DEF Prepares, Stumbles, Trails
  <2>5. PICK r : run' = [run EXCEPT ![k] = r] /\ r.pc # "attachError"
    BY <2>1, <2>3, NothingExists DEF Prepares, Stumbles, Trails, Suspend
  <2>6. \A j \in Runs : run'[j].pc # "attachError"
    BY <2>1, <2>5, Replaced
  <2>. QED BY <2>1, <2>4, <2>6 DEF Delaying, Exists
<1>. QED BY <1>1, <1>2, <1>3

DeleteInv == Marked /\ Deleting /\ Delaying

LEMMA TriggerDeleting ==
  ASSUME OwnInv, DeleteInv, NEW k \in Runs, NEW t, Trigger(k, t), session' # "removed"
  PROVE  DeleteInv'
<1>1. /\ Exists(snap) /\ ~inFlight /\ session # "removed"
      /\ UNCHANGED <<deleteAsked, pendingDelete>>
  BY DEF Trigger, CanTrigger, Accepts
<1>2. deleteAsked # "final"
  BY <1>1 DEF DeleteInv, Deleting
<1>3. deleteAsked \in {"preparing", "aborting"} => pendingDelete
  BY <1>1 DEF DeleteInv, Delaying
<1>4. PICK r : run' = [run EXCEPT ![k] = r] /\ r.pc \in {"flipStopped", "context"}
  <2>1. At(k, "flipStopped").pc = "flipStopped"
    BY RunMoves, PcSets DEF OwnInv, Typed
  <2>2. [NoRun EXCEPT !.pc = "context", !.trigger = t, !.rec = snap].pc = "context"
    BY DEF NoRun
  <2>. QED BY <2>1, <2>2 DEF Trigger
<1>5. \A j \in Runs : run'[j].pc \notin {"markError", "attachError"}
  BY <1>1, <1>4, Replaced DEF DeleteInv, Marked
<1>. QED BY <1>1, <1>2, <1>3, <1>5 DEF DeleteInv, Marked, Deleting, Delaying

\* What the request to delete leaves, whoever makes it.
LEMMA DeleteRequested ==
  ASSUME OwnInv, deleteAsked' = DeleteMoment, UNCHANGED run,
         (inFlight /\ AskDelete) \/ (~inFlight /\ DeleteNow)
  PROVE  Deleting' /\ Delaying'
<1>1. (inFlight' /\ pendingDelete') \/ (~Exists(repo') /\ ~Exists(snap'))
  BY NothingExists DEF AskDelete, DeleteNow, Cancel
<1>2. deleteAsked' = "final" => \A j \in Runs : run[j].pc \notin Unheard
  BY DEF DeleteMoment, Unheard
<1>3. deleteAsked' \in {"preparing", "aborting"} => pendingDelete'
  <2>1. deleteAsked' \in {"preparing", "aborting"} => \E k \in Runs : run[k].pc \in CyclePCs
    BY PcNames DEF DeleteMoment
  <2>. QED BY <2>1, InFlightOwns DEF AskDelete
<1>. QED BY <1>1, <1>2, <1>3 DEF Deleting, Delaying, Exists

\* What any other call, or the session, leaves.
LEMMA DeleteIgnored ==
  ASSUME DeleteInv, UNCHANGED <<pendingDelete, run, inFlight, deleteAsked>>,
         session = "removed" => session' = "removed",
         ~Exists(repo) /\ ~Exists(snap) => UNCHANGED <<repo, snap>>
  PROVE  DeleteInv'
<1>1. Marked'
  BY DEF DeleteInv, Marked
<1>2. Deleting'
  BY DEF DeleteInv, Deleting, Exists
<1>3. Delaying'
  BY DEF DeleteInv, Delaying, Exists
<1>. QED BY <1>1, <1>2, <1>3 DEF DeleteInv

\* A call that does not restore, and is not a delete, leaves the deletion alone.
LEMMA CallDeleting ==
  ASSUME OwnInv, Unrestored, DeleteInv, "restore" \notin Ops, NEW c \in Calls,
         CallBegins(c) \/ CallStep(c)
  PROVE  DeleteInv'
<1>1. ~Restore(c) /\ ~CloneTarget(c) /\ ~PersistRestore(c) /\ ~FinishRestore(c)
  BY DEF Restore, CanCall, CloneTarget, PersistRestore, FinishRestore, Unrestored
<1>2. CASE Delete(c)
  <2>1. /\ UNCHANGED <<run, session>> /\ deleteAsked' = DeleteMoment
        /\ (inFlight /\ AskDelete) \/ (~inFlight /\ DeleteNow)
    BY <1>2 DEF Delete
  <2>2. ~inFlight => ~inFlight'
    BY <2>1 DEF AskDelete, DeleteNow, ReleaseInFlight
  <2>3. Marked'
    BY <2>1, <2>2 DEF DeleteInv, Marked
  <2>. QED BY <2>1, <2>3, DeleteRequested DEF DeleteInv
<1>3. CASE ~Delete(c)
  <2>1. UNCHANGED <<inFlight, pendingDelete, run, deleteAsked, session>>
    BY <1>1, <1>3 DEF CallBegins, CallStep, Pause, Cancel, Resume, UpdateObjective, Edit, Update,
        PersistState, UpdateWoken, ResetTarget, PersistUpdate, Rollback, AttachUpdate
  <2>2. ~Exists(repo) /\ ~Exists(snap) => UNCHANGED <<repo, snap>>
    BY <1>1, <1>3 DEF CallBegins, CallStep, Pause, Resume, UpdateObjective, Edit, Update,
        PersistState, UpdateWoken, ResetTarget, PersistUpdate, Rollback, AttachUpdate, PersistCan
  <2>. QED BY <2>1, <2>2, DeleteIgnored
<1>. QED BY <1>2, <1>3

LEMMA EnvironmentDeleting ==
  ASSUME OwnInv, DeleteInv, SessionRemoved \/ SessionMoves \/ Tick \/ UNCHANGED vars
  PROVE  DeleteInv'
<1>1. CASE SessionRemoved /\ Exists(snap)
  <2>1. /\ UNCHANGED run /\ session' = "removed" /\ deleteAsked' = DeleteMoment
        /\ (inFlight /\ AskDelete) \/ (~inFlight /\ DeleteNow)
    BY <1>1 DEF SessionRemoved
  <2>2. ~inFlight => ~inFlight'
    BY <2>1 DEF AskDelete, DeleteNow, ReleaseInFlight
  <2>3. Marked'
    BY <2>1, <2>2 DEF DeleteInv, Marked
  <2>. QED BY <2>1, <2>3, DeleteRequested DEF DeleteInv
<1>2. CASE ~(SessionRemoved /\ Exists(snap))
  <2>1. /\ UNCHANGED <<repo, snap, inFlight, pendingDelete, run, deleteAsked>>
        /\ session = "removed" => session' = "removed"
    BY <1>2 DEF SessionRemoved, SessionMoves, Tick, vars
  <2>. QED BY <2>1, DeleteIgnored
<1>. QED BY <1>1, <1>2

LEMMA StepDeleting ==
  ASSUME ~IoFails, "restore" \notin Ops, OwnInv, Unrestored, DeleteInv, [Next]_vars
  PROVE  DeleteInv'
<1>1. ASSUME NEW k \in Runs, RunStep(k) PROVE DeleteInv'
  BY <1>1, RunAmounts, RunMarked, RunDeleting, RunDelaying DEF DeleteInv
<1>2. ASSUME TurnCompletes PROVE DeleteInv'
  <2>1. session' # "removed" /\ session # "removed"
    BY <1>2 DEF TurnCompletes
  <2>2. \/ \E k \in Runs : Trigger(k, "turn_completed")
        \/ UNCHANGED <<repo, snap, inFlight, pendingDelete, run, deleteAsked>>
    BY <1>2 DEF TurnCompletes
  <2>3. CASE UNCHANGED <<repo, snap, inFlight, pendingDelete, run, deleteAsked>>
    BY <2>1, <2>3, DeleteIgnored
  <2>. QED BY <2>1, <2>2, <2>3, TriggerDeleting
<1>3. ASSUME NEW k \in Runs, ManualTrigger(k) \/ ScheduledDue(k) PROVE DeleteInv'
  <2>1. PICK t \in AllTriggers : Trigger(k, t) /\ UNCHANGED session
    BY <1>3 DEF ManualTrigger, ScheduledDue, AllTriggers
  <2>2. session' # "removed"
    BY <2>1 DEF Trigger, CanTrigger, Accepts
  <2>. QED BY <2>1, <2>2, TriggerDeleting
<1>. QED BY <1>1, <1>2, <1>3, CallDeleting, EnvironmentDeleting DEF Next

\* An evaluation touches the calls only as it releases inFlight.
LEMMA RunReleases ==
  ASSUME NEW k \in Runs, RunStep(k)
  PROVE  call' = call \/ ReleaseInFlight
<1>1. /\ \A r : Suspend(k, r) => call' = call
      /\ Finally(k) => ReleaseInFlight
      /\ BeginFails(k) => ReleaseInFlight
      /\ DeleteNow => ReleaseInFlight
      /\ \A e : DeleteIfPending(k, e) => ReleaseInFlight
  BY DEF Suspend, Finally, BeginFails, DeleteNow, DeleteIfPending
<1>2. \A s, r : /\ EnterFailure(k, s, r) => call' = call \/ ReleaseInFlight
                /\ EnterAbort(k, s, r) => call' = call \/ ReleaseInFlight
  BY <1>1 DEF EnterFailure, EnterAbort
<1>3. CASE \/ BuildContext(k) \/ FlipEvaluating(k) \/ FlipStopped(k) \/ MarkError(k)
           \/ AttachError(k) \/ EvaluatorAborts(k) \/ EvaluatorFails(k) \/ EvaluationBreaks(k)
           \/ EvaluatorConcludes(k, "stop") \/ EvaluatorConcludes(k, "continue")
           \/ EvaluatorGuides(k) \/ RetryElapses(k)
  BY <1>1, <1>2, <1>3 DEF BuildContext, FlipEvaluating, FlipStopped, MarkError, AttachError,
      EvaluatorAborts, EvaluatorFails, EvaluationBreaks, EvaluatorConcludes, EvaluatorGuides,
      RetryElapses
<1>4. CASE \/ FlipRetry(k) \/ FlipInjecting(k) \/ SaveOutcome(k) \/ FlipFinal(k)
           \/ AttachFinal(k) \/ AbortRecord(k) \/ FlipAborted(k) \/ FlipFailed(k)
           \/ AttachFailed(k)
  BY <1>1, <1>2, <1>4 DEF FlipRetry, FlipInjecting, Inject, SaveOutcome, FlipFinal,
      AttachFinal, AbortRecord, FlipAborted, FlipFailed, AttachFailed
<1>. QED BY <1>3, <1>4 DEF RunStep

\* Calls are replaced one by one, or woken and let go by a release.
LEMMA StepUnrestored ==
  ASSUME "restore" \notin Ops, OwnInv, Unrestored, [Next]_vars
  PROVE  Unrestored'
<1>1. \A c \in Calls : call[c] \in Call
  BY DEF OwnInv, Typed, Control
<1>2. CASE call' = call \/ ReleaseInFlight
  <2>1. ASSUME NEW c \in Calls PROVE call'[c] = call[c] \/ call'[c].pc \in {"off", "woken"}
    BY <1>1, <1>2, Neutral DEF ReleaseInFlight, Resolved, Call
  <2>. QED BY <2>1 DEF Unrestored
<1>3. ASSUME NEW c \in Calls, NEW r, call' = [call EXCEPT ![c] = r],
             r.pc \notin {"clone", "persistRestore", "finishRestore"}
      PROVE  Unrestored'
  BY <1>1, <1>3 DEF Unrestored, OwnInv, Typed, Control
<1>4. ASSUME NEW k \in Runs, RunStep(k) PROVE call' = call \/ ReleaseInFlight
  BY <1>4, RunReleases
<1>5. ASSUME NEW k \in Runs, NEW t, Trigger(k, t) PROVE call' = call
  BY <1>5 DEF Trigger
<1>6. ASSUME NEW c \in Calls, CallBegins(c) \/ CallStep(c) PROVE Unrestored'
  <2>1. ~Restore(c) /\ ~CloneTarget(c) /\ ~PersistRestore(c) /\ ~FinishRestore(c)
    BY DEF Restore, CanCall, CloneTarget, PersistRestore, FinishRestore, Unrestored
  <2>2. ASSUME NEW op, NEW pc, NEW arg, NEW rec, NEW cur, Begin(c, op, pc, arg, rec, cur),
               pc \notin {"clone", "persistRestore", "finishRestore"}
        PROVE  Unrestored'
    BY <2>2, <1>3 DEF Begin
  <2>3. Return(c) => Unrestored'
    BY <1>3 DEF Return, NoCall
  <2>4. ASSUME NEW pc, call' = CallAt(c, pc), pc \in {"persistUpdate", "rollback", "attachUpdate"}
        PROVE  Unrestored'
    BY <1>1, <1>3, <2>4 DEF CallAt, Call
  <2>5. ASSUME NEW op, NEW arg, StartUpdate(c, op, arg) PROVE Unrestored'
    BY <2>2, <2>3, <2>5 DEF StartUpdate
  <2>6. CASE Pause(c) \/ Resume(c) \/ Delete(c)
    BY <1>2, <2>2, <2>6 DEF Pause, Resume, Delete, AskDelete, DeleteNow
  <2>7. CASE UpdateObjective(c) \/ Edit(c)
    BY <2>2, <2>5, <2>7 DEF UpdateObjective, Edit, Update
  <2>8. CASE CallStep(c)
    BY <2>1, <2>3, <2>4, <2>5, <2>8 DEF CallStep, PersistState, UpdateWoken, ResetTarget,
        PersistUpdate, Rollback, AttachUpdate, EnterRollback
  <2>. QED BY <1>6, <2>1, <2>6, <2>7, <2>8 DEF CallBegins
<1>7. CASE SessionRemoved \/ SessionMoves \/ Tick \/ UNCHANGED vars
  BY <1>2, <1>7 DEF SessionRemoved, SessionMoves, Tick, vars, AskDelete, DeleteNow
<1>8. ASSUME TurnCompletes PROVE Unrestored'
  BY <1>2, <1>5, <1>8 DEF TurnCompletes
<1>. QED BY <1>2, <1>4, <1>5, <1>6, <1>7, <1>8 DEF Next, ManualTrigger, ScheduledDue

\* A delete accepted during the attempts, while their outcome or failure is saved, or with no
\* cycle about, has removed the supervisor once all is quiet; one accepted in the two windows
\* that the cycle does not look back at is pending then, or done.  This holds whatever pauses,
\* updates and edits race with it.  Restores, which store what they captured, and failing files
\* are excluded.
THEOREM DeletesKept ==
  ~IoFails /\ "restore" \notin Ops => (Spec => []DeletesAreKept)
<1>. SUFFICES ASSUME ~IoFails, "restore" \notin Ops PROVE Spec => []DeletesAreKept
  OBVIOUS
<1>1. Init => OwnInv /\ Unrestored /\ DeleteInv
  <2>1. Init => Captured /\ CycleOwnsSupervisor
    BY Neutral, LatePCs DEF Init, Captured, Stores, NoCall, CycleOwnsSupervisor, Late
  <2>2. Init => Unrestored /\ Marked
    BY Neutral DEF Init, Unrestored, Marked
  <2>3. Init => Deleting /\ Delaying
    BY DEF Init, Deleting, Delaying
  <2>. QED BY <2>1, <2>2, <2>3, InitTyped DEF OwnInv, DeleteInv
<1>2. OwnInv /\ Unrestored /\ DeleteInv /\ [Next]_vars => (OwnInv /\ Unrestored /\ DeleteInv)'
  BY StepOwn, StepUnrestored, StepDeleting
<1>3. OwnInv /\ DeleteInv => DeletesAreKept
  <2>1. OwnInv /\ Quiet => ~inFlight
    BY OffIsNoCycle DEF OwnInv, Typed, Flight, OneCycle, Quiet
  <2>. QED BY <2>1 DEF DeleteInv, Deleting, Delaying, DeletesAreKept
<1>. QED BY <1>1, <1>2, <1>3, PTL DEF Spec

----------------------------------------------------------------------------
(* What calls and triggers amount to.                                      *)

LEMMA PlainCalls ==
  ASSUME Plain, Calling, NEW c \in Calls, CallBegins(c) \/ CallStep(c)
  PROVE  Pause(c) \/ Resume(c) \/ Delete(c) \/ PersistState(c)
<1>1. ~UpdateObjective(c) /\ ~Edit(c) /\ ~Restore(c)
  BY DEF Plain, UpdateObjective, Edit, Restore, CanCall
<1>2. call[c].pc \in {"off", "persist", "waitDelete"}
  BY DEF Calling
<1>3. CallStep(c) => PersistState(c)
  BY <1>2 DEF CallStep, UpdateWoken, ResetTarget, PersistUpdate, Rollback, AttachUpdate,
      CloneTarget, PersistRestore, FinishRestore
<1>. QED BY <1>1, <1>3 DEF CallBegins

\* A pause or resume is persisted, or finds nothing to persist.
Persists(c) ==
  /\ call[c].pc = "persist"
  /\ \/ /\ Exists(repo)
        /\ repo' = [repo EXCEPT !.state = call[c].rec.state] /\ snap' = repo'
     \/ ~Exists(repo) /\ UNCHANGED <<repo, snap>>
  /\ Return(c)
  /\ UNCHANGED <<lock, flags, run, session, intent, fires, finalized>>

LEMMA PersistPersists ==
  ASSUME ~IoFails, NEW c \in Calls, PersistState(c)
  PROVE  Persists(c)
  BY DEF PersistState, Persists, PersistCan, PersistMayFail

\* A cycle begins, or the supervisor will be stopped at the cap.
Accepted(k, e) ==
  /\ Exists(snap) /\ session # "removed" /\ ~inFlight /\ run[k].pc = "off"
  /\ run' = [run EXCEPT ![k] = e]
  /\ \/ CapReached /\ e.pc = "flipStopped" /\ UNCHANGED lock
     \/ /\ ~CapReached
        /\ snap.state \notin Active
        /\ e.pc = "context" /\ e.rec = snap /\ e.due = 0
        /\ inFlight' = TRUE /\ aborted' = FALSE
  /\ intent' = "none"
  /\ UNCHANGED <<repo, snap, flags, call, fires, finalized>>

LEMMA TriggerAccepted ==
  ASSUME OwnInv, Showing, NEW k \in Runs, NEW t, Trigger(k, t)
  PROVE  \E e : Accepted(k, e)
<1>1. Exists(snap) /\ session # "removed" /\ ~inFlight /\ run[k].pc = "off"
  BY DEF Trigger, CanTrigger, Accepts
<1>2. snap.state \notin Active
  BY <1>1 DEF Showing
<1>3. CASE CapReached
  <2>1. At(k, "flipStopped").pc = "flipStopped"
    BY RunMoves, PcSets DEF OwnInv, Typed
  <2>2. Accepted(k, At(k, "flipStopped"))
    BY <1>1, <1>3, <2>1 DEF Trigger, Accepted
  <2>. QED BY <2>2
<1>4. CASE ~CapReached
  <2>1. PICK e : e = [NoRun EXCEPT !.pc = "context", !.trigger = t, !.rec = snap]
    OBVIOUS
  <2>2. e.pc = "context" /\ e.rec = snap /\ e.due = 0
    BY <2>1 DEF NoRun
  <2>3. Accepted(k, e)
    BY <1>1, <1>2, <1>4, <2>1, <2>2 DEF Trigger, Accepted
  <2>. QED BY <2>3
<1>. QED BY <1>3, <1>4

\* The session ends, is removed or works, and time passes.
Drifts ==
  /\ UNCHANGED <<repo, snap, lock, flags, run, call, intent, fires, finalized>>
  /\ session' = "removed" <=> session = "removed"
Removes ==
  /\ session' = "removed"
  /\ \/ ~Exists(snap) /\ UNCHANGED <<repo, snap, lock, flags, call>>
     \/ inFlight /\ AskDelete /\ UNCHANGED call
     \/ ~inFlight /\ DeleteNow
  /\ UNCHANGED <<run, intent, fires, finalized>>

\* A step of the whole system while only pauses, resumes and deletes are called.
PlainStep ==
  \/ \E k \in Runs : (\E e : Amounts(k, e)) /\ UNCHANGED intent
  \/ \E k \in Runs : (\E e : Accepted(k, e)) /\ session' # "removed"
  \/ \E c \in Calls : Pause(c) \/ Resume(c) \/ Delete(c) \/ Persists(c)
  \/ Removes \/ Drifts

LEMMA StepPlain ==
  ASSUME Plain, OwnInv, Calling, Showing, [Next]_vars
  PROVE  PlainStep
<1>1. CASE \E k \in Runs : RunStep(k)
  BY <1>1, RunAmounts DEF Plain, PlainStep
<1>2. CASE \E k \in Runs : ManualTrigger(k) \/ ScheduledDue(k)
  <2>1. PICK k \in Runs, t \in AllTriggers : Trigger(k, t) /\ UNCHANGED session
    BY <1>2 DEF ManualTrigger, ScheduledDue, AllTriggers
  <2>2. (\E e : Accepted(k, e)) /\ session' # "removed"
    BY <2>1, TriggerAccepted DEF Accepted
  <2>. QED BY <2>2 DEF PlainStep
<1>3. CASE \E c \in Calls : CallBegins(c) \/ CallStep(c)
  BY <1>3, PlainCalls, PersistPersists DEF Plain, PlainStep
<1>4. CASE TurnCompletes
  <2>1. CASE \E k \in Runs : Trigger(k, "turn_completed")
    <3>1. PICK k \in Runs : Trigger(k, "turn_completed")
      BY <2>1
    <3>2. (\E e : Accepted(k, e)) /\ session' # "removed"
      BY <1>4, <3>1, TriggerAccepted DEF TurnCompletes
    <3>. QED BY <3>2 DEF PlainStep
  <2>2. CASE UNCHANGED <<repo, snap, lock, flags, run, call, clock, bounds, history>>
    <3>1. Drifts
      BY <1>4, <2>2 DEF TurnCompletes, Drifts
    <3>. QED BY <3>1 DEF PlainStep
  <2>. QED BY <1>4, <2>1, <2>2 DEF TurnCompletes
<1>5. CASE SessionRemoved
  <2>1. Removes
    BY <1>5 DEF SessionRemoved, Removes
  <2>. QED BY <2>1 DEF PlainStep
<1>6. CASE SessionMoves \/ Tick \/ UNCHANGED vars
  <2>1. Drifts
    BY <1>6 DEF SessionMoves, Tick, vars, Drifts
  <2>. QED BY <2>1 DEF PlainStep
<1>. QED BY <1>1, <1>2, <1>3, <1>4, <1>5, <1>6 DEF Next

----------------------------------------------------------------------------
(* Every step keeps the parts of the invariant.                            *)

\* An evaluation that ends is off; one that goes on keeps or passes its lock.
LEMMA AmountsReplace ==
  ASSUME OwnInv, NEW k \in Runs, NEW e, Amounts(k, e)
  PROVE  \/ /\ run' = [run EXCEPT ![k] = e]
            /\ \/ Prepares(k, e) \/ Starts(k, e) \/ Stumbles(k, e) \/ Tries(k, e)
               \/ Saves(k, e) \/ Finals(k, e) \/ Errs(k, e)
         \/ /\ run' = [run EXCEPT ![k] = NoRun]
            /\ Attaches(k) \/ Deletes(k) \/ Restates(k) \/ Trails(k)
  BY DEF Amounts, Prepares, Starts, Stumbles, Tries, Saves, Finals, Errs, Suspend,
      Attaches, Deletes, Restates, Trails, Finally

LEMMA AmountsLock ==
  ASSUME OwnInv, NEW k \in Runs, NEW e, Amounts(k, e)
  PROVE  \/ UNCHANGED <<lock, flags, call>>
         \/ inFlight' = FALSE /\ aborted' = FALSE /\ ReleaseInFlight
  BY DEF Amounts, Prepares, Starts, Stumbles, Tries, Saves, Finals, Errs, Suspend,
      Attaches, Deletes, Restates, Trails, Finally, DeleteNow, ReleaseInFlight

LEMMA CallFacts ==
  ASSUME OwnInv, NEW c \in Calls, NEW r, call' = [call EXCEPT ![c] = r]
  PROVE  call'[c] = r /\ \A d \in Calls : d # c => call'[d] = call[d]
  BY DEF OwnInv, Typed, Control

LEMMA StepCalling ==
  ASSUME OwnInv, Calling, PlainStep
  PROVE  Calling'
<1>1. CASE call' = call
  BY <1>1 DEF Calling
<1>2. CASE ReleaseInFlight
  <2>1. ASSUME NEW c \in Calls PROVE call'[c] = call[c] \/ call'[c] = NoCall
    BY <1>2 DEF ReleaseInFlight, Resolved, Calling
  <2>. QED BY <2>1, Neutral DEF Calling
<1>3. ASSUME NEW c \in Calls, NEW r, call' = [call EXCEPT ![c] = r],
             /\ r.pc \in {"off", "persist", "waitDelete"}
             /\ r.pc = "persist" => r.rec.state \in {"paused", "idle"}
      PROVE  Calling'
  BY <1>3, CallFacts DEF Calling
<1>4. ASSUME NEW c \in Calls, Pause(c) \/ Resume(c) PROVE Calling'
  <2>1. ASSUME NEW op, NEW st \in {"paused", "idle"},
               Begin(c, op, "persist", Keep, [NoEntry EXCEPT !.state = st], NoEntry)
        PROVE  Calling'
    <3>1. PICK r : r = [op |-> op, pc |-> "persist", arg |-> Keep,
                        rec |-> [NoEntry EXCEPT !.state = st], cur |-> NoEntry]
      OBVIOUS
    <3>2. r.pc = "persist" /\ r.rec.state = st
      BY <3>1 DEF NoEntry
    <3>. QED BY <1>3, <2>1, <3>1, <3>2 DEF Begin
  <2>. QED BY <1>1, <1>4, <2>1 DEF Pause, Resume
<1>5. ASSUME NEW c \in Calls, Delete(c) PROVE Calling'
  <2>1. CASE inFlight
    <3>1. PICK r : r = [op |-> "delete", pc |-> "waitDelete", arg |-> Keep,
                        rec |-> NoEntry, cur |-> NoEntry]
      OBVIOUS
    <3>. QED BY <1>3, <1>5, <2>1, <3>1 DEF Delete, Begin
  <2>2. CASE ~inFlight
    BY <1>2, <1>5, <2>2 DEF Delete, DeleteNow
  <2>. QED BY <2>1, <2>2
<1>6. ASSUME NEW c \in Calls, Persists(c) PROVE Calling'
  BY <1>3, <1>6, Neutral DEF Persists, Return
<1>7. ASSUME NEW k \in Runs, NEW e, Amounts(k, e) PROVE Calling'
  BY <1>1, <1>2, <1>7, AmountsLock
<1>8. CASE Removes \/ Drifts
  BY <1>1, <1>2, <1>8 DEF Removes, Drifts, DeleteNow
<1>9. ASSUME NEW k \in Runs, NEW e, Accepted(k, e) PROVE Calling'
  BY <1>1, <1>9 DEF Accepted
<1>. QED BY <1>4, <1>5, <1>6, <1>7, <1>8, <1>9 DEF PlainStep

LEMMA EntryFacts ==
  ASSUME NEW e \in Entry, NEW st
  PROVE  /\ [e EXCEPT !.state = st].state = st
         /\ [e EXCEPT !.state = st].count = e.count
         /\ [e EXCEPT !.state = st].sched = e.sched
         /\ \A t : [e EXCEPT !.sched = t].state = e.state /\ [e EXCEPT !.sched = t].count = e.count
                   /\ [e EXCEPT !.sched = t].sched = t
         /\ \A t : /\ [e EXCEPT !.state = st, !.sched = t].state = st
                   /\ [e EXCEPT !.state = st, !.sched = t].count = e.count
                   /\ [e EXCEPT !.state = st, !.sched = t].sched = t
  BY DEF Entry

LEMMA OwnTypes ==
  ASSUME OwnInv
  PROVE  /\ repo \in Entry /\ snap \in Entry
         /\ \A k \in Runs : run[k] \in Run /\ run[k].rec \in Entry
         /\ finalized \in Nat /\ fires \in [Times -> Nat]
  BY DEF OwnInv, Typed, Control, Data, History, Run

\* Steps that are none of an evaluation's leave the evaluations alone.
LEMMA RunsStay ==
  ASSUME \/ \E c \in Calls : Pause(c) \/ Resume(c) \/ Delete(c) \/ Persists(c)
         \/ Removes \/ Drifts
  PROVE  UNCHANGED <<run, fires, finalized>>
  BY DEF Pause, Resume, Delete, Persists, Removes, Drifts

LEMMA StepRecorded ==
  ASSUME OwnInv, Recorded, PlainStep
  PROVE  Recorded'
<1>1. ASSUME NEW k \in Runs, NEW r, run' = [run EXCEPT ![k] = r], RecordFits(r)
      PROVE  Recorded'
  BY <1>1, Replaced DEF Recorded
<1>2. RecordFits(NoRun)
  BY NothingExists DEF RecordFits
<1>3. ASSUME NEW k \in Runs, NEW e, Amounts(k, e) PROVE Recorded'
  <2>1. RecordFits(run[k])
    BY DEF Recorded
  <2>2. CASE Prepares(k, e) \/ Starts(k, e) \/ Stumbles(k, e) \/ Tries(k, e)
    <3>1. RecordFits(e)
      BY <2>2, PcNames DEF Prepares, Starts, Stumbles, Tries, RecordFits
    <3>2. run' = [run EXCEPT ![k] = e]
      BY <2>2 DEF Prepares, Starts, Stumbles, Tries, Suspend
    <3>. QED BY <1>1, <3>1, <3>2
  <2>3. CASE Saves(k, e) \/ Finals(k, e) \/ Errs(k, e)
    <3>1. RecordFits(e)
      <4>1. CASE Saves(k, e)
        BY <4>1 DEF Saves, FinalEntry, RecordFits
      <4>2. CASE Finals(k, e)
        BY <2>1, <4>2, OwnTypes, EntryFacts DEF Finals, RecordFits
      <4>3. CASE Errs(k, e)
        BY <4>3, OwnTypes, EntryFacts DEF Errs, RecordFits
      <4>. QED BY <2>3, <4>1, <4>2, <4>3
    <3>2. run' = [run EXCEPT ![k] = e]
      BY <2>3 DEF Saves, Finals, Errs, Suspend
    <3>. QED BY <1>1, <3>1, <3>2
  <2>. QED BY <1>1, <1>2, <1>3, <2>2, <2>3, AmountsReplace
<1>4. ASSUME NEW k \in Runs, NEW e, Accepted(k, e) PROVE Recorded'
  <2>1. RecordFits(e)
    BY <1>4 DEF Accepted, RecordFits
  <2>. QED BY <1>1, <1>4, <2>1 DEF Accepted
<1>5. CASE UNCHANGED run
  BY <1>5 DEF Recorded
<1>. QED BY <1>3, <1>4, <1>5, RunsStay DEF PlainStep

LEMMA StepMarked ==
  ASSUME OwnInv, Marked, PlainStep
  PROVE  Marked'
<1>3. ASSUME NEW k \in Runs, NEW e, Accepted(k, e) PROVE Marked'
  <2>1. session # "removed" /\ e.pc \notin {"markError", "attachError"}
        /\ run' = [run EXCEPT ![k] = e]
    BY <1>3 DEF Accepted
  <2>. QED BY <2>1, Replaced DEF Marked
<1>4. ASSUME UNCHANGED run, ~inFlight => ~inFlight', session = "removed" => session' = "removed"
      PROVE  Marked'
  BY <1>4 DEF Marked
<1>5. ASSUME NEW c \in Calls, Pause(c) \/ Resume(c) \/ Delete(c) \/ Persists(c) PROVE Marked'
  <2>1. UNCHANGED <<run, session>> /\ (~inFlight => ~inFlight')
    BY <1>5 DEF Pause, Resume, Delete, AskDelete, DeleteNow, ReleaseInFlight, Persists
  <2>. QED BY <1>4, <2>1
<1>6. CASE Removes \/ Drifts
  <2>1. UNCHANGED run /\ (~inFlight => ~inFlight') /\ (session = "removed" => session' = "removed")
    BY <1>6 DEF Removes, Drifts, AskDelete, DeleteNow, ReleaseInFlight
  <2>. QED BY <1>4, <2>1
<1>. QED BY RunMarked, <1>3, <1>5, <1>6 DEF PlainStep

LEMMA StepEntries ==
  ASSUME OwnInv, Calling, Recorded, Marked, Entries, PlainStep
  PROVE  Entries'
<1>1. ASSUME NEW k \in Runs, NEW e, Amounts(k, e) PROVE Entries'
  <2>1. repo \in Entry /\ snap \in Entry /\ run[k].rec \in Entry /\ RecordFits(run[k])
    BY OwnTypes DEF Recorded
  <2>2. CASE Prepares(k, e) \/ Saves(k, e)
    BY <2>2 DEF Prepares, Saves, Suspend, Entries, Exists
  <2>3. CASE Stumbles(k, e)
    BY <2>3 DEF Stumbles, ReleaseInFlight, Entries, Exists
  <2>4. CASE Starts(k, e)
    <3>1. repo'.state = "evaluating" /\ snap' = repo'
      BY <2>1, <2>4, EntryFacts DEF Starts
    <3>. QED BY <3>1 DEF Entries, Exists
  <2>5. CASE Tries(k, e)
    <3>1. CASE UNCHANGED <<repo, snap>>
      BY <2>5, <3>1 DEF Tries, Suspend, Entries, Exists
    <3>2. CASE ~UNCHANGED <<repo, snap>>
      <4>1. PICK st \in Active : repo' = [repo EXCEPT !.state = st] /\ snap' = repo'
        BY <2>5, <3>2 DEF Tries
      <4>2. repo'.state = st
        BY <2>1, <4>1, EntryFacts
      <4>. QED BY <4>1, <4>2 DEF Entries, Exists, Active
    <3>. QED BY <3>1, <3>2
  <2>6. CASE Finals(k, e)
    <3>1. repo'.state \in {"idle", "stopped"} /\ UNCHANGED snap /\ Exists(snap)
      BY <2>1, <2>6, EntryFacts DEF Finals, RecordFits
    <3>. QED BY <3>1 DEF Entries, Exists
  <2>7. CASE Errs(k, e)
    <3>1. repo'.state = "error" /\ UNCHANGED <<snap, session>>
      BY <2>1, <2>7, EntryFacts DEF Errs
    <3>2. Exists(snap)
      BY <2>7 DEF Errs, Entries
    <3>. QED BY <3>1, <3>2 DEF Entries, Exists
  <2>8. CASE Attaches(k)
    <3>1. Exists(repo) /\ UNCHANGED repo
      BY <2>8, InFlightOwns, PcNames DEF Attaches
    <3>2. Exists(snap')
      BY <2>1, <2>8 DEF Attaches, RecordFits, Exists
    <3>. QED BY <3>1, <3>2 DEF Entries, Exists
  <2>9. CASE Deletes(k)
    BY <2>9, NothingExists DEF Deletes, DeleteNow, ReleaseInFlight, Entries
  <2>10. CASE Restates(k)
    <3>1. repo'.state \in {"paused", "idle"} /\ snap' = repo'
      BY <2>1, <2>10, EntryFacts DEF Restates, RecordFits
    <3>. QED BY <3>1 DEF Entries, Exists
  <2>11. CASE Trails(k)
    <3>1. CASE repo' = [repo EXCEPT !.state = "stopped"] /\ snap' = repo'
      <4>1. repo'.state = "stopped"
        BY <2>1, <3>1, EntryFacts
      <4>. QED BY <3>1, <4>1 DEF Entries, Exists
    <3>2. CASE UNCHANGED <<repo, snap>>
      BY <2>11, <3>2 DEF Trails, Suspend, Entries, Exists
    <3>3. CASE run[k].pc = "attachError" /\ snap' = run[k].rec /\ UNCHANGED repo
      <4>1. session' = "removed" /\ snap'.state = "error"
        BY <2>1, <2>11, <3>3 DEF Trails, Marked, RecordFits
      <4>. QED BY <4>1, <3>3 DEF Entries, Exists
    <3>. QED BY <2>11, <3>1, <3>2, <3>3 DEF Trails
  <2>. QED BY <1>1, <2>2, <2>3, <2>4, <2>5, <2>6, <2>7, <2>8, <2>9, <2>10, <2>11 DEF Amounts
<1>2. ASSUME NEW k \in Runs, NEW e, Accepted(k, e) PROVE Entries'
  BY <1>2 DEF Accepted, Entries, Exists
<1>3. CASE UNCHANGED <<repo, snap, inFlight>> /\ (session' # "removed" => session # "removed")
  BY <1>3 DEF Entries, Exists
<1>4. CASE DeleteNow
  BY <1>4, NothingExists DEF DeleteNow, ReleaseInFlight, Entries
<1>5. ASSUME NEW c \in Calls, Persists(c) PROVE Entries'
  <2>1. CASE repo' = [repo EXCEPT !.state = call[c].rec.state] /\ snap' = repo'
    <3>1. repo'.state \in {"paused", "idle"}
      BY <1>5, <2>1, OwnTypes, EntryFacts DEF Persists, Calling
    <3>. QED BY <2>1, <3>1 DEF Entries, Exists
  <2>. QED BY <1>3, <1>5, <2>1 DEF Persists
<1>6. ASSUME NEW c \in Calls, Pause(c) \/ Resume(c) \/ Delete(c) PROVE Entries'
  BY <1>3, <1>4, <1>6 DEF Pause, Resume, Delete, AskDelete
<1>7. CASE Removes \/ Drifts
  <2>1. CASE DeleteNow
    BY <1>4, <2>1
  <2>2. CASE UNCHANGED <<repo, snap, inFlight>>
    BY <1>3, <1>7, <2>2 DEF Removes, Drifts
  <2>. QED BY <1>7, <2>1, <2>2 DEF Removes, Drifts, AskDelete
<1>. QED BY <1>1, <1>2, <1>5, <1>6, <1>7 DEF PlainStep

LEMMA StepClearing ==
  ASSUME OwnInv, Entries, Clearing, PlainStep
  PROVE  Clearing'
<1>1. CASE UNCHANGED <<flags, inFlight>> /\ (session' # "removed" => session # "removed")
  BY <1>1 DEF Clearing
<1>2. CASE ~pendingPause' /\ ~pendingObjective'
  BY <1>2 DEF Clearing
<1>3. ASSUME NEW k \in Runs, NEW e, Amounts(k, e) PROVE Clearing'
  <2>1. CASE Prepares(k, e) \/ Starts(k, e) \/ Tries(k, e) \/ Saves(k, e) \/ Finals(k, e)
             \/ Errs(k, e) \/ Trails(k)
    BY <1>1, <2>1 DEF Prepares, Starts, Tries, Saves, Finals, Errs, Trails, Suspend
  <2>2. CASE Stumbles(k, e)
    <3>1. inFlight
      BY <2>2, InFlightOwns, PcNames DEF Stumbles
    <3>2. session' = "removed"
      BY <2>2, <3>1 DEF Stumbles, Entries
    <3>. QED BY <3>2 DEF Clearing
  <2>3. CASE Attaches(k) \/ Deletes(k) \/ Restates(k)
    BY <1>2, <2>3 DEF Attaches, Deletes, Restates, Finally, DeleteNow
  <2>. QED BY <1>3, <2>1, <2>2, <2>3 DEF Amounts
<1>4. ASSUME NEW k \in Runs, NEW e, Accepted(k, e) PROVE Clearing'
  BY <1>4 DEF Accepted, Clearing
<1>5. ASSUME NEW c \in Calls, Pause(c) \/ Resume(c) \/ Delete(c) \/ Persists(c) PROVE Clearing'
  <2>1. CASE Pause(c)
    BY <2>1 DEF Pause, Clearing
  <2>2. CASE Resume(c) \/ Persists(c)
    BY <1>1, <2>2 DEF Resume, Persists
  <2>3. CASE Delete(c)
    BY <2>3 DEF Delete, AskDelete, DeleteNow, Clearing
  <2>. QED BY <1>5, <2>1, <2>2, <2>3
<1>6. CASE Removes \/ Drifts
  BY <1>6 DEF Removes, Drifts, Clearing
<1>. QED BY <1>3, <1>4, <1>5, <1>6 DEF PlainStep

LEMMA StepShowing ==
  ASSUME OwnInv, Calling, Recorded, Marked, Showing, PlainStep
  PROVE  Showing'
<1>1. ASSUME NEW k \in Runs, NEW e, Amounts(k, e) PROVE Showing'
  <2>1. repo \in Entry /\ snap \in Entry /\ run[k].rec \in Entry /\ RecordFits(run[k])
    BY OwnTypes DEF Recorded
  <2>2. CASE Prepares(k, e)
    <3>1. snap.state \notin Active /\ UNCHANGED snap
      BY <2>2, PcNames DEF Prepares, Showing
    <3>. QED BY <3>1 DEF Showing
  <2>3. CASE Stumbles(k, e)
    <3>1. snap.state \notin Active /\ UNCHANGED snap
      BY <2>3 DEF Stumbles, Showing
    <3>. QED BY <3>1 DEF Showing
  <2>4. CASE Starts(k, e) \/ Tries(k, e) \/ Saves(k, e) \/ Finals(k, e)
    <3>1. run[k].pc \in CyclePCs /\ UNCHANGED inFlight /\ run' = [run EXCEPT ![k] = e]
          /\ e.pc \notin BeginPCs
      BY <2>4, PcNames DEF Starts, Tries, Saves, Finals, Suspend
    <3>2. ASSUME NEW j \in Runs PROVE run'[j].pc \notin BeginPCs
      <4>1. CASE j = k
        BY <3>1, <4>1, Replaced
      <4>2. CASE j # k
        BY <3>1, <4>2, InFlightOwns, Replaced, PcNames
      <4>. QED BY <4>1, <4>2
    <3>3. inFlight'
      BY <3>1, InFlightOwns
    <3>. QED BY <3>2, <3>3 DEF Showing
  <2>5. CASE Errs(k, e)
    <3>1. UNCHANGED <<snap, inFlight>> /\ run' = [run EXCEPT ![k] = e] /\ e.pc \notin BeginPCs
      BY <2>5, PcNames DEF Errs, Suspend
    <3>. QED BY <3>1, Replaced DEF Showing
  <2>6. CASE Attaches(k) \/ Deletes(k) \/ Restates(k)
    <3>1. CASE Attaches(k)
      BY <2>1, <3>1 DEF Attaches, RecordFits, Active, Showing
    <3>2. CASE Deletes(k)
      BY <3>2, NothingExists DEF Deletes, DeleteNow, Active, Showing
    <3>3. CASE Restates(k)
      <4>1. snap'.state = run[k].rec.state
        BY <2>1, <3>3, EntryFacts DEF Restates
      <4>. QED BY <2>1, <3>3, <4>1 DEF Restates, RecordFits, Active, Showing
    <3>. QED BY <2>6, <3>1, <3>2, <3>3
  <2>7. CASE Trails(k)
    <3>1. UNCHANGED inFlight /\ run' = [run EXCEPT ![k] = NoRun]
      BY <2>7 DEF Trails, Suspend
    <3>2. UNCHANGED snap \/ snap'.state \notin Active
      <4>1. CASE repo' = [repo EXCEPT !.state = "stopped"] /\ snap' = repo'
        BY <2>1, <4>1, EntryFacts DEF Active
      <4>2. CASE run[k].pc = "attachError" /\ snap' = run[k].rec
        BY <2>1, <4>2 DEF RecordFits, Active
      <4>. QED BY <2>7, <4>1, <4>2 DEF Trails
    <3>. QED BY <3>1, <3>2, Replaced, NothingExists, PcNames DEF Showing
  <2>. QED BY <1>1, <2>2, <2>3, <2>4, <2>5, <2>6, <2>7 DEF Amounts
<1>2. ASSUME NEW k \in Runs, NEW e, Accepted(k, e) PROVE Showing'
  <2>1. snap.state \notin Active /\ UNCHANGED snap
    BY <1>2 DEF Accepted, Showing
  <2>. QED BY <2>1 DEF Showing
<1>3. CASE UNCHANGED <<snap, inFlight, run>>
  BY <1>3 DEF Showing
<1>4. CASE snap'.state \notin Active
  BY <1>4 DEF Showing
<1>5. DeleteNow => snap'.state \notin Active
  BY NothingExists DEF DeleteNow, Active
<1>6. ASSUME NEW c \in Calls, Persists(c) PROVE Showing'
  <2>1. UNCHANGED <<snap, inFlight, run>> \/ snap'.state \notin Active
    <3>1. CASE repo' = [repo EXCEPT !.state = call[c].rec.state] /\ snap' = repo'
      <4>1. snap'.state = call[c].rec.state
        BY <3>1, OwnTypes, EntryFacts
      <4>. QED BY <1>6, <4>1 DEF Persists, Calling, Active
    <3>. QED BY <1>6, <3>1 DEF Persists
  <2>. QED BY <1>3, <1>4, <2>1
<1>7. ASSUME NEW c \in Calls, Pause(c) \/ Resume(c) \/ Delete(c) PROVE Showing'
  BY <1>3, <1>4, <1>5, <1>7 DEF Pause, Resume, Delete, AskDelete
<1>8. CASE Removes \/ Drifts
  BY <1>3, <1>4, <1>5, <1>8 DEF Removes, Drifts, AskDelete
<1>. QED BY <1>1, <1>2, <1>6, <1>7, <1>8 DEF PlainStep

LEMMA StepScheduling ==
  ASSUME OwnInv, Marked, Scheduling, PlainStep
  PROVE  Scheduling'
<1>1. /\ repo \in Entry /\ snap \in Entry /\ fires \in [Times -> Nat]
      /\ \A k \in Runs : run[k] \in Run /\ run[k].rec \in Entry
      /\ \A k \in Runs : ScheduleFits(run[k])
  BY OwnTypes DEF Scheduling
<1>2. ASSUME UNCHANGED <<fires, run>>, Exists(repo') => Exists(repo) /\ repo'.sched = repo.sched,
             Exists(repo') /\ Exists(snap') => snap'.sched = repo'.sched
      PROVE  Scheduling'
  BY <1>2 DEF Scheduling, ScheduleFits, Exists
<1>3. ASSUME NEW k \in Runs, NEW r, run' = [run EXCEPT ![k] = r], UNCHANGED fires,
             Exists(repo') => Exists(repo) /\ repo'.sched = repo.sched,
             Exists(repo') /\ Exists(snap') => snap'.sched = repo'.sched,
             ScheduleFits(r)'
      PROVE  Scheduling'
  BY <1>3, Replaced DEF Scheduling, ScheduleFits, Exists
<1>4. ASSUME NEW k \in Runs, NEW e, Amounts(k, e) PROVE Scheduling'
  <2>1. CASE Starts(k, e)
    <3>1. /\ run[k].pc = "flipEvaluating" /\ run[k].pc \in BeginPCs /\ run[k].pc \in CyclePCs
          /\ Exists(repo)
      BY <2>1, PcNames DEF Starts
    <3>2. PICK s, d : s = repo.sched /\ d = run[k].due
      OBVIOUS
    <3>3. run[k].rec.sched = s /\ d \in {0, s} /\ s \in Times
      BY <1>1, <3>1, <3>2 DEF Entry, ScheduleFits
    <3>4. NextSchedule(run[k]) = IF d # 0 THEN 0 ELSE s
      BY <3>2, <3>3 DEF NextSchedule
    <3>5. repo'.sched = (IF d # 0 THEN 0 ELSE s) /\ snap' = repo' /\ UNCHANGED inFlight
      BY <1>1, <2>1, <3>4, EntryFacts DEF Starts, Suspend
    <3>6. fires' = IF d # 0 THEN [fires EXCEPT ![d] = @ + 1] ELSE fires
      BY <2>1, <3>2 DEF Starts
    <3>7. fires[0] = 0 /\ (s # 0 => fires[s] = 0) /\ \A t \in Times : fires[t] <= 1
      BY <3>1, <3>2 DEF Scheduling
    <3>8. /\ \A t \in Times : fires'[t] <= 1
          /\ fires'[0] = 0
          /\ repo'.sched # 0 => fires'[repo'.sched] = 0
      BY <1>1, <3>3, <3>5, <3>6, <3>7, Neutral
    <3>9. \A j \in Runs : run'[j].pc \notin BeginPCs \cup {"attachFinal", "attachFailed", "attachError"}
      <4>1. run' = [run EXCEPT ![k] = e] /\ e.pc = "evaluate" /\ inFlight
        BY <2>1, <3>1, InFlightOwns DEF Starts, Suspend
      <4>2. ASSUME NEW j \in Runs, j # k PROVE run[j].pc \notin CyclePCs \cup {"attachError"}
        BY <3>1, <4>1, <4>2, InFlightOwns DEF Marked
      <4>3. run'[k] = e /\ \A j \in Runs : j # k => run'[j] = run[j]
        BY <4>1, Replaced
      <4>4. ASSUME NEW j \in Runs
            PROVE  run'[j].pc \notin BeginPCs \cup {"attachFinal", "attachFailed", "attachError"}
        <5>1. CASE j = k
          BY <4>1, <4>3, <5>1, PcNames
        <5>2. CASE j # k
          BY <4>2, <4>3, <5>2, PcNames
        <5>. QED BY <5>1, <5>2
      <4>. QED BY <4>4
    <3>. QED BY <3>5, <3>8, <3>9 DEF Scheduling, ScheduleFits
  <2>2. CASE Prepares(k, e) \/ Stumbles(k, e) \/ Saves(k, e)
    <3>1. UNCHANGED <<repo, snap, fires>> /\ run' = [run EXCEPT ![k] = e]
      BY <2>2 DEF Prepares, Stumbles, Saves, Suspend
    <3>2. ScheduleFits(e)
      BY <1>1, <2>2, PcNames DEF Prepares, Stumbles, Saves, ScheduleFits
    <3>. QED BY <1>3, <3>1, <3>2 DEF Scheduling, ScheduleFits, Exists
  <2>3. CASE Tries(k, e)
    <3>1. /\ UNCHANGED fires /\ run' = [run EXCEPT ![k] = e]
          /\ e.pc \notin BeginPCs \cup {"attachFinal", "attachFailed", "attachError"}
          /\ Exists(repo) /\ Exists(snap)
      BY <2>3, PcNames DEF Tries, Suspend
    <3>2. repo'.sched = repo.sched /\ (snap' = repo' \/ UNCHANGED <<repo, snap>>)
      <4>1. CASE UNCHANGED <<repo, snap>>
        BY <4>1
      <4>2. CASE ~UNCHANGED <<repo, snap>>
        <5>1. PICK st \in Active : repo' = [repo EXCEPT !.state = st] /\ snap' = repo'
          BY <2>3, <4>2 DEF Tries
        <5>. QED BY <1>1, <5>1, EntryFacts
      <4>. QED BY <4>1, <4>2
    <3>3. ScheduleFits(e)'
      BY <3>1, PcNames DEF ScheduleFits
    <3>. QED BY <1>3, <3>1, <3>2, <3>3 DEF Scheduling
  <2>4. CASE Finals(k, e) \/ Errs(k, e)
    <3>1. /\ UNCHANGED <<fires, snap>> /\ run' = [run EXCEPT ![k] = e]
          /\ e.pc \in {"attachFinal", "attachFailed", "attachError"}
          /\ Exists(repo) /\ e.rec = repo'
      BY <2>4 DEF Finals, Errs, Suspend
    <3>2. repo'.sched = repo.sched
      <4>1. CASE Finals(k, e)
        BY <1>1, <4>1, EntryFacts DEF Finals
      <4>2. CASE Errs(k, e)
        <5>1. repo' = [repo EXCEPT !.state = "error"]
          BY <4>2 DEF Errs
        <5>. QED BY <1>1, <5>1, EntryFacts
      <4>. QED BY <2>4, <4>1, <4>2
    <3>3. ScheduleFits(e)'
      BY <3>1, PcNames DEF ScheduleFits
    <3>4. Exists(snap') => snap'.sched = repo'.sched
      BY <3>1, <3>2 DEF Scheduling, Exists
    <3>. QED BY <1>3, <3>1, <3>2, <3>3, <3>4
  <2>5. CASE Attaches(k) \/ Deletes(k) \/ Restates(k) \/ Trails(k)
    <3>1. UNCHANGED fires /\ run' = [run EXCEPT ![k] = NoRun]
      BY <2>5, AmountsReplace DEF Attaches, Deletes, Restates, Trails, Finally, Suspend
    <3>2. ScheduleFits(NoRun)'
      BY NothingExists, PcNames DEF ScheduleFits
    <3>3. CASE Attaches(k)
      BY <1>1, <1>3, <3>1, <3>2, <3>3 DEF Attaches, ScheduleFits, Exists
    <3>4. CASE Deletes(k)
      BY <1>3, <3>1, <3>2, <3>4, NothingExists DEF Deletes, DeleteNow
    <3>5. CASE Restates(k)
      <4>1. Exists(repo) /\ repo'.sched = repo.sched /\ snap' = repo'
        BY <1>1, <3>5, EntryFacts DEF Restates
      <4>. QED BY <1>3, <3>1, <3>2, <4>1
    <3>6. CASE Trails(k)
      <4>1. CASE Exists(repo) /\ repo' = [repo EXCEPT !.state = "stopped"] /\ snap' = repo'
        <5>1. repo'.sched = repo.sched
          BY <1>1, <4>1, EntryFacts
        <5>. QED BY <1>3, <3>1, <3>2, <4>1, <5>1
      <4>2. CASE UNCHANGED <<repo, snap>>
        BY <1>3, <3>1, <3>2, <4>2 DEF Scheduling, Exists
      <4>3. CASE run[k].pc = "attachError" /\ snap' = run[k].rec /\ UNCHANGED repo
        BY <1>1, <1>3, <3>1, <3>2, <4>3 DEF ScheduleFits, Exists
      <4>. QED BY <3>6, <4>1, <4>2, <4>3 DEF Trails
    <3>. QED BY <2>5, <3>3, <3>4, <3>5, <3>6
  <2>. QED BY <1>4, <2>1, <2>2, <2>3, <2>4, <2>5 DEF Amounts
<1>5. ASSUME NEW k \in Runs, NEW e, Accepted(k, e) PROVE Scheduling'
  <2>1. UNCHANGED <<repo, snap, fires>> /\ run' = [run EXCEPT ![k] = e] /\ Exists(snap)
    BY <1>5 DEF Accepted
  <2>2. ScheduleFits(e)
    BY <1>5, <2>1, PcNames DEF Accepted, Scheduling, ScheduleFits
  <2>. QED BY <1>3, <2>1, <2>2 DEF Scheduling, ScheduleFits, Exists
<1>6. CASE UNCHANGED <<repo, snap, fires, run>>
  BY <1>2, <1>6 DEF Scheduling, Exists
<1>7. CASE DeleteNow /\ UNCHANGED <<fires, run>>
  BY <1>2, <1>7, NothingExists DEF DeleteNow
<1>8. ASSUME NEW c \in Calls, Persists(c) PROVE Scheduling'
  <2>1. CASE Exists(repo) /\ repo' = [repo EXCEPT !.state = call[c].rec.state] /\ snap' = repo'
    <3>1. repo'.sched = repo.sched
      BY <1>1, <2>1, EntryFacts
    <3>. QED BY <1>2, <1>8, <2>1, <3>1 DEF Persists
  <2>. QED BY <1>6, <1>8, <2>1 DEF Persists
<1>9. ASSUME NEW c \in Calls, Pause(c) \/ Resume(c) \/ Delete(c) PROVE Scheduling'
  BY <1>6, <1>7, <1>9 DEF Pause, Resume, Delete, AskDelete
<1>10. CASE Removes \/ Drifts
  BY <1>6, <1>7, <1>10 DEF Removes, Drifts, AskDelete
<1>. QED BY <1>4, <1>5, <1>8, <1>9, <1>10 DEF PlainStep

LEMMA StepCounting ==
  ASSUME OwnInv, Marked, Counting, PlainStep
  PROVE  Counting'
<1>1. /\ repo \in Entry /\ snap \in Entry /\ finalized \in Nat /\ MaxCount \in Nat
      /\ \A k \in Runs : run[k] \in Run /\ run[k].rec \in Entry
      /\ \A k \in Runs : CountFits(run[k])
  BY OwnTypes, CycleAssumption DEF Counting
\* Without a new outcome.
<1>2. ASSUME NEW k \in Runs, NEW r, run' = [run EXCEPT ![k] = r], UNCHANGED finalized,
             ~inFlight => ~inFlight',
             Exists(repo') => repo'.count = finalized,
             \/ Exists(snap') => snap'.count = finalized
             \/ UNCHANGED snap /\ run[k].pc # "attachFinal",
             CountFits(r)'
      PROVE  Counting'
  <2>1. run'[k] = r /\ \A j \in Runs : j # k => run'[j] = run[j]
    BY <1>2, Replaced
  <2>2. \A j \in Runs : j # k => CountFits(run[j])'
    BY <1>1, <1>2, <2>1 DEF CountFits
  <2>3. \A j \in Runs : CountFits(run[j])'
    BY <1>2, <2>1, <2>2
  <2>4. Exists(snap') => snap'.count = finalized' \/ \E j \in Runs : run'[j].pc = "attachFinal"
    BY <1>2, <2>1 DEF Counting, Exists
  <2>. QED BY <1>2, <2>3, <2>4 DEF Counting, CountFits
<1>3. ASSUME UNCHANGED <<run, finalized>>, ~inFlight => ~inFlight',
             Exists(repo') => repo'.count = finalized,
             (Exists(snap') => snap'.count = finalized) \/ UNCHANGED snap
      PROVE  Counting'
  BY <1>3 DEF Counting, CountFits, Exists
<1>4. ASSUME NEW k \in Runs, NEW e, Amounts(k, e) PROVE Counting'
  <2>1. Exists(repo) => repo.count = finalized
    BY DEF Counting
  <2>2. ASSUME run[k].pc \in CyclePCs \ {"attachFinal"}
        PROVE  /\ Exists(snap) => snap.count = finalized
               /\ MaxCount > 0 => finalized < MaxCount
    BY <1>1, <2>2, InFlightOwns, PcNames DEF Counting, CountFits
  <2>3. CASE Prepares(k, e) \/ Stumbles(k, e)
    <3>1. /\ run' = [run EXCEPT ![k] = e] /\ UNCHANGED <<repo, snap, finalized>>
          /\ ~inFlight => ~inFlight'
          /\ run[k].pc \in CyclePCs \ {"attachFinal"}
          /\ e.pc \in {"flipEvaluating", "markError", "off"}
      BY <2>3, PcNames DEF Prepares, Stumbles, Suspend, ReleaseInFlight
    <3>2. CountFits(e)'
      BY <2>2, <3>1, PcNames DEF CountFits
    <3>. QED BY <1>2, <2>1, <3>1, <3>2 DEF Exists
  <2>4. CASE Starts(k, e)
    <3>1. /\ run' = [run EXCEPT ![k] = e] /\ UNCHANGED <<inFlight, finalized>>
          /\ run[k].pc \in CyclePCs \ {"attachFinal"} /\ e.pc = "evaluate"
          /\ Exists(repo) /\ snap' = repo'
      BY <2>4, PcNames DEF Starts, Suspend
    <3>2. CountFits(e)'
      BY <2>2, <3>1, PcNames DEF CountFits
    <3>3. repo'.count = finalized
      BY <1>1, <2>1, <2>4, <3>1, EntryFacts DEF Starts
    <3>. QED BY <1>2, <3>1, <3>2, <3>3
  <2>5. CASE Tries(k, e)
    <3>1. /\ run' = [run EXCEPT ![k] = e] /\ UNCHANGED <<inFlight, finalized>>
          /\ run[k].pc \in CyclePCs \ {"attachFinal"} /\ Exists(repo)
          /\ e.pc \in AttemptPCs \cup {"flipFailed", "saveOutcome", "abortRecord", "flipAborted"}
      BY <2>5, PcNames DEF Tries, Suspend
    <3>2. CountFits(e)'
      BY <2>2, <3>1, PcNames DEF CountFits
    <3>3. repo'.count = finalized /\ (snap' = repo' \/ UNCHANGED snap)
      <4>1. CASE UNCHANGED <<repo, snap>>
        BY <2>1, <3>1, <4>1
      <4>2. CASE ~UNCHANGED <<repo, snap>>
        <5>1. PICK st \in Active : repo' = [repo EXCEPT !.state = st] /\ snap' = repo'
          BY <2>5, <4>2 DEF Tries
        <5>. QED BY <1>1, <2>1, <3>1, <5>1, EntryFacts
      <4>. QED BY <4>1, <4>2
    <3>. QED BY <1>2, <3>1, <3>2, <3>3
  <2>6. CASE Saves(k, e)
    <3>1. /\ run' = [run EXCEPT ![k] = e] /\ UNCHANGED <<inFlight, finalized, repo, snap>>
          /\ run[k].pc \in CyclePCs \ {"attachFinal"} /\ Exists(snap)
          /\ e.pc = "flipFinal" /\ e.rec.count = snap.count + 1
      BY <2>6, PcNames DEF Saves, Suspend, FinalEntry
    <3>2. CountFits(e)'
      BY <2>2, <3>1, PcNames DEF CountFits
    <3>. QED BY <1>2, <2>1, <3>1, <3>2 DEF Exists
  <2>7. CASE Finals(k, e)
    <3>1. /\ run' = [run EXCEPT ![k] = e] /\ UNCHANGED <<inFlight, snap>>
          /\ run[k].pc = "flipFinal" /\ run[k].pc \in CyclePCs
          /\ e.pc = "attachFinal" /\ e.rec = repo' /\ finalized' = finalized + 1
      BY <2>7, PcNames DEF Finals, Suspend
    <3>2. repo'.count = run[k].rec.count
      BY <1>1, <2>7, EntryFacts DEF Finals
    <3>3. run[k].rec.count = finalized + 1 /\ (MaxCount > 0 => finalized < MaxCount)
      BY <1>1, <3>1 DEF CountFits
    <3>4. inFlight /\ \A j \in Runs : j # k => run[j].pc \notin CyclePCs
      BY <3>1, InFlightOwns
    <3>5. ASSUME NEW j \in Runs, j # k PROVE CountFits(run[j])'
      <4>1. run'[j] = run[j]
        BY <3>1, <3>5, Replaced
      <4>2. run[j].pc \notin CyclePCs \cup {"attachError", "flipStopped"}
        BY <1>1, <3>4, <3>5 DEF Marked, CountFits
      <4>. QED BY <4>1, <4>2, PcNames DEF CountFits
    <3>6. run'[k] = e /\ CountFits(e)'
      BY <3>1, <3>2, <3>3, Replaced, PcNames DEF CountFits
    <3>7. MaxCount > 0 => finalized' <= MaxCount
      BY <1>1, <3>1, <3>3
    <3>8. \A j \in Runs : CountFits(run[j])'
      BY <3>5, <3>6
    <3>. QED BY <3>1, <3>2, <3>3, <3>6, <3>7, <3>8 DEF Counting
  <2>8. CASE Errs(k, e)
    <3>1. /\ run' = [run EXCEPT ![k] = e] /\ UNCHANGED <<inFlight, finalized, snap>>
          /\ run[k].pc # "attachFinal" /\ e.pc \in {"attachFailed", "attachError"}
          /\ Exists(repo) /\ e.rec = repo'
          /\ e.pc = "attachFailed" => run[k].pc \in CyclePCs \ {"attachFinal"}
      BY <2>8, PcNames DEF Errs, Suspend
    <3>2. repo'.count = finalized
      <4>1. repo' = [repo EXCEPT !.state = "error"]
        BY <2>8 DEF Errs
      <4>. QED BY <1>1, <2>1, <3>1, <4>1, EntryFacts
    <3>3. CountFits(e)'
      BY <2>2, <3>1, <3>2, PcNames DEF CountFits
    <3>. QED BY <1>2, <3>1, <3>2, <3>3
  <2>9. CASE Attaches(k) \/ Deletes(k) \/ Restates(k) \/ Trails(k)
    <3>1. /\ run' = [run EXCEPT ![k] = NoRun] /\ UNCHANGED finalized
          /\ ~inFlight => ~inFlight'
      BY <2>9 DEF Attaches, Deletes, Restates, Trails, Finally, Suspend, DeleteNow, ReleaseInFlight
    <3>2. CountFits(NoRun)'
      BY NothingExists, PcNames DEF CountFits
    <3>3. CASE Attaches(k)
      <4>1. Exists(repo') => repo'.count = finalized
        BY <2>1, <3>3 DEF Attaches, Exists
      <4>2. snap'.count = finalized
        BY <1>1, <3>3 DEF Attaches, CountFits
      <4>. QED BY <1>2, <3>1, <3>2, <4>1, <4>2
    <3>4. CASE Deletes(k)
      BY <1>2, <3>1, <3>2, <3>4, NothingExists DEF Deletes, DeleteNow
    <3>5. CASE Restates(k)
      <4>1. repo'.count = finalized /\ snap' = repo'
        BY <1>1, <2>1, <3>5, EntryFacts DEF Restates
      <4>. QED BY <1>2, <3>1, <3>2, <4>1
    <3>6. CASE Trails(k)
      <4>1. CASE Exists(repo) /\ repo' = [repo EXCEPT !.state = "stopped"] /\ snap' = repo'
        <5>1. repo'.count = finalized
          BY <1>1, <2>1, <4>1, EntryFacts
        <5>. QED BY <1>2, <3>1, <3>2, <4>1, <5>1
      <4>2. CASE run[k].pc \in {"flipStopped", "markError"} /\ UNCHANGED <<repo, snap>>
        BY <1>2, <2>1, <3>1, <3>2, <4>2 DEF Exists
      <4>3. CASE run[k].pc = "attachError" /\ snap' = run[k].rec /\ UNCHANGED repo
        <5>1. snap'.count = finalized
          BY <1>1, <4>3 DEF CountFits
        <5>. QED BY <1>2, <2>1, <3>1, <3>2, <4>3, <5>1 DEF Exists
      <4>. QED BY <3>6, <4>1, <4>2, <4>3 DEF Trails
    <3>. QED BY <2>9, <3>3, <3>4, <3>5, <3>6
  <2>. QED BY <1>4, <2>3, <2>4, <2>5, <2>6, <2>7, <2>8, <2>9 DEF Amounts
<1>5. ASSUME NEW k \in Runs, NEW e, Accepted(k, e) PROVE Counting'
  <2>1. /\ run' = [run EXCEPT ![k] = e] /\ UNCHANGED <<repo, snap, finalized>>
        /\ Exists(snap) /\ ~inFlight
    BY <1>5 DEF Accepted
  <2>2. snap.count = finalized
    <3>1. \A j \in Runs : run[j].pc # "attachFinal"
      BY <2>1, InFlightOwns, PcNames
    <3>. QED BY <2>1, <3>1 DEF Counting
  <2>3. CASE CapReached /\ e.pc = "flipStopped" /\ UNCHANGED lock
    <3>1. CountFits(e)'
      BY <1>1, <2>1, <2>2, <2>3, PcNames DEF CountFits, CapReached
    <3>. QED BY <1>2, <2>1, <2>2, <2>3, <3>1 DEF Counting, Exists
  <2>4. CASE ~CapReached /\ e.pc = "context"
    <3>1. MaxCount > 0 => finalized < MaxCount
      BY <1>1, <2>2, <2>4 DEF CapReached
    <3>2. CountFits(e)'
      BY <2>1, <2>4, <3>1, PcNames DEF CountFits
    <3>3. ASSUME NEW j \in Runs, j # k PROVE CountFits(run[j])'
      <4>1. run'[j] = run[j] /\ CountFits(run[j])
        BY <1>1, <2>1, <3>3, Replaced
      <4>2. run[j].pc # "flipStopped"
        BY <1>1, <3>1, <4>1 DEF CountFits
      <4>. QED BY <2>1, <4>1, <4>2 DEF CountFits
    <3>4. \A j \in Runs : CountFits(run[j])'
      BY <2>1, <3>2, <3>3, Replaced
    <3>. QED BY <2>1, <2>2, <3>4 DEF Counting, Exists
  <2>. QED BY <1>5, <2>3, <2>4 DEF Accepted
<1>6. CASE UNCHANGED <<repo, snap, finalized, inFlight, run>>
  BY <1>3, <1>6 DEF Counting, Exists
<1>7. CASE DeleteNow /\ UNCHANGED <<finalized, run>>
  BY <1>3, <1>7, NothingExists DEF DeleteNow, ReleaseInFlight
<1>8. ASSUME NEW c \in Calls, Persists(c) PROVE Counting'
  <2>1. CASE Exists(repo) /\ repo' = [repo EXCEPT !.state = call[c].rec.state] /\ snap' = repo'
    <3>1. repo'.count = finalized
      BY <1>1, <2>1, EntryFacts DEF Counting
    <3>. QED BY <1>3, <1>8, <2>1, <3>1 DEF Persists
  <2>. QED BY <1>6, <1>8, <2>1 DEF Persists
<1>9. ASSUME NEW c \in Calls, Pause(c) \/ Resume(c) \/ Delete(c) PROVE Counting'
  BY <1>6, <1>7, <1>9 DEF Pause, Resume, Delete, AskDelete
<1>10. CASE Removes \/ Drifts
  BY <1>6, <1>7, <1>10 DEF Removes, Drifts, AskDelete
<1>. QED BY <1>4, <1>5, <1>8, <1>9, <1>10 DEF PlainStep

LEMMA StepPausing ==
  ASSUME OwnInv, Calling, Recorded, Entries, Counting, Pausing, PlainStep
  PROVE  Pausing'
<1>. DEFINE CallFits(r) == r.pc = "persist" => r.rec.state = "paused"
<1>1. ASSUME intent = "early"
      PROVE  /\ \A k \in Runs : PauseFits(run[k])
             /\ \A c \in Calls : CallFits(call[c])
             /\ \/ snap.state \in Settled
                \/ \E k \in Runs : run[k].pc \in CyclePCs \cup {"markError", "attachError"}
  BY <1>1 DEF Pausing
<1>2. ASSUME intent = "early", NEW k \in Runs, NEW e, Amounts(k, e), UNCHANGED intent
      PROVE  Pausing'
  <2>1. /\ repo \in Entry /\ snap \in Entry /\ run[k].rec \in Entry
        /\ RecordFits(run[k]) /\ PauseFits(run[k])
    BY <1>1, <1>2, OwnTypes DEF Recorded
  <2>2. \A c \in Calls : CallFits(call'[c])
    <3>1. CASE UNCHANGED call
      BY <1>1, <1>2, <3>1
    <3>2. CASE ReleaseInFlight
      <4>1. ASSUME NEW c \in Calls PROVE call'[c] = call[c] \/ call'[c] = NoCall
        BY <3>2 DEF ReleaseInFlight, Resolved, Calling
      <4>. QED BY <1>1, <1>2, <4>1, Neutral
    <3>. QED BY <1>2, <3>1, <3>2, AmountsLock
  <2>. HIDE DEF CallFits
  <2>3. ASSUME run' = [run EXCEPT ![k] = e], PauseFits(e)',
               \/ UNCHANGED lock /\ UNCHANGED flags
               \/ run[k].pc \in CyclePCs,
               e.pc \in CyclePCs \cup {"markError", "attachError"} \/ snap'.state \in Settled
        PROVE  Pausing'
    <3>1. run'[k] = e /\ \A j \in Runs : j # k => run'[j] = run[j]
      BY <2>3, Replaced
    <3>2. ASSUME NEW j \in Runs, j # k PROVE PauseFits(run[j])'
      <4>1. PauseFits(run[j]) /\ run'[j] = run[j]
        BY <1>1, <1>2, <3>1, <3>2
      <4>2. (UNCHANGED lock /\ UNCHANGED flags) \/ run[j].pc \notin CyclePCs
        BY <2>3, <3>2, InFlightOwns
      <4>. QED BY <4>1, <4>2, PcNames DEF PauseFits
    <3>3. \A j \in Runs : PauseFits(run[j])'
      BY <2>3, <3>1, <3>2
    <3>4. snap'.state \in Settled
          \/ \E j \in Runs : run'[j].pc \in CyclePCs \cup {"markError", "attachError"}
      BY <2>3, <3>1
    <3>. QED BY <2>2, <3>3, <3>4 DEF Pausing, CallFits
  <2>4. CASE Prepares(k, e) \/ Starts(k, e)
    <3>1. /\ run' = [run EXCEPT ![k] = e] /\ UNCHANGED <<lock, flags>>
          /\ run[k].pc \in BeginPCs /\ e.pc \in {"flipEvaluating", "evaluate"}
      BY <2>4, PcNames DEF Prepares, Starts, Suspend
    <3>2. PauseFits(e)'
      BY <2>1, <3>1, PcNames DEF PauseFits
    <3>. QED BY <2>3, <3>1, <3>2, PcNames
  <2>5. CASE Stumbles(k, e)
    <3>1. /\ run' = [run EXCEPT ![k] = e] /\ run[k].pc \in CyclePCs /\ UNCHANGED snap
          /\ e.pc = IF Exists(repo) THEN "markError" ELSE "off"
      BY <2>5, PcNames DEF Stumbles
    <3>2. PauseFits(e)'
      BY <3>1, PcNames DEF PauseFits
    <3>3. ~Exists(repo) => snap.state \in Settled
      BY DEF Entries, Settled
    <3>. QED BY <2>3, <3>1, <3>2, <3>3
  <2>6. CASE Tries(k, e)
    <3>1. /\ run' = [run EXCEPT ![k] = e] /\ UNCHANGED <<lock, flags>>
          /\ run[k].pc \in AttemptPCs
      BY <2>6 DEF Tries, Suspend
    <3>2. aborted /\ pendingPause
      BY <2>1, <3>1 DEF PauseFits
    <3>3. /\ e.pc \in AttemptPCs \cup {"flipFailed", "abortRecord", "flipAborted"}
          /\ e.pc = "flipAborted" => e.rec.state = "paused"
      BY <2>6, <3>2, PcNames DEF Tries
    <3>4. PauseFits(e)'
      BY <3>1, <3>2, <3>3, PcNames DEF PauseFits
    <3>. QED BY <2>3, <3>1, <3>3, <3>4, PcNames
  <2>7. ~Saves(k, e) /\ ~Finals(k, e)
    BY <2>1, PcNames DEF Saves, Finals, PauseFits
  <2>8. CASE Errs(k, e)
    <3>1. /\ run' = [run EXCEPT ![k] = e] /\ UNCHANGED <<lock, flags>>
          /\ e.pc \in {"attachFailed", "attachError"}
      BY <2>8 DEF Errs, Suspend
    <3>2. PauseFits(e)'
      BY <3>1, PcNames DEF PauseFits
    <3>. QED BY <2>3, <3>1, <3>2, PcNames
  <2>9. CASE Attaches(k) \/ Deletes(k) \/ Restates(k) \/ Trails(k)
    <3>1. /\ run' = [run EXCEPT ![k] = NoRun]
          /\ (UNCHANGED lock /\ UNCHANGED flags) \/ run[k].pc \in CyclePCs
      BY <2>9, PcNames DEF Attaches, Deletes, Restates, Trails, Finally, Suspend
    <3>2. snap'.state \in Settled
      <4>1. CASE Attaches(k)
        BY <2>1, <4>1, PcNames DEF Attaches, RecordFits, PauseFits, Settled
      <4>2. CASE Deletes(k)
        BY <4>2, NothingExists DEF Deletes, DeleteNow, Settled
      <4>3. CASE Restates(k)
        <5>1. snap'.state = run[k].rec.state
          BY <2>1, <4>3, EntryFacts DEF Restates
        <5>. QED BY <2>1, <4>3, <5>1 DEF Restates, PauseFits, Settled
      <4>4. CASE Trails(k)
        <5>1. run[k].pc # "flipStopped"
          BY <2>1 DEF PauseFits
        <5>2. CASE ~Exists(repo) /\ UNCHANGED snap
          BY <5>2 DEF Entries, Settled
        <5>3. CASE run[k].pc = "attachError" /\ snap' = run[k].rec
          BY <2>1, <5>3 DEF RecordFits, Settled
        <5>. QED BY <4>4, <5>1, <5>2, <5>3 DEF Trails
      <4>. QED BY <2>9, <4>1, <4>2, <4>3, <4>4
    <3>3. ASSUME NEW j \in Runs PROVE PauseFits(run[j])'
      <4>1. CASE j = k
        <5>1. run'[j] = NoRun /\ NoRun.pc = "off"
          BY <3>1, <4>1, Replaced, NothingExists
        <5>2. run'[j].pc = "off"
          BY <5>1
        <5>. QED BY <5>2, PcNames DEF PauseFits
      <4>2. CASE j # k
        <5>1. PauseFits(run[j]) /\ run'[j] = run[j]
          BY <1>1, <1>2, <3>1, <4>2, Replaced
        <5>2. (UNCHANGED lock /\ UNCHANGED flags) \/ run[j].pc \notin CyclePCs
          BY <3>1, <4>2, InFlightOwns
        <5>. QED BY <5>1, <5>2, PcNames DEF PauseFits
      <4>. QED BY <4>1, <4>2
    <3>. QED BY <2>2, <3>2, <3>3 DEF Pausing, CallFits
  <2>. QED BY <1>2, <2>4, <2>5, <2>6, <2>7, <2>8, <2>9 DEF Amounts
\* Whoever else moves either changes no evaluation, or deletes the supervisor.
<1>3. ASSUME intent = "early", UNCHANGED <<run, intent>>,
             aborted => aborted' \/ ~inFlight, pendingPause => pendingPause' \/ ~inFlight,
             snap.state \in Settled => snap'.state \in Settled,
             \A c \in Calls : CallFits(call'[c])
      PROVE  Pausing'
  <2>1. ASSUME NEW k \in Runs PROVE PauseFits(run[k])'
    <3>1. PauseFits(run[k]) /\ (run[k].pc \in BeginPCs \cup AttemptPCs => inFlight)
      BY <1>1, <1>3, InFlightOwns, PcNames
    <3>. QED BY <1>3, <3>1 DEF PauseFits
  <2>. QED BY <1>1, <1>3, <2>1 DEF Pausing
<1>4. \A c \in Calls : intent = "early" => CallFits(call[c])
  BY <1>1
<1>5. ASSUME ReleaseInFlight, intent = "early", NEW c \in Calls PROVE CallFits(call'[c])
  <2>1. call'[c] = call[c] \/ call'[c] = NoCall
    BY <1>5 DEF ReleaseInFlight, Resolved, Calling
  <2>. QED BY <1>4, <1>5, <2>1, Neutral
<1>6. DeleteNow => snap'.state \in Settled /\ ReleaseInFlight
  BY NothingExists DEF DeleteNow, Settled
<1>7. ASSUME NEW c \in Calls, Pause(c) PROVE Pausing'
  <2>. SUFFICES ASSUME intent' = "early" PROVE Pausing'
    BY DEF Pausing
  <2>1. /\ \A d \in Calls \ {c} : call[d].pc = "off"
        /\ \E k \in Runs : run[k].pc \in BeginPCs \cup AttemptPCs
        /\ call[c].pc = "off" /\ UNCHANGED <<run, inFlight>>
    BY <1>7 DEF Pause, PauseMoment, OutcomeOpen, CanCall
  <2>2. PICK k \in Runs : run[k].pc \in BeginPCs \cup AttemptPCs
    BY <2>1
  <2>3. inFlight /\ \A j \in Runs : run[j].pc \in CyclePCs => j = k
    BY <2>2, InFlightOwns, PcNames
  <2>4. aborted' = TRUE /\ pendingPause' = TRUE
    BY <1>7, <2>3 DEF Pause, Cancel
  <2>5. ASSUME NEW j \in Runs PROVE PauseFits(run[j])'
    <3>1. run[j].pc # "flipStopped"
      BY <2>3 DEF Counting, CountFits
    <3>2. run[j].pc \notin OutcomePCs \cup {"flipAborted"}
      BY <2>2, <2>3, PcNames
    <3>. QED BY <2>1, <2>4, <3>1, <3>2 DEF PauseFits
  <2>6. ASSUME NEW d \in Calls PROVE CallFits(call'[d])
    <3>1. CASE UNCHANGED call
      BY <2>1, <3>1
    <3>2. CASE Begin(c, "pause", "persist", Keep, [NoEntry EXCEPT !.state = "paused"], NoEntry)
      <4>1. PICK r : r = [op |-> "pause", pc |-> "persist", arg |-> Keep,
                          rec |-> [NoEntry EXCEPT !.state = "paused"], cur |-> NoEntry]
        OBVIOUS
      <4>2. call' = [call EXCEPT ![c] = r] /\ r.rec.state = "paused"
        BY <3>2, <4>1 DEF Begin, NoEntry
      <4>. QED BY <2>1, <4>2, CallFacts
    <3>. QED BY <1>7, <3>1, <3>2 DEF Pause
  <2>7. \E j \in Runs : run'[j].pc \in CyclePCs \cup {"markError", "attachError"}
    BY <2>1, <2>2, PcNames
  <2>. QED BY <2>5, <2>6, <2>7 DEF Pausing
<1>8. ASSUME NEW c \in Calls, Persists(c), intent = "early" PROVE Pausing'
  <2>1. snap.state \in Settled => snap'.state \in Settled
    <3>1. CASE UNCHANGED snap
      BY <3>1
    <3>2. CASE repo' = [repo EXCEPT !.state = call[c].rec.state] /\ snap' = repo'
      <4>1. snap'.state = call[c].rec.state /\ call[c].rec.state = "paused"
        BY <1>4, <1>8, <3>2, OwnTypes, EntryFacts DEF Persists
      <4>. QED BY <4>1 DEF Settled
    <3>. QED BY <1>8, <3>1, <3>2 DEF Persists
  <2>2. \A d \in Calls : CallFits(call'[d])
    BY <1>4, <1>8, CallFacts, Neutral DEF Persists, Return
  <2>. QED BY <1>3, <1>8, <2>1, <2>2 DEF Persists
<1>9. ASSUME NEW c \in Calls, Delete(c), intent = "early" PROVE Pausing'
  <2>1. CASE inFlight
    <3>1. PICK r : r = [op |-> "delete", pc |-> "waitDelete", arg |-> Keep,
                        rec |-> NoEntry, cur |-> NoEntry]
      OBVIOUS
    <3>2. call' = [call EXCEPT ![c] = r] /\ r.pc = "waitDelete"
      BY <1>9, <2>1, <3>1 DEF Delete, Begin
    <3>3. \A d \in Calls : CallFits(call'[d])
      BY <1>4, <1>9, <3>2, CallFacts
    <3>. QED BY <1>3, <1>9, <2>1, <3>3 DEF Delete, AskDelete, Cancel
  <2>2. CASE ~inFlight
    BY <1>3, <1>5, <1>6, <1>9, <2>2 DEF Delete
  <2>. QED BY <2>1, <2>2
<1>10. ASSUME Removes \/ Drifts, intent = "early" PROVE Pausing'
  <2>1. CASE Drifts \/ (~Exists(snap) /\ UNCHANGED <<repo, snap, lock, flags, call, run, intent>>)
    <3>1. UNCHANGED <<snap, lock, flags, call, run, intent>>
      BY <2>1 DEF Drifts
    <3>. QED BY <1>3, <1>4, <1>10, <3>1
  <2>2. CASE inFlight /\ AskDelete /\ UNCHANGED <<call, run, intent>>
    BY <1>3, <1>4, <1>10, <2>2 DEF AskDelete, Cancel
  <2>3. CASE ~inFlight /\ DeleteNow /\ UNCHANGED <<run, intent>>
    BY <1>3, <1>5, <1>6, <1>10, <2>3
  <2>. QED BY <1>10, <2>1, <2>2, <2>3 DEF Removes
<1>11. intent' # "early" => Pausing'
  BY DEF Pausing
<1>12. CASE intent' = "early" /\ \E c \in Calls : Resume(c) \/ Delete(c) \/ Persists(c)
  <2>1. intent = "early"
    BY <1>12 DEF Resume, Delete, Persists
  <2>. QED BY <1>8, <1>9, <1>12, <2>1 DEF Resume
<1>13. CASE intent' = "early" /\ (Removes \/ Drifts)
  BY <1>10, <1>13 DEF Removes, Drifts
<1>14. CASE \E k \in Runs : (\E e : Amounts(k, e)) /\ UNCHANGED intent
  BY <1>2, <1>11, <1>14
<1>15. CASE \E k \in Runs : \E e : Accepted(k, e)
  BY <1>11, <1>15 DEF Accepted
<1>. QED BY <1>7, <1>11, <1>12, <1>13, <1>14, <1>15 DEF PlainStep

----------------------------------------------------------------------------
(* The theorems of this level.                                             *)

LEMMA InitPlain == Init => PlainInv
<1>. SUFFICES ASSUME Init PROVE PlainInv
  OBVIOUS
<1>1. OwnInv
  <2>1. Captured /\ CycleOwnsSupervisor
    BY Neutral, LatePCs DEF Init, Captured, Stores, NoCall, CycleOwnsSupervisor, Late
  <2>. QED BY <2>1, InitTyped DEF OwnInv
<1>2. /\ \A k \in Runs : run[k] = NoRun /\ run[k].pc = "off"
      /\ \A c \in Calls : call[c] = NoCall /\ call[c].pc = "off"
  BY Neutral DEF Init
<1>3. snap = repo /\ repo.state = "idle" /\ repo.count = 0 /\ finalized = 0 /\ MaxCount \in Nat
  BY CycleAssumption DEF Init
<1>4. Calling /\ Recorded /\ Marked
  BY <1>2 DEF Calling, Recorded, RecordFits, Marked
<1>5. Entries /\ Clearing /\ Showing
  BY <1>2, <1>3, PcNames DEF Init, Entries, Clearing, Showing, Active, Exists
<1>6. Counting
  BY <1>2, <1>3, PcNames DEF Counting, CountFits
<1>7. Scheduling
  <2>1. fires = [t \in Times |-> 0] /\ repo.sched \in Times
    BY <1>1, OwnTypes DEF Init, Entry
  <2>. QED BY <1>2, <1>3, <2>1, PcNames, Neutral DEF Scheduling, ScheduleFits
<1>8. Pausing
  BY DEF Init, Pausing
<1>. QED BY <1>1, <1>4, <1>5, <1>6, <1>7, <1>8 DEF PlainInv

LEMMA StepPlainInv ==
  ASSUME Plain, PlainInv, [Next]_vars
  PROVE  PlainInv'
<1>1. PlainStep
  BY StepPlain DEF PlainInv
<1>2. OwnInv'
  BY StepOwn DEF PlainInv
<1>. QED
  BY <1>1, <1>2, StepCalling, StepRecorded, StepMarked, StepEntries, StepCounting,
     StepScheduling, StepClearing, StepShowing, StepPausing DEF PlainInv

\* The inductive invariant, while no update or restore writes back what it captured
\* and no file operation fails.
THEOREM PlainAlways == Plain => (Spec => []PlainInv)
<1>. SUFFICES ASSUME Plain PROVE Spec => []PlainInv
  OBVIOUS
<1>1. PlainInv /\ [Next]_vars => PlainInv'
  BY StepPlainInv
<1>. QED BY <1>1, InitPlain, PTL DEF Spec

\* An evaluation is shown only while one is in flight, and no request to stop is left
\* over to cancel the next one: all paths on which a cycle ends clear what they owe.
THEOREM NothingLeftBehind == Plain => (Spec => []NothingOutlivesCycle)
<1>. SUFFICES ASSUME Plain PROVE Spec => []NothingOutlivesCycle
  OBVIOUS
<1>1. PlainInv => NothingOutlivesCycle
  BY DEF PlainInv, Showing, Clearing, NothingOutlivesCycle
<1>2. Spec => []PlainInv
  BY PlainAlways
<1>. QED BY <1>1, <1>2, PTL

\* One schedule starts one cycle, whether the timer or the end of a turn notices it.
THEOREM SchedulesFireOnce == Plain => (Spec => []ScheduleFiresOnce)
<1>. SUFFICES ASSUME Plain PROVE Spec => []ScheduleFiresOnce
  OBVIOUS
<1>1. PlainInv => ScheduleFiresOnce
  BY DEF PlainInv, Scheduling, ScheduleFiresOnce
<1>2. Spec => []PlainInv
  BY PlainAlways
<1>. QED BY <1>1, <1>2, PTL

\* The count is the number of outcomes that were saved, in the repository and in the
\* snapshot, and evaluations that overlap the cap do not pass it.
THEOREM CountIsExact == Plain => (Spec => []CountExact)
<1>. SUFFICES ASSUME Plain PROVE Spec => []CountExact
  OBVIOUS
<1>1. PlainInv => CountExact
  <2>. SUFFICES ASSUME PlainInv PROVE CountExact
    OBVIOUS
  <2>1. repo \in Entry /\ finalized \in Nat /\ MaxCount \in Nat
    BY OwnTypes, CycleAssumption DEF PlainInv
  <2>2. Exists(repo) => repo.count = finalized
    BY DEF PlainInv, Counting
  <2>3. Quiet /\ Exists(repo) => snap.count = finalized
    <3>1. Quiet => \A k \in Runs : run[k].pc # "attachFinal"
      BY DEF Quiet
    <3>. QED BY <3>1 DEF PlainInv, Counting, Entries
  <2>4. MaxCount > 0 => repo.count <= MaxCount
    <3>1. ~Exists(repo) => repo.count = 0
      BY DEF PlainInv, Entries, NoEntry
    <3>. QED BY <2>1, <2>2, <3>1 DEF PlainInv, Counting
  <2>. QED BY <2>2, <2>3, <2>4 DEF CountExact
<1>2. Spec => []PlainInv
  BY PlainAlways
<1>. QED BY <1>1, <1>2, PTL

\* A pause accepted before the outcome of an evaluation is being saved leaves the
\* supervisor paused (or in error, or deleted) once everything has returned.
THEOREM EarlyPausesHold == Plain => (Spec => []PauseHoldsBeforeOutcome)
<1>. SUFFICES ASSUME Plain PROVE Spec => []PauseHoldsBeforeOutcome
  OBVIOUS
<1>1. PlainInv => PauseHoldsBeforeOutcome
  BY PcNames DEF PlainInv, Pausing, PauseHoldsBeforeOutcome, Settled, Quiet
<1>2. Spec => []PlainInv
  BY PlainAlways
<1>. QED BY <1>1, <1>2, PTL
=============================================================================
