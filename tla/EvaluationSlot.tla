--------------------------- MODULE EvaluationSlot ---------------------------
(***************************************************************************)
(* What the supervisor manager promises about evaluations: one at a time,  *)
(* each may be cancelled, writes to the session at most once and never     *)
(* after it was cancelled, and ends.  SupervisorCycle implements this.     *)
(***************************************************************************)
EXTENDS Naturals

CONSTANT Evaluations

VARIABLES
  holders,     \* the evaluations in flight
  cancelled,   \* the one in flight was asked to stop
  writes       \* what the latest one has written to the session

slotVars == <<holders, cancelled, writes>>

Init == holders = {} /\ cancelled = FALSE /\ writes = 0

Acquire(e) ==
  /\ holders = {}
  /\ holders' = {e} /\ cancelled' = FALSE /\ writes' = 0

Cancel == holders # {} /\ cancelled' = TRUE /\ UNCHANGED <<holders, writes>>

Write ==
  /\ holders # {} /\ ~cancelled /\ writes = 0
  /\ writes' = 1
  /\ UNCHANGED <<holders, cancelled>>

Release ==
  /\ holders # {}
  /\ holders' = {} /\ cancelled' = FALSE
  /\ UNCHANGED writes

Next == (\E e \in Evaluations : Acquire(e)) \/ Cancel \/ Write \/ Release

Spec == Init /\ [][Next]_slotVars
FairSpec == Spec /\ WF_slotVars(Release)

\* The slot never has two holders, and whoever holds it wrote at most once.
SlotSafe ==
  /\ \A e, f \in holders : e = f
  /\ writes <= 1
=============================================================================
