---- MODULE SessionTurns ----
(***************************************************************************)
(* The turns of one agent session: session/manager.ts derives the state of *)
(* the session, and the turn_completed event that wakes its supervisor,    *)
(* from three things that race on the server's event loop: input written   *)
(* by the user or the supervisor, output of the agent's pty, and two       *)
(* timers (the debounce of session/pty-state-detector.ts and the window in *)
(* which output that may be a repaint of the input line is collected).     *)
(*                                                                         *)
(* A handler runs to its end without an await, so each is one action.  The *)
(* session is a record r; the helpers below take the record a function of  *)
(* the code finds and give the record it leaves, and an action composes    *)
(* them in the order of the calls.                                         *)
(***************************************************************************)
EXTENDS Integers

CONSTANTS
    MaxInputs,      \* bound: inputs written to the session
    MaxChunks       \* bound: chunks of output the agent prints

ASSUME TurnsAssumption == MaxInputs \in Nat /\ MaxChunks \in Nat

\* What a caller of sendInput says about the bytes.  "control" is "typing" here:
\* it differs in what counts as output, which is open anyway.
Submits == {"submit", "internal_submit"}
Activities == Submits \cup {"typing", "system"}

VARIABLES
    r,          \* the session: see Session
    inputs,     \* number of inputs written (for the bound)
    chunks,     \* number of chunks printed (for the bound)
    owed,       \* history: a submitted input was written and its turn has not completed
    answered,   \* history: visible output came since the last submitted input
    collected   \* history: the session runs because collected output said so

vars == <<r, inputs, chunks, owed, answered, collected>>

\* state        the state clients and the supervisor see
\* awaiting     awaitingTurnCompletion
\* saw          sawOutputSinceTurnStart
\* lately       recentInputEchoes: a submit in the last 3 s, another input in the last 200 ms
\* pending      pendingResumeAggregation, with its timer of 75 ms
\* detector     what the pty alone suggests; the comparator holds the same
\* debounce     the timer of the detector, 3 or 4 s
\* turns        turn_completed events emitted
Session == [state : {"starting", "running", "idle", "ended"},
            awaiting : BOOLEAN, saw : BOOLEAN,
            lately : SUBSET {"submit", "other"},
            pending : BOOLEAN,
            detector : {"none", "running", "idle"},
            debounce : BOOLEAN,
            turns : Nat]

----------------------------------------------------------------------------
\* The functions of the manager and of the detector.

Resumed(s) == IF s.state = "running" THEN s ELSE [s EXCEPT !.state = "running"]

\* MUTANT of MayIdle: any running session becomes idle, echo or not.
MayIdleUnseen(s) == s.state \in {"starting", "running"}

\* transitionSessionToIdle: a running session needs visible output since its turn began.
MayIdle(s) == s.state = "starting" \/ (s.state = "running" /\ s.saw)

\* The turn_completed event is for an armed turn that was running.
Completed(s) == IF s.state = "running" /\ s.awaiting THEN 1 ELSE 0

ToIdle(s) ==
    IF MayIdle(s)
    THEN [s EXCEPT !.state = "idle", !.pending = FALSE, !.awaiting = FALSE, !.saw = FALSE,
                   !.turns = @ + Completed(s)]
    ELSE [s EXCEPT !.pending = FALSE]

\* MUTANT of DetectorIdle: the prompt does not stop the debounce timer.
DetectorIdleTicking(s) ==
    LET quiet == [s EXCEPT !.detector = "idle"]
    IN  IF s.detector # "idle" /\ s.state \in {"starting", "running"} THEN ToIdle(quiet) ELSE quiet

\* onStateChange("idle") of the detector.
DetectorIdle(s) ==
    LET quiet == [s EXCEPT !.detector = "idle", !.debounce = FALSE]
    IN  IF s.detector # "idle" /\ s.state \in {"starting", "running"} THEN ToIdle(quiet) ELSE quiet

\* detector.feed: a chunk that ends in the provider's prompt is idle at once.
Feed(s, prompt) ==
    LET fed == [s EXCEPT !.detector = "running", !.debounce = TRUE]
    IN  IF prompt THEN DetectorIdle(fed) ELSE fed

\* Output that counts (neither echo nor repaint), then maybeResumeRunningFromOutput.
Counted(s) ==
    LET seen == [s EXCEPT !.saw = TRUE]
    IN  IF s.state \in {"starting", "idle"} /\ (s.awaiting \/ "submit" \in s.lately)
        THEN Resumed(seen)
        ELSE seen

Assessed(s, counts) == IF counts THEN Counted(s) ELSE s

\* MUTANT of Printed: the detector is fed before the output is assessed.
PrintedFedFirst(s, counts, prompt) == Assessed(Feed(s, prompt), counts)

\* The handler of terminal.output when nothing is collected.
Printed(s, counts, prompt) == Feed(Assessed(s, counts), prompt)

\* flushPendingResumeAggregation.
Flushed(s, counts) ==
    LET cleared == [s EXCEPT !.pending = FALSE]
    IN  IF s.state = "idle" THEN Assessed(cleared, counts) ELSE cleared

\* armTurnCompletionBeforeWrite.
Armed(s, activity) ==
    IF activity \in Submits THEN [s EXCEPT !.awaiting = TRUE, !.saw = FALSE] ELSE s

\* recordRecentInputBeforeWrite.
Remembered(s, activity) ==
    CASE activity \in Submits -> [s EXCEPT !.lately = @ \cup {"submit"}]
      [] activity = "typing"  -> [s EXCEPT !.lately = @ \cup {"other"}]
      [] OTHER -> s

\* applyTerminalInputActivity: "submit" resumes from starting and idle, the
\* supervisor's "internal_submit" from whatever is not running.
Applied(s, activity) ==
    CASE activity = "internal_submit" -> Resumed(s)
      [] activity = "submit" /\ s.state \in {"starting", "idle"} -> Resumed(s)
      [] OTHER -> s

\* flushPendingPtyIdle.
IdleIfQuiet(s) == IF s.detector = "idle" THEN ToIdle(s) ELSE s

Sent(s, activity) == IdleIfQuiet(Applied(Remembered(Armed(s, activity), activity), activity))

\* MUTANT of Refused: the write failed and the turn stays armed.
RefusedArmed(s, activity) == Armed(s, activity)

\* sendInput when the write throws: what was armed and recorded is put back.
Refused(s, activity) ==
    [Armed(s, activity) EXCEPT !.awaiting = s.awaiting, !.saw = s.saw]

\* finishSession: the collected output, the detector and its timer go.
Finished(s) ==
    [s EXCEPT !.state = "ended", !.pending = FALSE, !.detector = "none", !.debounce = FALSE]

----------------------------------------------------------------------------
Init ==
    /\ r = [state |-> "starting", awaiting |-> FALSE, saw |-> FALSE, lately |-> {},
            pending |-> FALSE, detector |-> "none", debounce |-> FALSE, turns |-> 0]
    /\ inputs = 0
    /\ chunks = 0
    /\ owed = FALSE
    /\ answered = FALSE
    /\ collected = FALSE

Live == r.state # "ended"

\* The history after a step that leaves the session s.
Observe(s, written, visible) ==
    /\ owed' = IF s.turns > r.turns THEN FALSE ELSE owed \/ written
    /\ answered' = IF written THEN FALSE ELSE answered \/ visible

\* sendInput, called by terminal.input for the user and by the injector for
\* the supervisor.
SendInput(activity) ==
    /\ Live
    /\ inputs < MaxInputs
    /\ inputs' = inputs + 1
    /\ r' = Sent(r, activity)
    /\ collected' = (collected /\ r'.state = "running" /\ activity \notin Submits)
    /\ Observe(r', activity \in Submits, FALSE)
    /\ UNCHANGED chunks

\* The write throws: the pty is gone or going.
SendInputFails(activity) ==
    /\ inputs < MaxInputs
    /\ inputs' = inputs + 1
    /\ r' = Refused(r, activity)
    /\ UNCHANGED <<chunks, owed, answered, collected>>

\* A chunk while nothing is collected.
Output(counts, prompt) ==
    /\ Live
    /\ chunks < MaxChunks
    /\ ~r.pending \/ r.state # "idle"
    /\ chunks' = chunks + 1
    /\ r' = Printed([r EXCEPT !.pending = FALSE], counts, prompt)
    /\ collected' = (collected /\ r'.state = "running")
    /\ Observe(r', FALSE, counts)
    /\ UNCHANGED inputs

\* A chunk that may repaint the input line of an idle session is kept back.
OutputCollected(prompt) ==
    /\ Live
    /\ chunks < MaxChunks
    /\ r.state = "idle" /\ ~r.pending /\ "other" \in r.lately
    /\ chunks' = chunks + 1
    /\ r' = Feed([r EXCEPT !.pending = TRUE], prompt)
    /\ UNCHANGED <<inputs, owed, answered, collected>>

\* A further chunk while output is kept back, which may end the wait at once
\* (a second line, 4096 bytes).
OutputAppended(enough, counts, prompt) ==
    /\ Live
    /\ chunks < MaxChunks
    /\ r.pending /\ r.state = "idle"
    /\ chunks' = chunks + 1
    /\ r' = Feed(IF enough THEN Flushed(r, counts) ELSE r, prompt)
    /\ collected' = (enough /\ r'.state = "running")
    /\ Observe(r', FALSE, enough /\ counts)
    /\ UNCHANGED inputs

\* The 75 ms are over.
WindowCloses(counts) ==
    /\ r.pending
    /\ r' = Flushed(r, counts)
    /\ collected' = (r'.state = "running" /\ (collected \/ r.state # "running"))
    /\ Observe(r', FALSE, counts /\ r.state = "idle")
    /\ UNCHANGED <<inputs, chunks>>

\* The debounce of the detector.  It was set no earlier than the 75 ms window
\* and is longer, so it never fires while output is kept back.
DebounceFires ==
    /\ r.debounce
    /\ ~r.pending
    /\ r' = DetectorIdle(r)
    /\ collected' = (collected /\ r'.state = "running")
    /\ Observe(r', FALSE, FALSE)
    /\ UNCHANGED <<inputs, chunks>>

\* Three seconds, or 200 ms, after an input.
Forget(input) ==
    /\ input \in r.lately
    /\ r' = [r EXCEPT !.lately = @ \ {input}]
    /\ UNCHANGED <<inputs, chunks, owed, answered, collected>>

\* terminal.exited, whatever made the pty exit.
Exit ==
    /\ Live
    /\ r' = Finished(r)
    /\ collected' = FALSE
    /\ UNCHANGED <<inputs, chunks, owed, answered>>

Next ==
    \/ \E activity \in Activities : SendInput(activity) \/ SendInputFails(activity)
    \/ \E counts, prompt \in BOOLEAN : Output(counts, prompt)
    \/ \E prompt \in BOOLEAN : OutputCollected(prompt)
    \/ \E enough, counts, prompt \in BOOLEAN : OutputAppended(enough, counts, prompt)
    \/ \E counts \in BOOLEAN : WindowCloses(counts)
    \/ \E input \in {"submit", "other"} : Forget(input)
    \/ DebounceFires
    \/ Exit

\* The timers of Node fire; nobody has to type, print or exit.
Fairness ==
    /\ WF_vars(\E counts \in BOOLEAN : WindowCloses(counts))
    /\ WF_vars(DebounceFires)

Spec == Init /\ [][Next]_vars /\ Fairness

----------------------------------------------------------------------------
\* The fields keep their values, and the detector's timer runs exactly while
\* the detector believes the pty is busy.
TypeOK ==
    /\ r \in Session
    /\ r.debounce <=> r.detector = "running"
    /\ inputs \in Nat /\ chunks \in Nat
    /\ owed \in BOOLEAN /\ answered \in BOOLEAN /\ collected \in BOOLEAN

\* A live session waits for a turn to complete exactly when an input was
\* submitted, really reached the pty, and has not been reported as completed:
\* no report is lost and none is left over from a write that failed.
AwaitedIsOwed == Live => (r.awaiting <=> owed)

\* The supervisor is woken once per submitted input at most, and only after
\* the agent showed something since the last one: never by the echo, never
\* by the quiet before the answer.
TurnAnswered == [][r'.turns # r.turns => r'.turns = r.turns + 1 /\ owed /\ answered']_vars

\* No running session whose answer was seen is overlooked by the detector:
\* when the pty is quiet such a session is idle already.  The exception is a
\* session resumed by output that was kept back, after the detector had
\* matched the prompt: nothing but the next input or output ends it.
QuietIsIdle == r.detector = "idle" /\ r.state = "running" /\ r.saw => collected

\* A turn whose answer was seen is reported, unless the session ends first or
\* another input is submitted, with which the wait for an answer starts again.
TurnsComplete == (owed /\ answered) ~> (~owed \/ ~Live \/ ~answered)
====
