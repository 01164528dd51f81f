---- MODULE SessionTurns_proofs ----
(***************************************************************************)
(* Proofs about the turns of a session (SessionTurns.tla), for any number  *)
(* of inputs and chunks.                                                   *)
(*                                                                         *)
(* The inductive invariant adds to the three invariants of the run that an *)
(* awaited turn is running, and that output counted since the turn began   *)
(* is output counted since the last submitted input.  One lemma per helper *)
(* says which fields it changes; the steps combine them.                   *)
(***************************************************************************)
EXTENDS SessionTurns, TLAPS

Turn ==
    Live => /\ r.awaiting <=> owed
            /\ r.awaiting => r.state = "running"
            /\ r.saw => answered

IInv == TypeOK /\ Turn /\ QuietIsIdle

\* The fields of two sessions that say where the turn stands are the same.
SameTurn(s, t) ==
    t.state = s.state /\ t.awaiting = s.awaiting /\ t.saw = s.saw /\ t.turns = s.turns

\* The session t is s after its turn was closed.
Closed(s, t) ==
    t.state = "idle" /\ t.awaiting = FALSE /\ t.saw = FALSE /\ t.turns = s.turns + Completed(s)

----------------------------------------------------------------------------
LEMMA CompletedCounts == ASSUME NEW s PROVE Completed(s) \in {0, 1}
    BY DEF Completed

LEMMA ToIdleType ==
    ASSUME NEW s \in Session
    PROVE  /\ ToIdle(s) \in Session
           /\ ToIdle(s).debounce = s.debounce
           /\ ToIdle(s).detector = s.detector
<1>1. CASE MayIdle(s)
  <2> DEFINE done == s.turns + Completed(s)
             closed == [s EXCEPT !.state = "idle", !.pending = FALSE, !.awaiting = FALSE,
                                 !.saw = FALSE, !.turns = done]
  <2>1. done \in Nat
      BY CompletedCounts DEF Session
  <2>2. ToIdle(s) = closed
      BY <1>1 DEF ToIdle
  <2> HIDE DEF done
  <2>3. closed \in Session /\ closed.debounce = s.debounce /\ closed.detector = s.detector
      BY <2>1 DEF Session
  <2> QED BY <2>2, <2>3
<1>2. CASE ~MayIdle(s)
    BY <1>2 DEF Session, ToIdle
<1> QED BY <1>1, <1>2

LEMMA ToIdleTurn ==
    ASSUME NEW s \in Session
    PROVE  /\ MayIdle(s) => Closed(s, ToIdle(s))
           /\ ~MayIdle(s) => SameTurn(s, ToIdle(s))
<1>1. ASSUME MayIdle(s) PROVE Closed(s, ToIdle(s))
    BY <1>1, CompletedCounts DEF Session, ToIdle, Closed
<1>2. ASSUME ~MayIdle(s) PROVE SameTurn(s, ToIdle(s))
    BY <1>2 DEF Session, ToIdle, SameTurn
<1> QED BY <1>1, <1>2

\* The detector's verdict closes the turn of a session that may become idle.
LEMMA DetectorIdleEffect ==
    ASSUME NEW s \in Session
    PROVE  /\ DetectorIdle(s) \in Session
           /\ DetectorIdle(s).debounce = FALSE
           /\ DetectorIdle(s).detector = "idle"
           /\ s.detector # "idle" /\ MayIdle(s) => Closed(s, DetectorIdle(s))
           /\ ~(s.detector # "idle" /\ MayIdle(s)) => SameTurn(s, DetectorIdle(s))
<1> DEFINE quiet == [s EXCEPT !.detector = "idle", !.debounce = FALSE]
<1>1. /\ quiet \in Session
      /\ quiet.debounce = FALSE
      /\ quiet.detector = "idle"
      /\ SameTurn(s, quiet)
    BY DEF Session, SameTurn
<1>2. MayIdle(quiet) <=> MayIdle(s)
    BY <1>1 DEF MayIdle, SameTurn
<1>3. Completed(quiet) = Completed(s)
    BY <1>1 DEF Completed, SameTurn
<1>4. MayIdle(s) => s.state \in {"starting", "running"}
    BY DEF MayIdle
<1> HIDE DEF quiet
<1>5. CASE s.detector # "idle" /\ s.state \in {"starting", "running"}
  <2>1. DetectorIdle(s) = ToIdle(quiet)
      BY <1>5 DEF DetectorIdle, quiet
  <2>2. /\ ToIdle(quiet) \in Session
        /\ ToIdle(quiet).debounce = FALSE
        /\ ToIdle(quiet).detector = "idle"
      BY <1>1, ToIdleType
  <2>3. MayIdle(s) => Closed(s, ToIdle(quiet))
      BY <1>1, <1>2, <1>3, ToIdleTurn DEF Closed, SameTurn
  <2>4. ~MayIdle(s) => SameTurn(s, ToIdle(quiet))
      BY <1>1, <1>2, ToIdleTurn DEF SameTurn
  <2> QED BY <1>5, <2>1, <2>2, <2>3, <2>4
<1>6. CASE ~(s.detector # "idle" /\ s.state \in {"starting", "running"})
  <2>1. DetectorIdle(s) = quiet
      BY <1>6 DEF DetectorIdle, quiet
  <2> QED BY <1>1, <1>4, <1>6, <2>1
<1> QED BY <1>5, <1>6

\* A chunk restarts the debounce, or closes the turn with the prompt.
LEMMA FeedEffect ==
    ASSUME NEW s \in Session, NEW prompt \in BOOLEAN
    PROVE  /\ Feed(s, prompt) \in Session
           /\ Feed(s, prompt).debounce <=> Feed(s, prompt).detector = "running"
           /\ prompt /\ MayIdle(s) => Closed(s, Feed(s, prompt))
           /\ ~(prompt /\ MayIdle(s)) => SameTurn(s, Feed(s, prompt))
           /\ ~prompt => Feed(s, prompt).detector = "running"
<1> DEFINE fed == [s EXCEPT !.detector = "running", !.debounce = TRUE]
<1>1. /\ fed \in Session
      /\ fed.debounce = TRUE
      /\ fed.detector = "running"
      /\ SameTurn(s, fed)
    BY DEF Session, SameTurn
<1>2. (MayIdle(fed) <=> MayIdle(s)) /\ Completed(fed) = Completed(s)
    BY <1>1 DEF MayIdle, Completed, SameTurn
<1> HIDE DEF fed
<1>3. CASE prompt
  <2>1. Feed(s, prompt) = DetectorIdle(fed)
      BY <1>3 DEF Feed, fed
  <2>2. /\ DetectorIdle(fed) \in Session
        /\ DetectorIdle(fed).debounce = FALSE
        /\ DetectorIdle(fed).detector = "idle"
      BY <1>1, DetectorIdleEffect
  <2>3. MayIdle(s) => Closed(s, DetectorIdle(fed))
      BY <1>1, <1>2, DetectorIdleEffect DEF Closed, SameTurn
  <2>4. ~MayIdle(s) => SameTurn(s, DetectorIdle(fed))
      BY <1>1, <1>2, DetectorIdleEffect DEF SameTurn
  <2> QED BY <1>3, <2>1, <2>2, <2>3, <2>4
<1>4. CASE ~prompt
  <2>1. Feed(s, prompt) = fed
      BY <1>4 DEF Feed, fed
  <2> QED BY <1>1, <1>4, <2>1
<1> QED BY <1>3, <1>4

\* Output that counts is seen, and may resume the session; nothing else moves.
LEMMA AssessedEffect ==
    ASSUME NEW s \in Session, NEW counts \in BOOLEAN
    PROVE  /\ Assessed(s, counts) \in Session
           /\ Assessed(s, counts).awaiting = s.awaiting
           /\ Assessed(s, counts).turns = s.turns
           /\ Assessed(s, counts).debounce = s.debounce
           /\ Assessed(s, counts).detector = s.detector
           /\ counts => Assessed(s, counts).saw = TRUE
           /\ ~counts => Assessed(s, counts).saw = s.saw
           /\ \/ Assessed(s, counts).state = s.state
              \/ s.state \in {"starting", "idle"} /\ Assessed(s, counts).state = "running"
<1> DEFINE seen == [s EXCEPT !.saw = TRUE]
<1>1. /\ seen \in Session /\ seen.saw = TRUE /\ seen.awaiting = s.awaiting /\ seen.turns = s.turns
      /\ seen.debounce = s.debounce /\ seen.detector = s.detector /\ seen.state = s.state
    BY DEF Session
<1> HIDE DEF seen
<1>2. /\ Resumed(seen) \in Session /\ Resumed(seen).saw = TRUE
      /\ Resumed(seen).awaiting = s.awaiting /\ Resumed(seen).turns = s.turns
      /\ Resumed(seen).debounce = s.debounce /\ Resumed(seen).detector = s.detector
      /\ Resumed(seen).state = "running"
    BY <1>1 DEF Resumed, Session
<1>3. CASE ~counts
    BY <1>3 DEF Assessed
<1>4. CASE counts /\ s.state \in {"starting", "idle"} /\ (s.awaiting \/ "submit" \in s.lately)
  <2>1. Assessed(s, counts) = Resumed(seen)
      BY <1>4 DEF Assessed, Counted, seen
  <2> QED BY <1>2, <1>4, <2>1
<1>5. CASE counts /\ ~(s.state \in {"starting", "idle"} /\ (s.awaiting \/ "submit" \in s.lately))
  <2>1. Assessed(s, counts) = seen
      BY <1>5 DEF Assessed, Counted, seen
  <2> QED BY <1>1, <1>5, <2>1
<1> QED BY <1>3, <1>4, <1>5

\* Collected output is judged like a chunk, and only in an idle session.
LEMMA FlushedEffect ==
    ASSUME NEW s \in Session, NEW counts \in BOOLEAN
    PROVE  /\ Flushed(s, counts) \in Session
           /\ Flushed(s, counts).awaiting = s.awaiting
           /\ Flushed(s, counts).turns = s.turns
           /\ Flushed(s, counts).debounce = s.debounce
           /\ Flushed(s, counts).detector = s.detector
           /\ Flushed(s, counts).saw = s.saw \/ (counts /\ s.state = "idle")
           /\ \/ Flushed(s, counts).state = s.state
              \/ s.state = "idle" /\ Flushed(s, counts).state = "running"
<1> DEFINE cleared == [s EXCEPT !.pending = FALSE]
<1>1. /\ cleared \in Session /\ SameTurn(s, cleared)
      /\ cleared.debounce = s.debounce /\ cleared.detector = s.detector
    BY DEF Session, SameTurn
<1> HIDE DEF cleared
<1>2. CASE s.state = "idle"
  <2>1. Flushed(s, counts) = Assessed(cleared, counts)
      BY <1>2 DEF Flushed, cleared
  <2>2. /\ Assessed(cleared, counts) \in Session
        /\ Assessed(cleared, counts).awaiting = s.awaiting
        /\ Assessed(cleared, counts).turns = s.turns
        /\ Assessed(cleared, counts).debounce = s.debounce
        /\ Assessed(cleared, counts).detector = s.detector
    <3>1. cleared.awaiting = s.awaiting /\ cleared.turns = s.turns
        BY <1>1 DEF SameTurn
    <3>2. /\ Assessed(cleared, counts) \in Session
          /\ Assessed(cleared, counts).awaiting = cleared.awaiting
          /\ Assessed(cleared, counts).turns = cleared.turns
          /\ Assessed(cleared, counts).debounce = cleared.debounce
          /\ Assessed(cleared, counts).detector = cleared.detector
        BY <1>1, AssessedEffect
    <3> QED BY <1>1, <3>1, <3>2
  <2>3. \/ Assessed(cleared, counts).saw = s.saw
        \/ counts /\ Assessed(cleared, counts).saw = TRUE
      BY <1>1, AssessedEffect DEF SameTurn
  <2>4. \/ Assessed(cleared, counts).state = s.state
        \/ Assessed(cleared, counts).state = "running"
      BY <1>1, AssessedEffect DEF SameTurn
  <2> QED BY <1>2, <2>1, <2>2, <2>3, <2>4
<1>3. CASE s.state # "idle"
  <2>1. Flushed(s, counts) = cleared
      BY <1>3 DEF Flushed, cleared
  <2> QED BY <1>1, <1>3, <2>1 DEF SameTurn
<1> QED BY <1>2, <1>3

\* Writing an input: a submitted one starts a turn with nothing seen, and in a
\* quiet session no turn whose answer was seen stays open.
LEMMA SentEffect ==
    ASSUME NEW s \in Session, NEW activity \in Activities, s.state # "ended",
           s.awaiting => s.state = "running"
    PROVE  /\ Sent(s, activity) \in Session
           /\ Sent(s, activity).debounce = s.debounce
           /\ Sent(s, activity).detector = s.detector
           /\ activity \in Submits =>
                /\ Sent(s, activity).state = "running"
                /\ Sent(s, activity).awaiting = TRUE
                /\ Sent(s, activity).saw = FALSE
                /\ Sent(s, activity).turns = s.turns
           /\ activity \notin Submits =>
                \/ SameTurn(s, Sent(s, activity)) /\ ~(s.detector = "idle" /\ MayIdle(s))
                \/ Closed(s, Sent(s, activity)) /\ MayIdle(s)
<1> DEFINE armed == Armed(s, activity)
           heard == Remembered(armed, activity)
           applied == Applied(heard, activity)
<1>1. CASE activity \in Submits
  <2>1. /\ armed \in Session /\ armed.awaiting = TRUE /\ armed.saw = FALSE
        /\ armed.state = s.state /\ armed.turns = s.turns
        /\ armed.debounce = s.debounce /\ armed.detector = s.detector
      BY <1>1 DEF Armed, Session
  <2> HIDE DEF armed
  <2>2. /\ heard \in Session /\ SameTurn(armed, heard)
        /\ heard.debounce = s.debounce /\ heard.detector = s.detector
      BY <1>1, <2>1 DEF Remembered, Session, SameTurn
  <2> HIDE DEF heard
  <2>3. heard.state \in {"starting", "running", "idle"}
      BY <2>1, <2>2 DEF SameTurn, Session
  <2>4. applied = Resumed(heard) \/ (applied = heard /\ heard.state = "running")
      BY <1>1, <2>3 DEF Applied, Submits
  <2>5. /\ Resumed(heard) \in Session /\ Resumed(heard).state = "running"
        /\ Resumed(heard).awaiting = heard.awaiting /\ Resumed(heard).saw = heard.saw
        /\ Resumed(heard).turns = heard.turns
        /\ Resumed(heard).debounce = s.debounce /\ Resumed(heard).detector = s.detector
      BY <2>2 DEF Resumed, Session
  <2>6. /\ applied \in Session /\ applied.state = "running"
        /\ applied.awaiting = TRUE /\ applied.saw = FALSE /\ applied.turns = s.turns
        /\ applied.debounce = s.debounce /\ applied.detector = s.detector
      BY <2>1, <2>2, <2>4, <2>5 DEF SameTurn
  <2> HIDE DEF applied
  <2>7. ~MayIdle(applied)
      BY <2>6 DEF MayIdle
  <2>8. /\ ToIdle(applied) \in Session /\ SameTurn(applied, ToIdle(applied))
        /\ ToIdle(applied).debounce = s.debounce /\ ToIdle(applied).detector = s.detector
      BY <2>6, <2>7, ToIdleType, ToIdleTurn
  <2>9. Sent(s, activity) = IdleIfQuiet(applied)
      BY DEF Sent, applied, heard, armed
  <2>10. Sent(s, activity) \in {applied, ToIdle(applied)}
      BY <2>9 DEF IdleIfQuiet
  <2> QED BY <1>1, <2>6, <2>8, <2>10 DEF SameTurn
<1>2. CASE activity \notin Submits
  <2>1. armed = s
      BY <1>2 DEF Armed
  <2>2. /\ heard \in Session /\ SameTurn(s, heard)
        /\ heard.debounce = s.debounce /\ heard.detector = s.detector
      BY <1>2, <2>1 DEF Remembered, Session, SameTurn
  <2>3. applied = heard
      BY <1>2 DEF Applied, Submits
  <2>4. Sent(s, activity) = IdleIfQuiet(heard)
      BY <2>3 DEF Sent
  <2> HIDE DEF armed, heard, applied
  <2>5. (MayIdle(heard) <=> MayIdle(s)) /\ Completed(heard) = Completed(s)
      BY <2>2 DEF MayIdle, Completed, SameTurn
  <2>6. /\ ToIdle(heard) \in Session
        /\ ToIdle(heard).debounce = s.debounce /\ ToIdle(heard).detector = s.detector
      BY <2>2, ToIdleType
  <2>7. MayIdle(s) => Closed(s, ToIdle(heard))
      BY <2>2, <2>5, ToIdleTurn DEF Closed, SameTurn
  <2>8. ~MayIdle(s) => SameTurn(s, ToIdle(heard))
      BY <2>2, <2>5, ToIdleTurn DEF SameTurn
  <2>9. CASE s.detector = "idle"
    <3>1. Sent(s, activity) = ToIdle(heard)
        BY <2>2, <2>4, <2>9 DEF IdleIfQuiet
    <3> QED BY <1>2, <2>6, <2>7, <2>8, <3>1
  <2>10. CASE s.detector # "idle"
    <3>1. Sent(s, activity) = heard
        BY <2>2, <2>4, <2>10 DEF IdleIfQuiet
    <3> QED BY <1>2, <2>2, <2>10, <3>1
  <2> QED BY <2>9, <2>10
<1> QED BY <1>1, <1>2

\* A refused input leaves the turn as it was.
LEMMA RefusedEffect ==
    ASSUME NEW s \in Session, NEW activity \in Activities
    PROVE  Refused(s, activity) = s
<1>1. CASE activity \in Submits
    BY <1>1 DEF Refused, Armed, Session
<1>2. CASE activity \notin Submits
    BY <1>2 DEF Refused, Armed, Session
<1> QED BY <1>1, <1>2

----------------------------------------------------------------------------
\* The initial state, and one lemma per action; TurnAnswered goes with them.
Answers == r'.turns # r.turns => r'.turns = r.turns + 1 /\ owed /\ answered'

LEMMA InitInv == Init => IInv
<1> SUFFICES ASSUME Init PROVE IInv
    OBVIOUS
<1>1. r \in Session
    BY DEF Init, Session
<1>2. r.awaiting = FALSE /\ r.saw = FALSE /\ r.detector = "none" /\ r.debounce = FALSE
    BY DEF Init
<1>3. inputs \in Nat /\ chunks \in Nat
    BY DEF Init
<1>4. owed = FALSE /\ answered = FALSE /\ collected = FALSE
    BY DEF Init
<1> QED BY <1>1, <1>2, <1>3, <1>4 DEF IInv, TypeOK, Turn, QuietIsIdle

\* The history is boolean, forgets a reported turn and keeps an open one.
LEMMA ObserveEffect ==
    ASSUME NEW s, NEW written \in BOOLEAN, NEW visible \in BOOLEAN,
           owed \in BOOLEAN, answered \in BOOLEAN, Observe(s, written, visible)
    PROVE  /\ owed' \in BOOLEAN /\ answered' \in BOOLEAN
           /\ s.turns > r.turns => ~owed'
           /\ ~(s.turns > r.turns) => (owed' <=> owed \/ written)
           /\ written => ~answered'
           /\ ~written => (answered' <=> answered \/ visible)
<1>1. CASE s.turns > r.turns
  <2>1. owed' = FALSE
      BY <1>1 DEF Observe
  <2>2. answered' = IF written THEN FALSE ELSE answered \/ visible
      BY DEF Observe
  <2> QED BY <1>1, <2>1, <2>2
<1>2. CASE ~(s.turns > r.turns)
  <2>1. owed' = (owed \/ written)
      BY <1>2 DEF Observe
  <2>2. answered' = IF written THEN FALSE ELSE answered \/ visible
      BY DEF Observe
  <2> QED BY <1>2, <2>1, <2>2
<1> QED BY <1>1, <1>2

\* A step that first leaves the session t, with the same turn but perhaps
\* resumed and with more seen, and then either stops there or closes the turn:
\* an armed turn is reported and was answered, any other is closed silently.
LEMMA TurnStep ==
    ASSUME TypeOK, Turn, Live, TypeOK', NEW t,
           t.awaiting = r.awaiting, t.turns = r.turns,
           t.awaiting => t.state = "running",
           t.saw => answered',
           r'.turns > r.turns => ~owed',
           ~(r'.turns > r.turns) => (owed' <=> owed),
           \/ SameTurn(t, r') /\ (r'.detector = "idle" /\ r'.state = "running" /\ r'.saw => collected')
           \/ Closed(t, r') /\ MayIdle(t)
    PROVE  IInv' /\ Answers
<1>1. r.turns \in Nat /\ (r.awaiting <=> owed)
    BY DEF TypeOK, Session, Turn
<1>2. CASE SameTurn(t, r') /\ (r'.detector = "idle" /\ r'.state = "running" /\ r'.saw => collected')
  <2>1. r'.turns = r.turns
      BY <1>2 DEF SameTurn
  <2>2. owed' <=> owed
      BY <1>1, <2>1
  <2>3. Answers
      BY <2>1 DEF Answers
  <2>4. Turn' /\ QuietIsIdle'
      BY <1>1, <1>2, <2>2 DEF Turn, QuietIsIdle, SameTurn
  <2> QED BY <2>3, <2>4 DEF IInv
<1>3. CASE Closed(t, r') /\ MayIdle(t) /\ t.state = "running" /\ t.awaiting
  <2>1. r'.turns = r.turns + 1
      BY <1>3 DEF Closed, Completed
  <2>2. ~owed'
      BY <1>1, <2>1
  <2>3. owed /\ answered'
      BY <1>1, <1>3 DEF MayIdle
  <2>4. Answers
      BY <2>1, <2>3 DEF Answers
  <2>5. Turn' /\ QuietIsIdle'
      BY <1>3, <2>2 DEF Turn, QuietIsIdle, Closed
  <2> QED BY <2>4, <2>5 DEF IInv
<1>4. CASE Closed(t, r') /\ MayIdle(t) /\ ~(t.state = "running" /\ t.awaiting)
  <2>1. r'.turns = r.turns
      BY <1>1, <1>4 DEF Closed, Completed
  <2>2. ~owed'
      BY <1>1, <1>4, <2>1
  <2>3. Answers
      BY <2>1 DEF Answers
  <2>4. Turn' /\ QuietIsIdle'
      BY <1>4, <2>2 DEF Turn, QuietIsIdle, Closed
  <2> QED BY <2>3, <2>4 DEF IInv
<1> QED BY <1>2, <1>3, <1>4

LEMMA SendInv ==
    ASSUME IInv, NEW activity \in Activities, SendInput(activity)
    PROVE  IInv' /\ Answers
<1> DEFINE written == activity \in Submits
<1>1. /\ r \in Session /\ r.state # "ended" /\ (r.debounce <=> r.detector = "running")
      /\ (r.awaiting <=> owed) /\ (r.awaiting => r.state = "running") /\ (r.saw => answered)
      /\ owed \in BOOLEAN /\ answered \in BOOLEAN
    BY DEF IInv, TypeOK, Turn, SendInput, Live
<1>2. r' = Sent(r, activity) /\ Observe(r', written, FALSE)
    BY DEF SendInput
<1>3. r' \in Session /\ r'.debounce = r.debounce /\ r'.detector = r.detector
    BY <1>1, <1>2, SentEffect
<1>4. written \in BOOLEAN
    OBVIOUS
<1>5. /\ owed' \in BOOLEAN /\ answered' \in BOOLEAN
      /\ r'.turns > r.turns => ~owed'
      /\ ~(r'.turns > r.turns) => (owed' <=> owed \/ written)
      /\ written => ~answered'
      /\ ~written => (answered' <=> answered)
    BY <1>1, <1>2, <1>4, ObserveEffect
<1>6. TypeOK'
  <2>1. inputs' \in Nat /\ chunks' \in Nat
      BY DEF SendInput, IInv, TypeOK
  <2>2. collected' \in BOOLEAN
      BY DEF SendInput
  <2> QED BY <1>1, <1>3, <1>5, <2>1, <2>2 DEF TypeOK
<1>7. r.turns \in Nat
    BY <1>1 DEF Session
<1>8. CASE written
  <2>1. r'.state = "running" /\ r'.awaiting = TRUE /\ r'.saw = FALSE /\ r'.turns = r.turns
      BY <1>1, <1>2, <1>8, SentEffect
  <2>2. owed'
      BY <1>5, <1>7, <1>8, <2>1
  <2> QED BY <1>6, <2>1, <2>2 DEF IInv, Turn, QuietIsIdle, Answers, Live
<1>9. CASE ~written
  <2>1. /\ r'.turns > r.turns => ~owed'
        /\ ~(r'.turns > r.turns) => (owed' <=> owed)
        /\ r.saw => answered'
      BY <1>1, <1>5, <1>9
  <2>2. \/ SameTurn(r, r') /\ ~(r.detector = "idle" /\ MayIdle(r))
        \/ Closed(r, r') /\ MayIdle(r)
      BY <1>1, <1>2, <1>9, SentEffect
  <2>3. \/ SameTurn(r, r') /\ (r'.detector = "idle" /\ r'.state = "running" /\ r'.saw => collected')
        \/ Closed(r, r') /\ MayIdle(r)
      BY <1>3, <2>2 DEF SameTurn, MayIdle
  <2>4. TypeOK /\ Turn /\ Live
      BY DEF IInv, SendInput
  <2> QED BY <1>1, <1>6, <2>1, <2>3, <2>4, TurnStep
<1> QED BY <1>8, <1>9

LEMMA RefusedInv ==
    ASSUME IInv, NEW activity \in Activities, SendInputFails(activity)
    PROVE  IInv' /\ Answers
<1>1. r' = r
    BY RefusedEffect DEF SendInputFails, IInv, TypeOK
<1>2. inputs' \in Nat /\ UNCHANGED <<chunks, owed, answered, collected>>
    BY DEF SendInputFails, IInv, TypeOK
<1> QED BY <1>1, <1>2 DEF IInv, TypeOK, Turn, QuietIsIdle, Answers, Live

\* Every chunk is fed to the detector last, which closes the turn or nothing.
LEMMA Fed ==
    ASSUME NEW t \in Session, NEW prompt \in BOOLEAN, r' = Feed(t, prompt)
    PROVE  /\ r' \in Session
           /\ r'.debounce <=> r'.detector = "running"
           /\ \/ /\ SameTurn(t, r')
                 /\ r'.detector = "idle" /\ r'.state = "running" /\ r'.saw => collected'
              \/ Closed(t, r') /\ MayIdle(t)
<1>1. /\ r' \in Session
      /\ r'.debounce <=> r'.detector = "running"
      /\ prompt /\ MayIdle(t) => Closed(t, r')
      /\ ~(prompt /\ MayIdle(t)) => SameTurn(t, r')
      /\ ~prompt => r'.detector = "running"
    BY FeedEffect
<1>2. CASE prompt /\ MayIdle(t)
    BY <1>1, <1>2
<1>3. CASE ~prompt
    BY <1>1, <1>3
<1>4. CASE prompt /\ ~MayIdle(t)
    BY <1>1, <1>4 DEF SameTurn, MayIdle
<1> QED BY <1>2, <1>3, <1>4

LEMMA OutputInv ==
    ASSUME IInv, NEW counts \in BOOLEAN, NEW prompt \in BOOLEAN, Output(counts, prompt)
    PROVE  IInv' /\ Answers
<1> DEFINE s == [r EXCEPT !.pending = FALSE]
           t == Assessed(s, counts)
<1>1. /\ TypeOK /\ Turn /\ Live /\ r \in Session /\ r.state # "ended"
      /\ (r.awaiting => r.state = "running") /\ (r.saw => answered)
      /\ owed \in BOOLEAN /\ answered \in BOOLEAN
    BY DEF IInv, TypeOK, Turn, Output, Live
<1>2. s \in Session /\ SameTurn(r, s)
    BY <1>1 DEF Session, SameTurn
<1>3. r' = Feed(t, prompt) /\ Observe(r', FALSE, counts)
    BY DEF Output, Printed
<1> HIDE DEF s
<1>4. /\ t \in Session /\ t.awaiting = s.awaiting /\ t.turns = s.turns
      /\ ~counts => t.saw = s.saw
      /\ \/ t.state = s.state
         \/ s.state \in {"starting", "idle"} /\ t.state = "running"
    BY <1>2, AssessedEffect
<1> HIDE DEF t
<1>5. /\ r' \in Session
      /\ r'.debounce <=> r'.detector = "running"
      /\ \/ SameTurn(t, r') /\ (r'.detector = "idle" /\ r'.state = "running" /\ r'.saw => collected')
         \/ Closed(t, r') /\ MayIdle(t)
    BY <1>3, <1>4, Fed
<1>6. /\ owed' \in BOOLEAN /\ answered' \in BOOLEAN
      /\ r'.turns > r.turns => ~owed'
      /\ ~(r'.turns > r.turns) => (owed' <=> owed)
      /\ answered' <=> answered \/ counts
    BY <1>1, <1>3, ObserveEffect
<1>7. TypeOK'
  <2>1. inputs' \in Nat /\ chunks' \in Nat
      BY <1>1 DEF Output, TypeOK
  <2>2. collected' \in BOOLEAN
      BY DEF Output
  <2> QED BY <1>5, <1>6, <2>1, <2>2 DEF TypeOK
<1>8. /\ t.awaiting = r.awaiting /\ t.turns = r.turns
      /\ t.awaiting => t.state = "running"
      /\ t.saw => answered'
    BY <1>1, <1>2, <1>4, <1>6 DEF SameTurn
<1> QED BY <1>1, <1>5, <1>6, <1>7, <1>8, TurnStep

LEMMA CollectedInv ==
    ASSUME IInv, NEW prompt \in BOOLEAN, OutputCollected(prompt)
    PROVE  IInv' /\ Answers
<1> DEFINE t == [r EXCEPT !.pending = TRUE]
<1>1. /\ TypeOK /\ Turn /\ Live /\ r \in Session /\ r.state = "idle"
      /\ (r.awaiting => r.state = "running") /\ (r.saw => answered)
    BY DEF IInv, TypeOK, Turn, OutputCollected, Live
<1>2. t \in Session /\ SameTurn(r, t)
    BY <1>1 DEF Session, SameTurn
<1>3. r' = Feed(t, prompt) /\ UNCHANGED <<owed, answered, collected, inputs>> /\ chunks' = chunks + 1
    BY DEF OutputCollected
<1> HIDE DEF t
<1>4. /\ r' \in Session
      /\ r'.debounce <=> r'.detector = "running"
      /\ \/ SameTurn(t, r') /\ (r'.detector = "idle" /\ r'.state = "running" /\ r'.saw => collected')
         \/ Closed(t, r') /\ MayIdle(t)
    BY <1>2, <1>3, Fed
<1>5. SameTurn(t, r') /\ r'.state = "idle"
    BY <1>1, <1>2, <1>4 DEF SameTurn, MayIdle
<1>6. TypeOK'
    BY <1>1, <1>3, <1>4 DEF TypeOK
<1>7. r'.turns = r.turns
    BY <1>2, <1>5 DEF SameTurn
<1>8. r.turns \in Nat
    BY <1>1 DEF Session
<1> QED BY <1>1, <1>2, <1>3, <1>5, <1>6, <1>7 DEF IInv, Turn, QuietIsIdle, Answers, SameTurn, Live

LEMMA AppendedInv ==
    ASSUME IInv, NEW enough \in BOOLEAN, NEW counts \in BOOLEAN, NEW prompt \in BOOLEAN,
           OutputAppended(enough, counts, prompt)
    PROVE  IInv' /\ Answers
<1> DEFINE t == IF enough THEN Flushed(r, counts) ELSE r
           visible == enough /\ counts
<1>1. /\ TypeOK /\ Turn /\ Live /\ r \in Session /\ r.state = "idle"
      /\ (r.awaiting => r.state = "running") /\ (r.saw => answered)
      /\ owed \in BOOLEAN /\ answered \in BOOLEAN
    BY DEF IInv, TypeOK, Turn, OutputAppended, Live
<1>2. r' = Feed(t, prompt) /\ Observe(r', FALSE, visible)
    BY DEF OutputAppended
<1>3. /\ t \in Session /\ t.awaiting = r.awaiting /\ t.turns = r.turns
      /\ t.saw = r.saw \/ visible
      /\ t.state = r.state \/ t.state = "running"
  <2>1. CASE enough
    <3>1. t = Flushed(r, counts)
        BY <2>1
    <3>2. /\ Flushed(r, counts) \in Session
          /\ Flushed(r, counts).awaiting = r.awaiting
          /\ Flushed(r, counts).turns = r.turns
          /\ Flushed(r, counts).saw = r.saw \/ counts
          /\ Flushed(r, counts).state = r.state \/ Flushed(r, counts).state = "running"
        BY <1>1, FlushedEffect
    <3> HIDE DEF t
    <3> QED BY <2>1, <3>1, <3>2
  <2>2. CASE ~enough
    <3>1. t = r
        BY <2>2
    <3> QED BY <1>1, <3>1
  <2> QED BY <2>1, <2>2
<1> HIDE DEF t
<1>4. /\ r' \in Session
      /\ r'.debounce <=> r'.detector = "running"
      /\ \/ SameTurn(t, r') /\ (r'.detector = "idle" /\ r'.state = "running" /\ r'.saw => collected')
         \/ Closed(t, r') /\ MayIdle(t)
    BY <1>2, <1>3, Fed
<1>5. visible \in BOOLEAN
    OBVIOUS
<1> HIDE DEF visible
<1>6. /\ owed' \in BOOLEAN /\ answered' \in BOOLEAN
      /\ r'.turns > r.turns => ~owed'
      /\ ~(r'.turns > r.turns) => (owed' <=> owed)
      /\ answered' <=> answered \/ visible
    BY <1>1, <1>2, <1>5, ObserveEffect
<1>7. TypeOK'
  <2>1. inputs' \in Nat /\ chunks' \in Nat
      BY <1>1 DEF OutputAppended, TypeOK
  <2>2. collected' \in BOOLEAN
      BY DEF OutputAppended
  <2> QED BY <1>4, <1>6, <2>1, <2>2 DEF TypeOK
<1>8. /\ t.awaiting => t.state = "running"
      /\ t.saw => answered'
    BY <1>1, <1>3, <1>6
<1> QED BY <1>1, <1>3, <1>4, <1>6, <1>7, <1>8, TurnStep

LEMMA WindowInv ==
    ASSUME IInv, NEW counts \in BOOLEAN, WindowCloses(counts)
    PROVE  IInv' /\ Answers
<1> DEFINE visible == counts /\ r.state = "idle"
<1>1. /\ TypeOK /\ Turn /\ r \in Session /\ (r.debounce <=> r.detector = "running")
      /\ owed \in BOOLEAN /\ answered \in BOOLEAN /\ collected \in BOOLEAN
      /\ inputs \in Nat /\ chunks \in Nat
    BY DEF IInv, TypeOK
<1>2. /\ r' = Flushed(r, counts) /\ Observe(r', FALSE, visible)
      /\ collected' = (r'.state = "running" /\ (collected \/ r.state # "running"))
      /\ UNCHANGED <<inputs, chunks>>
    BY DEF WindowCloses
<1>3. /\ r' \in Session /\ r'.awaiting = r.awaiting /\ r'.turns = r.turns
      /\ r'.debounce = r.debounce /\ r'.detector = r.detector
      /\ r'.saw = r.saw \/ visible
      /\ r'.state = r.state \/ (r.state = "idle" /\ r'.state = "running")
  <2>1. /\ Flushed(r, counts) \in Session
        /\ Flushed(r, counts).awaiting = r.awaiting
        /\ Flushed(r, counts).turns = r.turns
        /\ Flushed(r, counts).debounce = r.debounce
        /\ Flushed(r, counts).detector = r.detector
        /\ Flushed(r, counts).saw = r.saw \/ (counts /\ r.state = "idle")
        /\ \/ Flushed(r, counts).state = r.state
           \/ r.state = "idle" /\ Flushed(r, counts).state = "running"
      BY <1>1, FlushedEffect
  <2> QED BY <1>2, <2>1
<1>4. visible \in BOOLEAN /\ (visible => r.state = "idle")
    OBVIOUS
<1> HIDE DEF visible
<1>5. r.turns \in Nat
    BY <1>1 DEF Session
<1>6. /\ owed' \in BOOLEAN /\ answered' \in BOOLEAN
      /\ owed' <=> owed
      /\ answered' <=> answered \/ visible
  <2>1. ~(r'.turns > r.turns)
      BY <1>3, <1>5
  <2>2. /\ owed' \in BOOLEAN /\ answered' \in BOOLEAN
        /\ ~(r'.turns > r.turns) => (owed' <=> owed)
        /\ answered' <=> answered \/ visible
    <3>1. visible \in BOOLEAN
        BY <1>4
    <3>2. Observe(r', FALSE, visible)
        BY <1>2
    <3> QED BY <1>1, <3>1, <3>2, ObserveEffect
  <2> QED BY <2>1, <2>2
<1>7. TypeOK'
    BY <1>1, <1>2, <1>3, <1>6 DEF TypeOK
<1>8. Answers
    BY <1>3 DEF Answers
<1>9. Turn'
    BY <1>1, <1>3, <1>6 DEF Turn, Live
<1>10. QuietIsIdle'
  <2>1. CASE r.state = "running"
    <3>1. r'.state = r.state /\ r'.saw = r.saw
        BY <1>3, <1>4, <2>1
    <3> QED BY <1>2, <1>3, <2>1, <3>1 DEF QuietIsIdle, IInv
  <2>2. CASE r.state # "running"
      BY <1>2, <2>2 DEF QuietIsIdle
  <2> QED BY <2>1, <2>2
<1> QED BY <1>7, <1>8, <1>9, <1>10 DEF IInv

LEMMA DebounceInv ==
    ASSUME IInv, DebounceFires
    PROVE  IInv' /\ Answers
<1>1. /\ TypeOK /\ Turn /\ r \in Session /\ r.debounce /\ r.detector = "running"
      /\ owed \in BOOLEAN /\ answered \in BOOLEAN
      /\ inputs \in Nat /\ chunks \in Nat
    BY DEF IInv, TypeOK, DebounceFires
<1>2. /\ r' = DetectorIdle(r) /\ Observe(r', FALSE, FALSE)
      /\ collected' = (collected /\ r'.state = "running")
      /\ UNCHANGED <<inputs, chunks>>
    BY DEF DebounceFires
<1>3. /\ r' \in Session /\ ~r'.debounce /\ r'.detector = "idle"
      /\ MayIdle(r) => Closed(r, r')
      /\ ~MayIdle(r) => SameTurn(r, r')
    BY <1>1, <1>2, DetectorIdleEffect
<1>4. /\ owed' \in BOOLEAN /\ answered' \in BOOLEAN
      /\ r'.turns > r.turns => ~owed'
      /\ ~(r'.turns > r.turns) => (owed' <=> owed)
      /\ answered' <=> answered
    BY <1>1, <1>2, ObserveEffect
<1>5. TypeOK'
    BY <1>1, <1>2, <1>3, <1>4 DEF TypeOK
<1>6. CASE Live
  <2>1. (r.awaiting => r.state = "running") /\ (r.saw => answered')
      BY <1>1, <1>4, <1>6 DEF Turn
  <2>2. \/ SameTurn(r, r') /\ (r'.detector = "idle" /\ r'.state = "running" /\ r'.saw => collected')
        \/ Closed(r, r') /\ MayIdle(r)
      BY <1>3 DEF SameTurn, MayIdle
  <2> QED BY <1>1, <1>4, <1>5, <1>6, <2>1, <2>2, TurnStep
<1>7. CASE ~Live
  <2>1. SameTurn(r, r') /\ r'.state = "ended"
      BY <1>3, <1>7 DEF MayIdle, Live, SameTurn
  <2> QED BY <1>5, <2>1 DEF IInv, Turn, QuietIsIdle, Answers, Live, SameTurn
<1> QED BY <1>6, <1>7

LEMMA ForgetInv ==
    ASSUME IInv, NEW input \in {"submit", "other"}, Forget(input)
    PROVE  IInv' /\ Answers
<1>1. r \in Session
    BY DEF IInv, TypeOK
<1>2. /\ r' \in Session /\ SameTurn(r, r')
      /\ r'.debounce = r.debounce /\ r'.detector = r.detector
    BY <1>1 DEF Forget, Session, SameTurn
<1>3. UNCHANGED <<inputs, chunks, owed, answered, collected>>
    BY DEF Forget
<1> QED BY <1>2, <1>3 DEF IInv, TypeOK, Turn, QuietIsIdle, Answers, Live, SameTurn

LEMMA ExitInv ==
    ASSUME IInv, Exit
    PROVE  IInv' /\ Answers
<1>1. r \in Session /\ inputs \in Nat /\ chunks \in Nat /\ owed \in BOOLEAN /\ answered \in BOOLEAN
    BY DEF IInv, TypeOK
<1>2. /\ r' \in Session /\ r'.state = "ended" /\ r'.turns = r.turns
      /\ ~r'.debounce /\ r'.detector = "none"
    BY <1>1 DEF Exit, Finished, Session
<1>3. collected' = FALSE /\ UNCHANGED <<inputs, chunks, owed, answered>>
    BY DEF Exit
<1> QED BY <1>1, <1>2, <1>3 DEF IInv, TypeOK, Turn, QuietIsIdle, Answers, Live
----------------------------------------------------------------------------
LEMMA Step == IInv /\ [Next]_vars => IInv' /\ (Answers \/ UNCHANGED vars)
<1> SUFFICES ASSUME IInv, [Next]_vars PROVE IInv' /\ (Answers \/ UNCHANGED vars)
    OBVIOUS
<1>1. CASE UNCHANGED vars
    BY <1>1 DEF vars, IInv, TypeOK, Turn, QuietIsIdle, Live
<1>2. ASSUME NEW activity \in Activities, SendInput(activity) \/ SendInputFails(activity)
      PROVE  IInv' /\ Answers
    BY <1>2, SendInv, RefusedInv
<1>3. ASSUME NEW counts \in BOOLEAN, NEW prompt \in BOOLEAN, Output(counts, prompt)
      PROVE  IInv' /\ Answers
    BY <1>3, OutputInv
<1>4. ASSUME NEW prompt \in BOOLEAN, OutputCollected(prompt)
      PROVE  IInv' /\ Answers
    BY <1>4, CollectedInv
<1>5. ASSUME NEW enough \in BOOLEAN, NEW counts \in BOOLEAN, NEW prompt \in BOOLEAN,
             OutputAppended(enough, counts, prompt)
      PROVE  IInv' /\ Answers
    BY <1>5, AppendedInv
<1>6. ASSUME NEW counts \in BOOLEAN, WindowCloses(counts)
      PROVE  IInv' /\ Answers
    BY <1>6, WindowInv
<1>7. ASSUME NEW input \in {"submit", "other"}, Forget(input)
      PROVE  IInv' /\ Answers
    BY <1>7, ForgetInv
<1>8. CASE DebounceFires
    BY <1>8, DebounceInv
<1>9. CASE Exit
    BY <1>9, ExitInv
<1> QED BY <1>1, <1>2, <1>3, <1>4, <1>5, <1>6, <1>7, <1>8, <1>9 DEF Next

LEMMA Invariance == Spec => []IInv
<1>1. Init => IInv
    BY InitInv
<1>2. IInv /\ [Next]_vars => IInv'
    BY Step
<1> QED BY <1>1, <1>2, PTL DEF Spec

\* Type correctness, with the timer of the detector running exactly while the
\* detector believes the pty is busy.
THEOREM TypeCorrect == Spec => []TypeOK
<1>1. IInv => TypeOK
    BY DEF IInv
<1> QED BY <1>1, Invariance, PTL

\* A live session waits for the turn of a submitted input exactly as long as
\* that turn was not reported: sendInput, its rollback and the transitions.
THEOREM TurnsOwed == Spec => []AwaitedIsOwed
<1>1. IInv => AwaitedIsOwed
    BY DEF IInv, Turn, AwaitedIsOwed
<1> QED BY <1>1, Invariance, PTL

\* A quiet pty never leaves a session running whose answer was seen, but for
\* the session resumed by collected output.
THEOREM QuietSessionsIdle == Spec => []QuietIsIdle
<1>1. IInv => QuietIsIdle
    BY DEF IInv
<1> QED BY <1>1, Invariance, PTL

\* turn_completed is emitted once per submitted input at most, and only when
\* the agent showed something since.
THEOREM TurnsAnswered == Spec => TurnAnswered
<1>1. IInv /\ [Next]_vars => [r'.turns # r.turns => r'.turns = r.turns + 1 /\ owed /\ answered']_vars
    BY Step DEF Answers
<1> QED BY <1>1, Invariance, PTL DEF Spec, TurnAnswered
====
