--------------------------- MODULE GitGate_proofs ---------------------------
(***************************************************************************)
(* Proofs about GitGate, for every set of clients, workspaces and commands *)
(* and every limit: the type invariant, the exclusion at the gate, the     *)
(* count of the viewers and the limit of failures.                         *)
(***************************************************************************)
EXTENDS GitGate, FiniteSetTheorems, TLAPS

Record ==
  [viewers : Nat, last : {"never", "now", "past"},
   cooling : BOOLEAN, failures : 0..MaxFailures, inFlight : BOOLEAN,
   blocked : BOOLEAN, next : {"none", "later", "due"}, waiters : Seq(Calls)]

\* What every state of a workspace satisfies by itself.
Sound(s) ==
  /\ s \in Record
  /\ s.viewers = 0 => s.next = "none"
  /\ s.blocked <=> s.failures = MaxFailures

\* r differs from s in the schedule and the record of fetches only.
SameGate(r, s) ==
  /\ r.viewers = s.viewers
  /\ r.inFlight = s.inFlight
  /\ r.waiters = s.waiters

LEMMA ScheduledSound ==
  ASSUME NEW s, Sound(s), NEW reset, NEW r \in Scheduled(s, reset)
  PROVE  Sound(r) /\ SameGate(r, s) /\ r.blocked = s.blocked
<1>1. CASE r = s
  BY <1>1 DEF SameGate
<1>2. CASE /\ s.viewers # 0
           /\ \E n \in NextTimes(s) : r = [s EXCEPT !.next = n]
  <2>1. PICK n \in NextTimes(s) : r = [s EXCEPT !.next = n]
    BY <1>2
  <2>2. n \in {"none", "later", "due"}
    BY <2>1 DEF NextTimes
  <2>. QED
    BY <1>2, <2>1, <2>2 DEF Sound, Record, SameGate
<1>. QED
  BY <1>1, <1>2 DEF Scheduled

LEMMA SucceededSound ==
  ASSUME NEW s, Sound(s), NEW r \in Succeeded(s)
  PROVE  Sound(r) /\ SameGate(r, s) /\ ~r.blocked
<1>0. s \in Record
  BY DEF Sound
<1> DEFINE t == [s EXCEPT !.last = "now", !.cooling = TRUE, !.failures = 0,
                          !.blocked = FALSE, !.next = "none"]
<1>1. Sound(t) /\ SameGate(t, s) /\ ~t.blocked
  <2>1. /\ t.viewers = s.viewers /\ t.inFlight = s.inFlight
        /\ t.waiters = s.waiters /\ t.next = "none"
        /\ t.failures = 0 /\ t.blocked = FALSE
    BY DEF Sound, Record
  <2>2. 0 \in 0..MaxFailures /\ 0 # MaxFailures
    BY GateAssumption
  <2>3. t \in Record
    BY <2>2, <1>0 DEF Record
  <2> HIDE DEF t
  <2>. QED
    BY <2>1, <2>2, <2>3 DEF Sound, Record, SameGate
<1>2. r \in Scheduled(t, TRUE)
  BY DEF Succeeded
<1> HIDE DEF t
<1>. QED
  BY <1>1, <1>2, ScheduledSound DEF SameGate

LEMMA FailedSound ==
  ASSUME NEW s, Sound(s), ~s.blocked, NEW r \in Failed(s)
  PROVE  Sound(r) /\ SameGate(r, s)
<1>0. s \in Record
  BY DEF Sound
<1> DEFINE f == [s EXCEPT !.failures = @ + 1, !.next = "none"]
<1>1. /\ s.failures \in 0..MaxFailures /\ s.failures # MaxFailures
      /\ s.failures + 1 \in 0..MaxFailures
  BY GateAssumption DEF Sound, Record
<1>2. f.failures = s.failures + 1 /\ f.failures \in 1..MaxFailures
  BY <1>1, GateAssumption DEF Sound, Record
<1>3. CASE f.failures >= MaxFailures
  <2>1. r = [f EXCEPT !.blocked = TRUE]
    BY <1>3 DEF Failed
  <2>2. f.failures = MaxFailures
    BY <1>2, <1>3, GateAssumption
  <2>3. r.failures = MaxFailures /\ r.blocked = TRUE /\ r.next = "none"
    BY <2>1, <2>2 DEF Sound, Record
  <2>4. SameGate(r, s)
    BY <2>1 DEF Sound, Record, SameGate
  <2>5. r \in Record
    BY <1>1, <1>2, <2>1, <1>0 DEF Record
  <2>. QED
    BY <2>3, <2>4, <2>5 DEF Sound, Record
<1>4. CASE ~(f.failures >= MaxFailures)
  <2>3. /\ SameGate(f, s)
        /\ f.blocked = s.blocked /\ f.next = "none"
    BY DEF Sound, Record, SameGate
  <2>4. f \in Record
    BY <1>1, <1>2, <1>0 DEF Record
  <2>5. f.failures # MaxFailures
    BY <1>2, <1>4, GateAssumption
  <2>1. Sound(f) /\ SameGate(f, s)
    <3> HIDE DEF f
    <3>. QED  BY <1>1, <2>3, <2>4, <2>5 DEF Sound, Record
  <2>2. r \in Scheduled(f, TRUE)
    BY <1>4 DEF Failed
  <2> HIDE DEF f
  <2>. QED
    BY <2>1, <2>2, ScheduledSound DEF SameGate
<1>. QED
  BY <1>3, <1>4

LEMMA GrantedSound ==
  ASSUME NEW s, Sound(s)
  PROVE  /\ Sound(Granted(s))
         /\ Granted(s).viewers = s.viewers
         /\ Granted(s).waiters = s.waiters
         /\ Granted(s).inFlight = TRUE
         /\ Granted(s).blocked = s.blocked
  BY DEF Granted, Sound, Record

LEMMA ReleasedSound ==
  ASSUME NEW s, Sound(s), NEW r \in Released(s)
  PROVE  /\ Sound(r)
         /\ r.viewers = s.viewers
         /\ r.blocked = s.blocked
         /\ s.waiters # <<>> => r.inFlight = s.inFlight /\ r.waiters = Tail(s.waiters)
         /\ s.waiters = <<>> => ~r.inFlight /\ r.waiters = <<>>
<1>1. CASE s.waiters # <<>>
  <2>1. r = [s EXCEPT !.waiters = Tail(@), !.next = "none"]
    BY <1>1 DEF Released, TakeWaiter
  <2>2. Tail(s.waiters) \in Seq(Calls)
    BY <1>1 DEF Sound, Record
  <2>. QED
    BY <1>1, <2>1, <2>2 DEF Sound, Record
<1>2. CASE s.waiters = <<>>
  <2> DEFINE t == [s EXCEPT !.inFlight = FALSE]
  <2>1. Sound(t) /\ ~t.inFlight /\ t.viewers = s.viewers /\ t.waiters = <<>>
        /\ t.blocked = s.blocked
    BY <1>2 DEF Sound, Record
  <2>2. r \in Scheduled(t, TRUE)
    BY <1>2 DEF Released
  <2> HIDE DEF t
  <2>. QED
    BY <1>2, <2>1, <2>2, ScheduledSound DEF SameGate
<1>. QED
  BY <1>1, <1>2

LEMMA LeftSound ==
  ASSUME NEW s, Sound(s), s.viewers # 0
  PROVE  /\ Sound(Left(s))
         /\ Left(s).viewers = s.viewers - 1
         /\ Left(s).inFlight = s.inFlight
         /\ Left(s).waiters = s.waiters
         /\ ~s.blocked => ~Left(s).blocked
<1>0. s \in Record
  BY DEF Sound
<1>1. s.viewers \in Nat /\ s.viewers - 1 \in Nat
  BY DEF Sound, Record
<1>2. 0 \in 0..MaxFailures /\ 0 # MaxFailures /\ 0 \in Nat
  BY GateAssumption
<1>3. CASE s.viewers - 1 = 0
  <2>1. Left(s) = [s EXCEPT !.viewers = 0, !.blocked = FALSE, !.failures = 0,
                            !.next = "none"]
    BY <1>3 DEF Left
  <2>2. /\ Left(s).viewers = 0 /\ Left(s).blocked = FALSE
        /\ Left(s).failures = 0 /\ Left(s).next = "none"
        /\ Left(s).inFlight = s.inFlight /\ Left(s).waiters = s.waiters
    BY <2>1 DEF Sound, Record
  <2>3. Left(s) \in Record
    <3> DEFINE b == [s EXCEPT !.viewers = 0, !.next = "none"]
    <3>1. b \in Record
      BY <1>0, <1>2 DEF Record
    <3>2. Left(s) = [b EXCEPT !.blocked = FALSE, !.failures = 0]
      BY <2>1, <1>0 DEF Record
    <3> HIDE DEF b
    <3>. QED
      BY <1>2, <3>1, <3>2 DEF Record
  <2>. QED
    BY <1>1, <1>2, <1>3, <2>2, <2>3 DEF Sound, Record
<1>4. CASE s.viewers - 1 # 0
  <2>1. Left(s) = [s EXCEPT !.viewers = s.viewers - 1]
    BY <1>4 DEF Left
  <2>2. Left(s) \in Record
    BY <1>1, <2>1, <1>0 DEF Record
  <2>. QED
    BY <1>4, <2>1, <2>2 DEF Sound, Record
<1>. QED
  BY <1>3, <1>4

LEMMA JoinedSound ==
  ASSUME NEW s, Sound(s), NEW r \in Joined(s)
  PROVE  /\ Sound(r)
         /\ r.viewers = s.viewers + 1
         /\ r.inFlight = s.inFlight
         /\ r.waiters = s.waiters
         /\ ~s.blocked => ~r.blocked
<1>0. s \in Record
  BY DEF Sound
<1> DEFINE t == IF s.viewers = 0
                  THEN [s EXCEPT !.viewers = 1, !.blocked = FALSE, !.failures = 0]
                  ELSE [s EXCEPT !.viewers = @ + 1]
<1>1. /\ Sound(t) /\ t.viewers = s.viewers + 1 /\ t.inFlight = s.inFlight
      /\ t.waiters = s.waiters /\ (~s.blocked => ~t.blocked)
  <2>1. 0 \in 0..MaxFailures /\ 0 # MaxFailures /\ s.viewers \in Nat /\ 1 \in Nat
    BY GateAssumption DEF Sound, Record
  <2>2. CASE s.viewers = 0
    <3>1. t = [s EXCEPT !.viewers = 1, !.blocked = FALSE, !.failures = 0]
      BY <2>2
    <3>2. /\ t.viewers = 1 /\ t.blocked = FALSE /\ t.failures = 0
          /\ t.inFlight = s.inFlight /\ t.waiters = s.waiters
      BY <3>1 DEF Sound, Record
    <3>3. t \in Record
      <4> DEFINE b == [s EXCEPT !.viewers = 1]
      <4>1. b \in Record
        BY <1>0, <2>1 DEF Record
      <4>2. t = [b EXCEPT !.blocked = FALSE, !.failures = 0]
        BY <3>1, <1>0 DEF Record
      <4> HIDE DEF b, t
      <4>. QED
        BY <2>1, <4>1, <4>2 DEF Record
    <3> HIDE DEF t
    <3>. QED
      BY <2>1, <2>2, <3>2, <3>3 DEF Sound, Record
  <2>3. CASE s.viewers # 0
    <3>1. t = [s EXCEPT !.viewers = s.viewers + 1]
      BY <2>3
    <3>2. t \in Record
      BY <2>1, <3>1, <1>0 DEF Record
    <3> HIDE DEF t
    <3>. QED
      BY <2>1, <2>3, <3>1, <3>2 DEF Sound, Record
  <2>. QED
    BY <2>2, <2>3
<1>2. r \in Scheduled(t, FALSE)
  BY DEF Joined
<1> HIDE DEF t
<1>. QED
  BY <1>1, <1>2, ScheduledSound DEF SameGate

-----------------------------------------------------------------------------
(* The inductive invariant, in two parts.                                  *)

CallRecord == [at : {"unused", "waiting", "running", "recording", "done"},
               ws : Workspaces \cup {None}, kind : Kinds,
               ctx : {"gated", "bare"}]

FetchRecord == [at : {"idle", "granted", "running"},
                mode : {"open", "periodic"}, stale : BOOLEAN]

\* The shape of the state; commands under way have a workspace.
Typed ==
  /\ viewing \in [Clients -> Workspaces \cup {None}]
  /\ state \in [Workspaces -> Record]
  /\ fetch \in [Workspaces -> FetchRecord]
  /\ call \in [Calls -> CallRecord]
  /\ openTimers \in [Workspaces -> 0..MaxTimers]
  /\ known \subseteq Openable
  /\ periodic \in BOOLEAN
  /\ stopped \in BOOLEAN
  /\ \A o \in Calls : call[o].at \in {"waiting", "running", "recording"}
       => call[o].ws \in Workspaces

\* Each workspace by itself: a fetch that runs found no block, and nothing
\* but the fetch itself could put one there.
Unblocked ==
  \A w \in Workspaces :
    /\ Sound(state[w])
    /\ fetch[w].at = "running" => ~state[w].blocked

Watching(w) == {c \in Clients : viewing[c] = w}
Counted == \A w \in Workspaces : state[w].viewers = Cardinality(Watching(w))

\* The gate: who is in its queue is waiting there, once; at most one is in
\* it; it is marked exactly then, and only then is there a queue.
Queued(w) ==
  /\ \A i \in 1..Len(state[w].waiters) :
       /\ call[state[w].waiters[i]].at = "waiting"
       /\ call[state[w].waiters[i]].ctx = "gated"
       /\ call[state[w].waiters[i]].ws = w
  /\ \A i, j \in 1..Len(state[w].waiters) :
       state[w].waiters[i] = state[w].waiters[j] => i = j

OneHolder(w) ==
  /\ \A p, q \in Calls : HoldsGate(p, w) /\ HoldsGate(q, w) => p = q
  /\ fetch[w].at # "idle" => \A o \in Calls : ~HoldsGate(o, w)

Marked(w) ==
  /\ state[w].inFlight <=>
       (fetch[w].at # "idle" \/ \E o \in Calls : HoldsGate(o, w))
  /\ state[w].waiters # <<>> => state[w].inFlight

Gate == \A w \in Workspaces : Queued(w) /\ OneHolder(w) /\ Marked(w)

IInv == Typed /\ Unblocked /\ Counted /\ Gate

-----------------------------------------------------------------------------
(* Steps at the gate.                                                      *)

\* Nobody enters or leaves a gate or its queue.
LEMMA GateKept ==
  ASSUME Typed, Gate,
         \A w \in Workspaces :
           /\ state'[w].inFlight = state[w].inFlight
           /\ state'[w].waiters = state[w].waiters
           /\ fetch'[w].at = "idle" <=> fetch[w].at = "idle",
         \A o \in Calls : call[o].at = "waiting" => call'[o] = call[o],
         \A o \in Calls, w \in Workspaces : HoldsGate(o, w)' <=> HoldsGate(o, w)
  PROVE  Gate'
<1> SUFFICES ASSUME NEW w \in Workspaces
             PROVE  Queued(w)' /\ OneHolder(w)' /\ Marked(w)'
  BY DEF Gate
<1>1. Queued(w) /\ OneHolder(w) /\ Marked(w)
  BY DEF Gate
<1>2. state[w].waiters \in Seq(Calls)
  BY DEF Typed, Record
<1>3. \A i \in 1..Len(state[w].waiters) : state[w].waiters[i] \in Calls
  BY <1>2
<1>4. Queued(w)'
  BY <1>1, <1>3 DEF Queued
<1>5. OneHolder(w)'
  BY <1>1 DEF OneHolder
<1>6. Marked(w)'
  BY <1>1 DEF Marked
<1>. QED
  BY <1>4, <1>5, <1>6

LEMMA QueuedNext ==
  ASSUME NEW w, NEW q, state'[w].waiters = q,
         \A i \in 1..Len(q) :
           /\ call'[q[i]].at = "waiting"
           /\ call'[q[i]].ctx = "gated" /\ call'[q[i]].ws = w,
         \A i, j \in 1..Len(q) : q[i] = q[j] => i = j
  PROVE  Queued(w)'
  BY DEF Queued

\* A holder leaves the gate of w: the first waiter becomes the holder, or
\* the gate is free.
LEMMA GateReleased ==
  ASSUME Typed, Gate, NEW w \in Workspaces,
         NEW s, Sound(s), SameGate(s, state[w]),
         NEW r \in Released(s), state' = [state EXCEPT ![w] = r],
         NEW mid \in [Calls -> CallRecord], call' = Woken(w, mid),
         state[w].inFlight,
         \A o \in Calls :
           \/ mid[o] = call[o]
           \/ HoldsGate(o, w) /\ mid[o].at \in {"recording", "done"},
         \A o \in Calls :
           ~(mid[o].at = "running" /\ mid[o].ctx = "gated" /\ mid[o].ws = w),
         fetch'[w].at = "idle",
         \A v \in Workspaces \ {w} : fetch'[v] = fetch[v]
  PROVE  Gate'
<1>1. /\ \A v \in Workspaces \ {w} : state'[v] = state[v]
      /\ state'[w] = r
  BY DEF Typed
<1>2. state[w].waiters \in Seq(Calls) /\ s.waiters = state[w].waiters
  BY DEF Typed, Record, SameGate
<1>3. /\ s.waiters # <<>> => r.inFlight = s.inFlight /\ r.waiters = Tail(s.waiters)
      /\ s.waiters = <<>> => ~r.inFlight /\ r.waiters = <<>>
  BY ReleasedSound
<1>4. Queued(w)
  BY DEF Gate
<1>5. CASE state[w].waiters = <<>>
  <2>1. call' = mid
    BY <1>5 DEF Woken
  <2>2. ASSUME NEW v \in Workspaces \ {w}
        PROVE  Queued(v)' /\ OneHolder(v)' /\ Marked(v)'
    <3>1. Queued(v) /\ OneHolder(v) /\ Marked(v)
      BY DEF Gate
    <3>2. \A o \in Calls : HoldsGate(o, v)' <=> HoldsGate(o, v)
      BY <2>1 DEF HoldsGate
    <3>3. \A o \in Calls : call[o].at = "waiting" => call'[o] = call[o]
      BY <2>1 DEF HoldsGate
    <3>4. \A i \in 1..Len(state[v].waiters) : state[v].waiters[i] \in Calls
      <4>1. state[v].waiters \in Seq(Calls)
        BY DEF Typed, Record
      <4>. QED  BY <4>1
    <3>5. Queued(v)'
      BY <1>1, <3>1, <3>3, <3>4 DEF Queued
    <3>6. OneHolder(v)'
      BY <3>1, <3>2 DEF OneHolder
    <3>7. Marked(v)'
      BY <1>1, <3>1, <3>2 DEF Marked
    <3>. QED
      BY <3>5, <3>6, <3>7
  <2>3. \A o \in Calls : ~HoldsGate(o, w)'
    BY <2>1 DEF HoldsGate
  <2>4. state'[w].waiters = <<>> /\ ~state'[w].inFlight
    BY <1>1, <1>2, <1>3, <1>5
  <2>5. Queued(w)' /\ OneHolder(w)' /\ Marked(w)'
    BY <2>3, <2>4 DEF Queued, OneHolder, Marked
  <2>. QED
    BY <2>2, <2>5 DEF Gate
<1>6. CASE state[w].waiters # <<>>
  <2> DEFINE q == state[w].waiters
             h == Head(q)
  <2>0. /\ q \in Seq(Calls) /\ Len(q) \in Nat /\ Len(q) >= 1
        /\ h = q[1] /\ h \in Calls /\ Len(Tail(q)) = Len(q) - 1
        /\ \A i \in 1..Len(Tail(q)) : Tail(q)[i] = q[i + 1] /\ i + 1 \in 1..Len(q)
        /\ \A i \in 1..Len(q) : q[i] \in Calls
    BY <1>2, <1>6
  <2>1. call' = [mid EXCEPT ![h].at = "running"]
    BY <1>6 DEF Woken, TakeWaiter
  <2>2. call[h].at = "waiting" /\ call[h].ctx = "gated" /\ call[h].ws = w
    BY <1>4, <2>0 DEF Queued
  <2>3. mid[h] = call[h]
    BY <2>0, <2>2 DEF HoldsGate
  <2>4. /\ call'[h].at = "running" /\ call'[h].ctx = "gated" /\ call'[h].ws = w
        /\ \A o \in Calls \ {h} : call'[o] = mid[o]
    BY <2>0, <2>1, <2>2, <2>3 DEF CallRecord
  <2>5. state'[w].waiters = Tail(q) /\ state'[w].inFlight
    BY <1>1, <1>2, <1>3, <1>6 DEF SameGate
  <2> HIDE DEF q, h
  <2>6. ASSUME NEW v \in Workspaces \ {w}
        PROVE  Queued(v)' /\ OneHolder(v)' /\ Marked(v)'
    <3>1. Queued(v) /\ OneHolder(v) /\ Marked(v)
      BY DEF Gate
    <3>2. \A o \in Calls : HoldsGate(o, v)' <=> HoldsGate(o, v)
      BY <2>0, <2>2, <2>4 DEF HoldsGate
    <3>3. \A o \in Calls : call[o].at = "waiting" /\ call[o].ws = v => call'[o] = call[o]
      BY <2>0, <2>2, <2>4 DEF HoldsGate
    <3>4. \A i \in 1..Len(state[v].waiters) : state[v].waiters[i] \in Calls
      <4>1. state[v].waiters \in Seq(Calls)
        BY DEF Typed, Record
      <4>. QED  BY <4>1
    <3>5. Queued(v)'
      BY <1>1, <3>1, <3>3, <3>4 DEF Queued
    <3>6. OneHolder(v)'
      BY <3>1, <3>2 DEF OneHolder
    <3>7. Marked(v)'
      BY <1>1, <3>1, <3>2 DEF Marked
    <3>. QED
      BY <3>5, <3>6, <3>7
  <2>7. \A o \in Calls : HoldsGate(o, w)' <=> o = h
    BY <2>0, <2>4 DEF HoldsGate
  <2>8. OneHolder(w)' /\ Marked(w)'
    BY <2>0, <2>5, <2>7 DEF OneHolder, Marked
  <2>9. ASSUME NEW i \in 1..Len(Tail(q))
        PROVE  /\ call'[Tail(q)[i]].at = "waiting"
               /\ call'[Tail(q)[i]].ctx = "gated" /\ call'[Tail(q)[i]].ws = w
    <3>1. /\ i + 1 \in 1..Len(q) /\ 1 \in 1..Len(q) /\ i + 1 # 1
          /\ Tail(q)[i] = q[i + 1] /\ q[i + 1] \in Calls
      BY <2>0
    <3>2. q[i + 1] # h
      BY <1>4, <2>0, <3>1 DEF Queued, q
    <3>3. call[q[i + 1]].at = "waiting" /\ call[q[i + 1]].ctx = "gated"
          /\ call[q[i + 1]].ws = w
      BY <1>4, <3>1 DEF Queued, q
    <3>4. mid[q[i + 1]] = call[q[i + 1]]
      BY <3>1, <3>3 DEF HoldsGate
    <3>. QED
      BY <2>4, <3>1, <3>2, <3>3, <3>4
  <2>10. ASSUME NEW i \in 1..Len(Tail(q)), NEW j \in 1..Len(Tail(q)),
                Tail(q)[i] = Tail(q)[j]
         PROVE  i = j
    <3>1. i + 1 \in 1..Len(q) /\ j + 1 \in 1..Len(q) /\ q[i + 1] = q[j + 1]
      BY <2>0, <2>10
    <3>2. i + 1 = j + 1
      BY <1>4, <3>1 DEF Queued, q
    <3>. QED
      BY <2>0, <3>2
  <2>11. Queued(w)'
    <3>2. \A i \in 1..Len(Tail(q)) :
            /\ call'[Tail(q)[i]].at = "waiting"
            /\ call'[Tail(q)[i]].ctx = "gated" /\ call'[Tail(q)[i]].ws = w
      BY <2>9
    <3>3. \A i, j \in 1..Len(Tail(q)) : Tail(q)[i] = Tail(q)[j] => i = j
      BY <2>10
    <3>. QED
      BY <2>5, <3>2, <3>3, QueuedNext
  <2>. QED
    BY <2>6, <2>8, <2>11 DEF Gate
<1>. QED
  BY <1>5, <1>6

\* The scheduler's fetch takes a free gate.
LEMMA GateTaken ==
  ASSUME Typed, Gate, NEW w \in Workspaces,
         NEW s, Sound(s), SameGate(s, state[w]), ~s.inFlight,
         state' = [state EXCEPT ![w] = Granted(s)],
         call' = call,
         fetch'[w].at = "granted",
         \A v \in Workspaces \ {w} : fetch'[v] = fetch[v]
  PROVE  Gate'
<1>1. /\ \A v \in Workspaces \ {w} : state'[v] = state[v]
      /\ state'[w] = Granted(s)
  BY DEF Typed
<1>2. Granted(s).inFlight = TRUE /\ Granted(s).waiters = state[w].waiters
  BY GrantedSound DEF SameGate
<1>3. Queued(w) /\ OneHolder(w) /\ Marked(w) /\ ~state[w].inFlight
  BY DEF Gate, SameGate
<1>4. \A o \in Calls, v \in Workspaces : HoldsGate(o, v)' <=> HoldsGate(o, v)
  BY DEF HoldsGate
<1>5. \A o \in Calls : ~HoldsGate(o, w)
  BY <1>3 DEF Marked
<1>6. Queued(w)' /\ OneHolder(w)' /\ Marked(w)'
  BY <1>1, <1>2, <1>3, <1>4, <1>5 DEF Queued, OneHolder, Marked
<1>7. ASSUME NEW v \in Workspaces \ {w}
      PROVE  Queued(v)' /\ OneHolder(v)' /\ Marked(v)'
  <2>1. Queued(v) /\ OneHolder(v) /\ Marked(v)
    BY DEF Gate
  <2>. QED
    BY <1>1, <1>4, <2>1 DEF Queued, OneHolder, Marked
<1>. QED
  BY <1>6, <1>7 DEF Gate

-----------------------------------------------------------------------------
(* The viewers.                                                            *)

LEMMA CountedKept ==
  ASSUME Counted, viewing' = viewing,
         \A w \in Workspaces : state'[w].viewers = state[w].viewers
  PROVE  Counted'
  BY DEF Counted, Watching

LEMMA LeavingSound ==
  ASSUME IInv, NEW c \in Clients
  PROVE  /\ AfterLeaving(c) \in [Workspaces -> Record]
         /\ \A w \in Workspaces :
              LET l == AfterLeaving(c)[w] IN
              /\ Sound(l)
              /\ l.inFlight = state[w].inFlight /\ l.waiters = state[w].waiters
              /\ ~state[w].blocked => ~l.blocked
              /\ l.viewers = Cardinality(Watching(w) \ {c})
<1> SUFFICES ASSUME NEW w \in Workspaces
             PROVE  LET l == AfterLeaving(c)[w] IN
                    /\ Sound(l)
                    /\ l.inFlight = state[w].inFlight /\ l.waiters = state[w].waiters
                    /\ ~state[w].blocked => ~l.blocked
                    /\ l.viewers = Cardinality(Watching(w) \ {c})
  BY DEF AfterLeaving, Sound
<1>1. Sound(state[w]) /\ state[w].viewers = Cardinality(Watching(w))
  BY DEF IInv, Unblocked, Counted
<1>2. IsFiniteSet(Watching(w))
  <2>1. Watching(w) \in SUBSET Clients
    BY DEF Watching
  <2>. QED  BY <2>1, FS_Subset, GateAssumption
<1>3. Cardinality(Watching(w)) \in Nat
  BY <1>2, FS_CardinalityType
<1>4. CASE viewing[c] = w
  <2>1. c \in Watching(w)
    BY <1>4 DEF Watching
  <2>2. Cardinality(Watching(w) \ {c}) = Cardinality(Watching(w)) - 1
    BY <1>2, <2>1, FS_RemoveElement
  <2>3. Watching(w) # {}
    BY <2>1
  <2>4. state[w].viewers # 0
    BY <1>1, <1>2, <2>3, FS_EmptySet
  <2>5. AfterLeaving(c)[w] = Left(state[w])
    BY <1>4 DEF AfterLeaving
  <2>. QED
    BY <1>1, <2>2, <2>4, <2>5, LeftSound
<1>5. CASE viewing[c] # w
  <2>1. Watching(w) \ {c} = Watching(w)
    BY <1>5 DEF Watching
  <2>2. AfterLeaving(c)[w] = state[w]
    BY <1>5 DEF AfterLeaving
  <2>. QED
    BY <1>1, <2>1, <2>2
<1>. QED
  BY <1>4, <1>5

LEMMA RegisterStep ==
  ASSUME IInv, NEW c \in Clients, NEW w \in Workspaces, RegisterViewer(c, w)
  PROVE  IInv'
<1> USE DEF RegisterViewer
<1> DEFINE l == AfterLeaving(c)
<1>1. PICK s \in Joined(l[w]) : state' = [l EXCEPT ![w] = s]
  OBVIOUS
<1>2. /\ l \in [Workspaces -> Record]
      /\ \A v \in Workspaces :
           /\ Sound(l[v])
           /\ l[v].inFlight = state[v].inFlight /\ l[v].waiters = state[v].waiters
           /\ ~state[v].blocked => ~l[v].blocked
           /\ l[v].viewers = Cardinality(Watching(v) \ {c})
  BY LeavingSound
<1> HIDE DEF l
<1>3. /\ Sound(s) /\ s.viewers = l[w].viewers + 1
      /\ s.inFlight = state[w].inFlight /\ s.waiters = state[w].waiters
      /\ ~state[w].blocked => ~s.blocked
  BY <1>1, <1>2, JoinedSound
<1>4. /\ state'[w] = s
      /\ \A v \in Workspaces \ {w} : state'[v] = l[v]
      /\ state' \in [Workspaces -> Record]
  BY <1>1, <1>2, <1>3 DEF Sound
<1>5. Typed'
  BY <1>4 DEF IInv, Typed
<1>6. Unblocked'
  BY <1>2, <1>3, <1>4 DEF IInv, Unblocked
<1>7. Counted'
  <2> SUFFICES ASSUME NEW v \in Workspaces
               PROVE  state'[v].viewers = Cardinality(Watching(v)')
    BY DEF Counted
  <2>1. IsFiniteSet(Watching(v) \ {c})
    <3>1. Watching(v) \ {c} \in SUBSET Clients
      BY DEF Watching
    <3>. QED  BY <3>1, FS_Subset, GateAssumption
  <2>2. CASE v = w
    <3>1. Watching(v)' = (Watching(v) \ {c}) \cup {c}
      BY <2>2 DEF Watching, IInv, Typed
    <3>2. Cardinality(Watching(v)') = Cardinality(Watching(v) \ {c}) + 1
      BY <2>1, <3>1, FS_AddElement
    <3>. QED
      BY <1>2, <1>3, <1>4, <2>2, <3>2
  <2>3. CASE v # w
    <3>1. Watching(v)' = Watching(v) \ {c}
      BY <2>3 DEF Watching, IInv, Typed
    <3>. QED
      BY <1>2, <1>4, <2>3, <3>1
  <2>. QED
    BY <2>2, <2>3
<1>8. Gate'
  <2>1. \A v \in Workspaces :
          state'[v].inFlight = state[v].inFlight /\ state'[v].waiters = state[v].waiters
    BY <1>2, <1>3, <1>4
  <2>2. \A v \in Workspaces : Queued(v) /\ OneHolder(v) /\ Marked(v)
    BY DEF IInv, Gate
  <2>. QED
    BY <2>1, <2>2 DEF Gate, Queued, OneHolder, Marked, HoldsGate
<1>. QED
  BY <1>5, <1>6, <1>7, <1>8 DEF IInv

LEMMA UnregisterStep ==
  ASSUME IInv, NEW c \in Clients, UnregisterViewer(c)
  PROVE  IInv'
<1> USE DEF UnregisterViewer
<1>1. /\ state' \in [Workspaces -> Record]
      /\ \A v \in Workspaces :
           /\ Sound(state'[v])
           /\ state'[v].inFlight = state[v].inFlight
           /\ state'[v].waiters = state[v].waiters
           /\ ~state[v].blocked => ~state'[v].blocked
           /\ state'[v].viewers = Cardinality(Watching(v) \ {c})
  BY LeavingSound
<1>2. Typed'
  BY <1>1 DEF IInv, Typed
<1>3. Unblocked'
  BY <1>1 DEF IInv, Unblocked
<1>4. Counted'
  <2>1. \A v \in Workspaces : Watching(v)' = Watching(v) \ {c}
    BY GateAssumption DEF Watching, IInv, Typed
  <2>. QED
    BY <1>1, <2>1 DEF Counted
<1>5. Gate'
  <2>1. \A v \in Workspaces : Queued(v) /\ OneHolder(v) /\ Marked(v)
    BY DEF IInv, Gate
  <2>2. call' = call /\ fetch' = fetch
    OBVIOUS
  <2>3. \A v \in Workspaces :
          state'[v].inFlight = state[v].inFlight /\ state'[v].waiters = state[v].waiters
    BY <1>1
  <2>4. \A o \in Calls, v \in Workspaces : HoldsGate(o, v)' <=> HoldsGate(o, v)
    BY <2>2 DEF HoldsGate
  <2>. QED
    BY <2>2, <2>3, <2>4, GateKept DEF IInv
<1>. QED
  BY <1>2, <1>3, <1>4, <1>5 DEF IInv

-----------------------------------------------------------------------------
(* Commands.                                                               *)

LEMMA CommandStep ==
  ASSUME IInv, NEW o \in Calls, NEW w \in Workspaces, NEW k \in Kinds,
         NEW x \in Contexts, NetworkCommand(o, w, k, x)
  PROVE  IInv'
<1> DEFINE rec(at) == [at |-> at, ws |-> w, kind |-> k, ctx |-> x]
<1>0. x \in {"gated", "bare"} /\ call[o].at = "unused" /\ fetch' = fetch
      /\ viewing' = viewing
  BY GateAssumption DEF NetworkCommand
<1>1. \A v \in Workspaces : Sound(state[v])
  BY DEF IInv, Unblocked
<1>2. CASE /\ call' = [call EXCEPT ![o] = rec("running")]
           /\ x = "bare"
           /\ UNCHANGED state
  <2>1. Typed'
    BY <1>0, <1>2 DEF IInv, Typed, NetworkCommand, CallRecord
  <2>2. \A p \in Calls : call[p].at = "waiting" => call'[p] = call[p]
    BY <1>0, <1>2 DEF IInv, Typed
  <2>3. \A p \in Calls, v \in Workspaces : HoldsGate(p, v)' <=> HoldsGate(p, v)
    BY <1>0, <1>2 DEF IInv, Typed, HoldsGate
  <2>4. Gate'
    BY <1>0, <1>2, <2>2, <2>3, GateKept DEF IInv, SameGate
  <2>. QED
    BY <1>0, <1>2, <2>1, <2>4 DEF IInv, Unblocked, Counted, Watching
<1>3. CASE /\ x = "gated" /\ ~state[w].inFlight
           /\ call' = [call EXCEPT ![o] = rec("running")]
           /\ state' = [state EXCEPT ![w] = Granted(@)]
  <2>1. /\ Sound(Granted(state[w])) /\ Granted(state[w]).viewers = state[w].viewers
        /\ Granted(state[w]).waiters = state[w].waiters
        /\ Granted(state[w]).inFlight = TRUE
        /\ Granted(state[w]).blocked = state[w].blocked
    BY <1>1, GrantedSound
  <2>2. /\ state'[w] = Granted(state[w])
        /\ \A v \in Workspaces \ {w} : state'[v] = state[v]
        /\ state' \in [Workspaces -> Record]
    BY <1>3, <2>1 DEF IInv, Typed, Sound
  <2>3. Typed'
    BY <1>0, <1>3, <2>2 DEF IInv, Typed, NetworkCommand, CallRecord
  <2>4. Unblocked' /\ Counted'
    BY <1>0, <2>1, <2>2 DEF IInv, Unblocked, Counted, Watching
  <2>5. /\ call'[o].at = "running" /\ call'[o].ctx = "gated" /\ call'[o].ws = w
        /\ \A p \in Calls \ {o} : call'[p] = call[p]
    BY <1>3 DEF IInv, Typed
  <2>6. \A v \in Workspaces : Queued(v) /\ OneHolder(v) /\ Marked(v)
    BY DEF IInv, Gate
  <2>7. \A v \in Workspaces : Queued(v)'
    <3> SUFFICES ASSUME NEW v \in Workspaces  PROVE Queued(v)'
      OBVIOUS
    <3>1. state'[v].waiters = state[v].waiters
      BY <2>1, <2>2
    <3>2. state[v].waiters \in Seq(Calls)
      BY DEF IInv, Typed, Record
    <3>3. \A i \in 1..Len(state[v].waiters) : state[v].waiters[i] \in Calls
      BY <3>2
    <3>. QED
      BY <1>0, <2>5, <2>6, <3>1, <3>3 DEF Queued
  <2>8. \A p \in Calls : ~HoldsGate(p, w)
    BY <1>3, <2>6 DEF Marked
  <2>9. OneHolder(w)' /\ Marked(w)'
    BY <1>0, <1>3, <2>1, <2>2, <2>5, <2>6, <2>8 DEF OneHolder, Marked, HoldsGate
  <2>10. \A v \in Workspaces \ {w} : OneHolder(v)' /\ Marked(v)'
    BY <1>0, <2>2, <2>5, <2>6 DEF OneHolder, Marked, HoldsGate
  <2>. QED
    BY <2>3, <2>4, <2>7, <2>9, <2>10 DEF IInv, Gate
<1>4. CASE /\ x = "gated" /\ state[w].inFlight
           /\ call' = [call EXCEPT ![o] = rec("waiting")]
           /\ state' = [state EXCEPT ![w].waiters = Append(@, o)]
  <2> DEFINE q == state[w].waiters
  <2>0. q \in Seq(Calls) /\ state[w] \in Record
    BY DEF IInv, Typed, Record
  <2>1. /\ state'[w] = [state[w] EXCEPT !.waiters = Append(q, o)]
        /\ \A v \in Workspaces \ {w} : state'[v] = state[v]
    BY <1>4 DEF IInv, Typed
  <2>2. /\ Append(q, o) \in Seq(Calls) /\ Len(Append(q, o)) = Len(q) + 1
        /\ Len(q) \in Nat
        /\ \A i \in 1..Len(q) : Append(q, o)[i] = q[i] /\ q[i] \in Calls
        /\ Append(q, o)[Len(q) + 1] = o
    BY <2>0
  <2>3. /\ state'[w].waiters = Append(q, o)
        /\ state'[w].viewers = state[w].viewers
        /\ state'[w].inFlight = state[w].inFlight
        /\ state'[w].blocked = state[w].blocked
        /\ state'[w].failures = state[w].failures
        /\ state'[w].next = state[w].next
        /\ state'[w] \in Record
    BY <2>0, <2>1, <2>2 DEF Record
  <2>4. state' \in [Workspaces -> Record]
    BY <1>4, <2>1, <2>3 DEF IInv, Typed
  <2> HIDE DEF q
  <2>5. Typed'
    BY <1>0, <1>4, <2>4 DEF IInv, Typed, NetworkCommand, CallRecord
  <2>17. Sound(state'[w])
    BY <1>1, <2>3 DEF Sound
  <2>6. Unblocked' /\ Counted'
    <3>1. \A v \in Workspaces : /\ state'[v].viewers = state[v].viewers
                               /\ state'[v].blocked = state[v].blocked
      BY <2>1, <2>3
    <3>2. Counted'
      BY <1>0, <3>1 DEF IInv, Counted, Watching
    <3>3. \A v \in Workspaces : Sound(state'[v])
      BY <2>1, <2>17 DEF IInv, Unblocked
    <3>. QED BY <1>0, <3>1, <3>2, <3>3 DEF IInv, Unblocked
  <2>7. /\ call'[o].at = "waiting" /\ call'[o].ctx = "gated" /\ call'[o].ws = w
        /\ \A p \in Calls \ {o} : call'[p] = call[p]
    BY <1>4 DEF IInv, Typed
  <2>8. \A v \in Workspaces : Queued(v) /\ OneHolder(v) /\ Marked(v)
    BY DEF IInv, Gate
  <2>9. \A p \in Calls, v \in Workspaces : HoldsGate(p, v)' <=> HoldsGate(p, v)
    BY <1>0, <2>7 DEF HoldsGate
  <2>10. \A v \in Workspaces : OneHolder(v)' /\ Marked(v)'
    BY <1>0, <1>4, <2>1, <2>3, <2>8, <2>9 DEF OneHolder, Marked
  <2>11. ASSUME NEW v \in Workspaces \ {w}
         PROVE  Queued(v)'
    <3>1. state[v].waiters \in Seq(Calls)
      BY DEF IInv, Typed, Record
    <3>2. \A i \in 1..Len(state[v].waiters) : state[v].waiters[i] \in Calls
      BY <3>1
    <3>. QED
      BY <1>0, <2>1, <2>7, <2>8, <3>2 DEF Queued
  <2>12. \A i \in 1..Len(q) : q[i] # o
    BY <1>0, <2>8 DEF Queued, q
  <2>13. \A i \in 1..(Len(q) + 1) : i \in 1..Len(q) \/ i = Len(q) + 1
    BY <2>2
  <2>14. ASSUME NEW i \in 1..Len(Append(q, o))
         PROVE  /\ call'[Append(q, o)[i]].at = "waiting"
                /\ call'[Append(q, o)[i]].ctx = "gated"
                /\ call'[Append(q, o)[i]].ws = w
    <3>1. CASE i \in 1..Len(q)
      <4>1. call[q[i]].at = "waiting" /\ call[q[i]].ctx = "gated" /\ call[q[i]].ws = w
        BY <2>8, <3>1 DEF Queued, q
      <4>. QED
        BY <2>2, <2>7, <2>12, <3>1, <4>1
    <3>2. CASE i = Len(q) + 1
      BY <2>2, <2>7, <3>2
    <3>. QED
      BY <2>2, <2>13, <3>1, <3>2
  <2>15. ASSUME NEW i \in 1..Len(Append(q, o)), NEW j \in 1..Len(Append(q, o)),
                Append(q, o)[i] = Append(q, o)[j]
         PROVE  i = j
    <3>1. CASE i \in 1..Len(q) /\ j \in 1..Len(q)
      <4>1. q[i] = q[j]
        BY <2>2, <2>15, <3>1
      <4>. QED
        BY <2>8, <3>1, <4>1 DEF Queued, q
    <3>2. CASE ~(i \in 1..Len(q) /\ j \in 1..Len(q))
      BY <2>2, <2>12, <2>13, <2>15, <3>2
    <3>. QED
      BY <3>1, <3>2
  <2>16. Queued(w)'
    BY <2>3, <2>14, <2>15 DEF Queued
  <2>. QED
    BY <2>5, <2>6, <2>10, <2>11, <2>16 DEF IInv, Gate
<1>. QED
  BY <1>2, <1>3, <1>4 DEF NetworkCommand, Acquire

LEMMA EndStep ==
  ASSUME IInv, NEW o \in Calls, NEW ok \in BOOLEAN, CommandEnds(o, ok)
  PROVE  IInv'
<1> DEFINE w == call[o].ws
           ended == [call EXCEPT ![o] = IF ok /\ @.kind # "push"
                                          THEN [@ EXCEPT !.at = "recording"]
                                          ELSE Done]
<1>0. call[o].at = "running" /\ w \in Workspaces /\ call[o] \in CallRecord
      /\ fetch' = fetch /\ viewing' = viewing
  BY DEF CommandEnds, IInv, Typed
<1>1. /\ ended \in [Calls -> CallRecord]
      /\ \A p \in Calls \ {o} : ended[p] = call[p]
      /\ ended[o].at \in {"recording", "done"}
      /\ ended[o].at = "recording" => ended[o].ws = w
  <2>1. Done \in CallRecord /\ Done.at = "done"
    BY DEF Done, Unused, CallRecord, Kinds
  <2>2. [call[o] EXCEPT !.at = "recording"] \in CallRecord
        /\ [call[o] EXCEPT !.at = "recording"].at = "recording"
        /\ [call[o] EXCEPT !.at = "recording"].ws = w
    BY <1>0 DEF CallRecord
  <2>3. ended[o] = IF ok /\ call[o].kind # "push"
                     THEN [call[o] EXCEPT !.at = "recording"] ELSE Done
    BY DEF IInv, Typed
  <2>4. \A p \in Calls \ {o} : ended[p] = call[p]
    BY DEF IInv, Typed
  <2>5. ended \in [Calls -> CallRecord]
    BY <2>1, <2>2 DEF IInv, Typed
  <2> HIDE DEF ended, w
  <2>. QED
    BY <2>1, <2>2, <2>3, <2>4, <2>5
<1>2. CASE call[o].ctx = "bare" /\ call' = ended /\ UNCHANGED state
  <2>1. Typed'
    BY <1>0, <1>1, <1>2 DEF IInv, Typed, CommandEnds
  <2>2. \A p \in Calls : call[p].at = "waiting" => call'[p] = call[p]
    BY <1>0, <1>1, <1>2
  <2>3. \A p \in Calls, v \in Workspaces : HoldsGate(p, v)' <=> HoldsGate(p, v)
    BY <1>0, <1>1, <1>2 DEF HoldsGate
  <2>4. Gate'
    BY <1>0, <1>2, <2>2, <2>3, GateKept DEF IInv, SameGate
  <2>. QED
    BY <1>0, <1>2, <2>1, <2>4 DEF IInv, Unblocked, Counted, Watching
<1>3. CASE /\ call[o].ctx = "gated" /\ call' = Woken(w, ended)
           /\ \E s \in Released(state[w]) : state' = [state EXCEPT ![w] = s]
  <2>1. PICK r \in Released(state[w]) : state' = [state EXCEPT ![w] = r]
    BY <1>3
  <2> HIDE DEF ended, w
  <2>2. Sound(state[w]) /\ SameGate(state[w], state[w])
    BY <1>0 DEF IInv, Unblocked, SameGate
  <2>3. Sound(r) /\ r.viewers = state[w].viewers /\ r.blocked = state[w].blocked
    BY <2>1, <2>2, ReleasedSound
  <2>4. HoldsGate(o, w)
    BY <1>0, <1>3 DEF HoldsGate, w
  <2>5. OneHolder(w) /\ Marked(w) /\ Queued(w)
    BY <1>0 DEF IInv, Gate
  <2>6. /\ fetch[w].at = "idle" /\ state[w].inFlight
        /\ \A p \in Calls : HoldsGate(p, w) => p = o
    BY <2>4, <2>5 DEF OneHolder, Marked
  <2>7. \A p \in Calls : ~(ended[p].at = "running" /\ ended[p].ctx = "gated" /\ ended[p].ws = w)
    BY <1>1, <2>6 DEF HoldsGate
  <2>13. \A p \in Calls :
           \/ ended[p] = call[p]
           \/ HoldsGate(p, w) /\ ended[p].at \in {"recording", "done"}
    BY <1>1, <2>4
  <2>14. Typed /\ Gate /\ ended \in [Calls -> CallRecord]
         /\ call' = Woken(w, ended) /\ w \in Workspaces
         /\ fetch'[w].at = "idle" /\ \A v \in Workspaces \ {w} : fetch'[v] = fetch[v]
    BY <1>0, <1>1, <1>3, <2>6 DEF IInv
  <2>8. Gate'
    BY <2>1, <2>2, <2>6, <2>7, <2>13, <2>14, GateReleased
  <2>9. /\ state'[w] = r
        /\ \A v \in Workspaces \ {w} : state'[v] = state[v]
        /\ state' \in [Workspaces -> Record]
    BY <1>0, <2>1, <2>3 DEF IInv, Typed, Sound
  <2>10. Unblocked' /\ Counted'
    BY <1>0, <2>3, <2>9 DEF IInv, Unblocked, Counted, Watching
  <2>11. /\ call' \in [Calls -> CallRecord]
         /\ \A p \in Calls : call'[p].at \in {"waiting", "running", "recording"}
              => call'[p].ws \in Workspaces
    <3>1. \A p \in Calls : ended[p].at \in {"waiting", "running", "recording"}
              => ended[p].ws \in Workspaces
      BY <1>0, <1>1 DEF IInv, Typed
    <3>2. CASE state[w].waiters = <<>>
      BY <1>1, <1>3, <3>1, <3>2 DEF Woken
    <3>3. CASE state[w].waiters # <<>>
      <4> DEFINE h == Head(state[w].waiters)
      <4>1. h \in Calls /\ h = state[w].waiters[1] /\ 1 \in 1..Len(state[w].waiters)
        <5>1. state[w].waiters \in Seq(Calls)
          BY <1>0 DEF IInv, Typed, Record
        <5>. QED  BY <3>3, <5>1
      <4>2. call[h].ws = w /\ call[h].at = "waiting"
        BY <2>5, <4>1 DEF Queued
      <4>3. h # o
        BY <1>0, <4>2
      <4>4. call' = [ended EXCEPT ![h].at = "running"]
        BY <1>3, <3>3 DEF Woken, TakeWaiter
      <4>5. ended[h] = call[h] /\ ended[h] \in CallRecord
        BY <1>1, <4>1, <4>3
      <4> HIDE DEF h
      <4>6. call'[h] = [call[h] EXCEPT !.at = "running"]
            /\ \A p \in Calls \ {h} : call'[p] = ended[p]
        BY <1>1, <4>1, <4>4, <4>5
      <4>7. [call[h] EXCEPT !.at = "running"] \in CallRecord
            /\ [call[h] EXCEPT !.at = "running"].ws = w
        BY <4>2, <4>5 DEF CallRecord
      <4>. QED
        BY <1>0, <1>1, <3>1, <4>1, <4>4, <4>6, <4>7
    <3>. QED
      BY <3>2, <3>3
  <2>12. Typed'
    BY <2>9, <2>11 DEF IInv, Typed, CommandEnds
  <2>. QED
    BY <2>8, <2>10, <2>12 DEF IInv
<1>. QED
  BY <1>2, <1>3 DEF CommandEnds

LEMMA RecordStep ==
  ASSUME IInv, NEW o \in Calls, CommandRecords(o)
  PROVE  IInv'
<1> DEFINE w == call[o].ws
<1>0. /\ call[o].at = "recording" /\ w \in Workspaces
      /\ call' = [call EXCEPT ![o] = Done] /\ viewing' = viewing
      /\ fetch' = [fetch EXCEPT ![w].stale = (fetch[w].at = "granted")]
  BY DEF CommandRecords, IInv, Typed
<1>1. PICK s \in Succeeded(state[w]) : state' = [state EXCEPT ![w] = s]
  BY DEF CommandRecords
<1> HIDE DEF w
<1>2. Sound(s) /\ SameGate(s, state[w]) /\ ~s.blocked
  BY <1>0, <1>1, SucceededSound DEF IInv, Unblocked
<1>3. /\ state'[w] = s
      /\ \A v \in Workspaces \ {w} : state'[v] = state[v]
      /\ state' \in [Workspaces -> Record]
  BY <1>0, <1>1, <1>2 DEF IInv, Typed, Sound
<1>4. /\ fetch' \in [Workspaces -> FetchRecord]
      /\ \A v \in Workspaces : fetch'[v].at = fetch[v].at
  <2>1. /\ fetch \in [Workspaces -> FetchRecord]
        /\ [fetch[w] EXCEPT !.stale = (fetch[w].at = "granted")] \in FetchRecord
        /\ [fetch[w] EXCEPT !.stale = (fetch[w].at = "granted")].at = fetch[w].at
    BY <1>0 DEF IInv, Typed, FetchRecord
  <2>. QED
    BY <1>0, <2>1
<1>5. Done \in CallRecord /\ Done.at = "done"
  BY DEF Done, Unused, CallRecord, Kinds
<1>6. /\ call' \in [Calls -> CallRecord] /\ call'[o] = Done
      /\ \A p \in Calls \ {o} : call'[p] = call[p]
  BY <1>0, <1>5 DEF IInv, Typed
<1>7. Typed'
  BY <1>3, <1>4, <1>5, <1>6 DEF IInv, Typed, CommandRecords
<1>8. Unblocked' /\ Counted'
  <2>1. Counted'
    <3>1. \A v \in Workspaces : state'[v].viewers = state[v].viewers
      BY <1>2, <1>3 DEF SameGate
    <3>2. viewing' = viewing
      BY <1>0
    <3>. QED BY <3>1, <3>2 DEF IInv, Counted, Watching
  <2>2. Unblocked'
    BY <1>0, <1>2, <1>3, <1>4 DEF IInv, Unblocked, SameGate
  <2>. QED BY <2>1, <2>2
<1>9. \A p \in Calls : call[p].at = "waiting" => call'[p] = call[p]
  BY <1>0, <1>6
<1>10. \A p \in Calls, v \in Workspaces : HoldsGate(p, v)' <=> HoldsGate(p, v)
  BY <1>0, <1>5, <1>6 DEF HoldsGate
<1>11. Gate'
  BY <1>2, <1>3, <1>4, <1>9, <1>10, GateKept DEF IInv, SameGate
<1>. QED
  BY <1>7, <1>8, <1>11 DEF IInv

-----------------------------------------------------------------------------
(* The scheduler's fetches.                                                *)

\* What a step does to the gate of w alone, other workspaces as they were.
LEMMA FetchWorkspaceStep ==
  ASSUME IInv, NEW w \in Workspaces, NEW mode \in {"open", "periodic"},
         NEW s, Sound(s), SameGate(s, state[w]), s.blocked = state[w].blocked,
         FetchWorkspace(w, mode, s),
         UNCHANGED <<viewing, call, known, periodic, stopped>>,
         openTimers' \in [Workspaces -> 0..MaxTimers]
  PROVE  IInv'
<1>1. CASE ~(stopped \/ s.inFlight \/ s.blocked) /\ w \in known
  <2>1. /\ state' = [state EXCEPT ![w] = Granted(s)]
        /\ fetch' = [fetch EXCEPT ![w] =
                       [at |-> "granted", mode |-> mode, stale |-> FALSE]]
        /\ ~s.inFlight
    BY <1>1 DEF FetchWorkspace
  <2>2. /\ fetch' \in [Workspaces -> FetchRecord] /\ fetch'[w].at = "granted"
        /\ \A v \in Workspaces \ {w} : fetch'[v] = fetch[v]
    BY <2>1 DEF IInv, Typed, FetchRecord
  <2>3. /\ Sound(Granted(s)) /\ Granted(s).viewers = state[w].viewers
        /\ Granted(s).blocked = state[w].blocked
    BY GrantedSound DEF SameGate
  <2>4. /\ state'[w] = Granted(s)
        /\ \A v \in Workspaces \ {w} : state'[v] = state[v]
        /\ state' \in [Workspaces -> Record]
    BY <2>1, <2>3 DEF IInv, Typed, Sound
  <2>5. Gate'
    BY <2>1, <2>2, GateTaken DEF IInv
  <2>6. Typed'
    BY <2>2, <2>4 DEF IInv, Typed
  <2>7. Unblocked' /\ Counted'
    BY <2>2, <2>3, <2>4 DEF IInv, Unblocked, Counted, Watching
  <2>. QED
    BY <2>5, <2>6, <2>7 DEF IInv
<1>2. CASE stopped \/ s.inFlight \/ s.blocked \/ w \notin known
  <2>1. PICK r : /\ state' = [state EXCEPT ![w] = r]
                 /\ r = s \/ r = [s EXCEPT !.next = "none"]
                 /\ fetch' = fetch
    BY <1>2 DEF FetchWorkspace
  <2>2. Sound(r) /\ SameGate(r, state[w]) /\ r.blocked = state[w].blocked
    <3>1. CASE r = s
      BY <3>1
    <3>2. CASE r = [s EXCEPT !.next = "none"]
      BY <3>2 DEF Sound, Record, SameGate
    <3>. QED
      BY <2>1, <3>1, <3>2
  <2>3. /\ state'[w] = r
        /\ \A v \in Workspaces \ {w} : state'[v] = state[v]
        /\ state' \in [Workspaces -> Record]
    BY <2>1, <2>2 DEF IInv, Typed, Sound
  <2>4. Typed'
    BY <2>1, <2>3 DEF IInv, Typed
  <2>5. Unblocked' /\ Counted'
    BY <2>1, <2>2, <2>3 DEF IInv, Unblocked, Counted, Watching, SameGate
  <2>6. \A o \in Calls, v \in Workspaces : HoldsGate(o, v)' <=> HoldsGate(o, v)
    BY DEF HoldsGate
  <2>7. Gate'
    BY <2>1, <2>2, <2>3, <2>6, GateKept DEF IInv, SameGate
  <2>. QED
    BY <2>4, <2>5, <2>7 DEF IInv
<1>. QED
  BY <1>1, <1>2

\* The fetch of w leaves the gate with the state s.
LEMMA FetchLeaves ==
  ASSUME IInv, NEW w \in Workspaces, fetch[w].at # "idle",
         NEW s, Sound(s), SameGate(s, state[w]),
         NEW r \in Released(s), state' = [state EXCEPT ![w] = r],
         fetch' = [fetch EXCEPT ![w] = Idle],
         call' = Woken(w, call),
         UNCHANGED <<viewing, openTimers, known, periodic, stopped>>
  PROVE  IInv'
<1>1. /\ Sound(r) /\ r.viewers = state[w].viewers
  BY ReleasedSound DEF SameGate
<1>2. /\ state'[w] = r
      /\ \A v \in Workspaces \ {w} : state'[v] = state[v]
      /\ state' \in [Workspaces -> Record]
  BY <1>1 DEF IInv, Typed, Sound
<1>3. /\ fetch' \in [Workspaces -> FetchRecord] /\ fetch'[w].at = "idle"
      /\ \A v \in Workspaces \ {w} : fetch'[v] = fetch[v]
  BY DEF IInv, Typed, FetchRecord, Idle
<1>4. Queued(w) /\ OneHolder(w) /\ Marked(w)
  BY DEF IInv, Gate
<1>5. state[w].inFlight /\ \A o \in Calls : ~HoldsGate(o, w)
  BY <1>4 DEF OneHolder, Marked
<1>6. \A o \in Calls :
        ~(call[o].at = "running" /\ call[o].ctx = "gated" /\ call[o].ws = w)
  BY <1>5 DEF HoldsGate
<1>7. Typed /\ Gate /\ call \in [Calls -> CallRecord]
  BY DEF IInv, Typed
<1>8. Gate'
  BY <1>3, <1>5, <1>6, <1>7, GateReleased
<1>9. Unblocked' /\ Counted'
  BY <1>1, <1>2, <1>3 DEF IInv, Unblocked, Counted, Watching
<1>10. /\ call' \in [Calls -> CallRecord]
       /\ \A p \in Calls : call'[p].at \in {"waiting", "running", "recording"}
            => call'[p].ws \in Workspaces
  <2>1. CASE state[w].waiters = <<>>
    BY <2>1 DEF Woken, IInv, Typed
  <2>2. CASE state[w].waiters # <<>>
    <3> DEFINE h == Head(state[w].waiters)
    <3>1. h \in Calls /\ h = state[w].waiters[1] /\ 1 \in 1..Len(state[w].waiters)
      <4>1. state[w].waiters \in Seq(Calls)
        BY DEF IInv, Typed, Record
      <4>. QED  BY <2>2, <4>1
    <3>2. call[h].ws = w
      BY <1>4, <3>1 DEF Queued
    <3>3. call' = [call EXCEPT ![h].at = "running"]
      BY <2>2 DEF Woken, TakeWaiter
    <3> HIDE DEF h
    <3>4. [call[h] EXCEPT !.at = "running"] \in CallRecord
          /\ [call[h] EXCEPT !.at = "running"].ws = w
      BY <1>7, <3>1, <3>2 DEF CallRecord
    <3>5. call'[h] = [call[h] EXCEPT !.at = "running"]
          /\ \A p \in Calls \ {h} : call'[p] = call[p]
      BY <1>7, <3>1, <3>3
    <3>. QED
      BY <1>7, <3>1, <3>3, <3>4, <3>5 DEF IInv, Typed
  <2>. QED
    BY <2>1, <2>2
<1>11. Typed'
  BY <1>2, <1>3, <1>10 DEF IInv, Typed
<1>. QED
  BY <1>8, <1>9, <1>11 DEF IInv

\* Steps that leave commands and viewers alone and change what is known of
\* the fetches of one workspace.
LEMMA StateStep ==
  ASSUME IInv, NEW w \in Workspaces, NEW r, Sound(r), SameGate(r, state[w]),
         r.blocked = state[w].blocked,
         state' = [state EXCEPT ![w] = r],
         UNCHANGED <<viewing, fetch, call, known, periodic, stopped>>,
         openTimers' \in [Workspaces -> 0..MaxTimers]
  PROVE  IInv'
<1>1. /\ state'[w] = r
      /\ \A v \in Workspaces \ {w} : state'[v] = state[v]
      /\ state' \in [Workspaces -> Record]
  BY DEF IInv, Typed, Sound
<1>2. Typed'
  BY <1>1 DEF IInv, Typed
<1>3. Unblocked' /\ Counted'
  BY <1>1 DEF IInv, Unblocked, Counted, Watching, SameGate
<1>4. \A o \in Calls, v \in Workspaces : HoldsGate(o, v)' <=> HoldsGate(o, v)
  BY DEF HoldsGate
<1>5. Gate'
  BY <1>1, <1>4, GateKept DEF IInv, SameGate
<1>. QED
  BY <1>2, <1>3, <1>5 DEF IInv

\* Steps that touch neither the states of the workspaces nor the commands.
LEMMA QuietStep ==
  ASSUME IInv, UNCHANGED <<viewing, state, call>>,
         fetch' \in [Workspaces -> FetchRecord],
         \A w \in Workspaces :
           /\ fetch'[w].at = "idle" <=> fetch[w].at = "idle"
           /\ fetch'[w].at = "running" =>
                fetch[w].at = "running" \/ ~state[w].blocked,
         openTimers' \in [Workspaces -> 0..MaxTimers],
         known' \subseteq Openable, periodic' \in BOOLEAN, stopped' \in BOOLEAN
  PROVE  IInv'
<1>1. Typed'
  BY DEF IInv, Typed
<1>2. Unblocked' /\ Counted'
  BY DEF IInv, Unblocked, Counted, Watching
<1>3. \A o \in Calls, v \in Workspaces : HoldsGate(o, v)' <=> HoldsGate(o, v)
  BY DEF HoldsGate
<1>4. Gate'
  BY <1>3, GateKept DEF IInv
<1>. QED
  BY <1>1, <1>2, <1>4 DEF IInv

-----------------------------------------------------------------------------
(* The whole.                                                              *)

LEMMA Start == Init => IInv
<1> SUFFICES ASSUME Init  PROVE IInv
  OBVIOUS
<1> DEFINE s0 == [viewers |-> 0, last |-> "never", cooling |-> FALSE,
                  failures |-> 0, inFlight |-> FALSE, blocked |-> FALSE,
                  next |-> "none", waiters |-> <<>>]
<1>1. Sound(s0) /\ s0.viewers = 0 /\ s0.waiters = <<>> /\ ~s0.inFlight
  BY GateAssumption DEF Sound, Record
<1>2. state = [w \in Workspaces |-> s0]
  BY DEF Init
<1> HIDE DEF s0
<1>3. \A w \in Workspaces : state[w] = s0 /\ fetch[w].at = "idle"
  BY <1>2 DEF Init, Idle
<1>4. \A o \in Calls : call[o].at = "unused"
  BY DEF Init, Unused
<1>5. Typed
  <2>1. Unused \in CallRecord /\ Idle \in FetchRecord
    BY DEF Unused, CallRecord, Kinds, Idle, FetchRecord
  <2>2. 0 \in 0..MaxTimers
    BY GateAssumption
  <2>3. state \in [Workspaces -> Record]
    BY <1>1, <1>2 DEF Sound
  <2>. QED
    BY <1>4, <2>1, <2>2, <2>3 DEF Init, Typed
<1>6. Unblocked
  BY <1>1, <1>3 DEF Unblocked
<1>7. Counted
  <2>1. \A w \in Workspaces : Watching(w) = {}
    BY GateAssumption DEF Init, Watching
  <2>. QED
    BY <1>1, <1>3, <2>1, FS_EmptySet DEF Counted
<1>8. Gate
  BY <1>1, <1>3, <1>4 DEF Gate, Queued, OneHolder, Marked, HoldsGate
<1>. QED
  BY <1>5, <1>6, <1>7, <1>8 DEF IInv

LEMMA Step == IInv /\ [Next]_vars => IInv'
<1> SUFFICES ASSUME IInv, [Next]_vars  PROVE IInv'
  OBVIOUS
<1>0. /\ Typed /\ \A w \in Workspaces : Sound(state[w]) /\ SameGate(state[w], state[w])
      /\ \A w \in Workspaces : fetch[w].at = "running" => ~state[w].blocked
  BY DEF IInv, Unblocked, SameGate
<1>1. CASE \E c \in Clients, w \in Workspaces : RegisterViewer(c, w)
  BY <1>1, RegisterStep
<1>2. CASE \E c \in Clients : UnregisterViewer(c)
  BY <1>2, UnregisterStep
<1>3. CASE \E o \in Calls, w \in Workspaces, k \in Kinds, x \in Contexts :
             NetworkCommand(o, w, k, x)
  BY <1>3, CommandStep
<1>4. CASE \E o \in Calls, ok \in BOOLEAN : CommandEnds(o, ok)
  BY <1>4, EndStep
<1>5. CASE \E o \in Calls : CommandRecords(o)
  BY <1>5, RecordStep
<1>6. CASE \E w \in Openable : OpenWorkspace(w)
  <2>1. PICK w \in Openable : OpenWorkspace(w)
    BY <1>6
  <2>2. openTimers' \in [Workspaces -> 0..MaxTimers]
    <3>1. w \in Workspaces /\ openTimers[w] \in Nat
      BY <1>0, GateAssumption DEF Typed
    <3>2. \/ openTimers' = openTimers
          \/ openTimers' = [openTimers EXCEPT ![w] = openTimers[w] + 1] /\ openTimers'[w] <= MaxTimers
      BY <2>1 DEF OpenWorkspace
    <3>3. CASE openTimers' = [openTimers EXCEPT ![w] = openTimers[w] + 1] /\ openTimers'[w] <= MaxTimers
      <4>1. openTimers'[w] = openTimers[w] + 1
        BY <1>0, <3>1, <3>3 DEF Typed
      <4>2. openTimers[w] + 1 \in 0..MaxTimers
        BY <3>1, <3>3, <4>1, GateAssumption
      <4>. QED
        BY <1>0, <3>1, <3>3, <4>2 DEF Typed
    <3>. QED
      BY <1>0, <3>2, <3>3 DEF Typed
  <2>. QED
    BY <1>0, <2>1, <2>2, QuietStep DEF OpenWorkspace, Typed
<1>7. CASE \E w \in Workspaces : CloseWorkspace(w)
  BY <1>0, <1>7, QuietStep DEF CloseWorkspace, Typed
<1>8. CASE \E w \in Workspaces : OpenTimer(w)
  <2>1. PICK w \in Workspaces : OpenTimer(w)
    BY <1>8
  <2>2. openTimers' \in [Workspaces -> 0..MaxTimers]
    <3>1. openTimers[w] \in 0..MaxTimers /\ openTimers[w] > 0
      BY <1>0, <2>1 DEF Typed, OpenTimer
    <3>2. openTimers[w] - 1 \in 0..MaxTimers
      BY <3>1, GateAssumption
    <3>. QED
      BY <1>0, <2>1, <3>2 DEF Typed, OpenTimer
  <2>. QED
    BY <1>0, <2>1, <2>2, FetchWorkspaceStep DEF OpenTimer
<1>9. CASE \E w \in Workspaces : Tick(w)
  <2>1. PICK w \in Workspaces : Tick(w)
    BY <1>9
  <2>2. PICK s \in Scheduled(state[w], FALSE) :
          IF s.next = "due"
            THEN FetchWorkspace(w, "periodic", s)
            ELSE state' = [state EXCEPT ![w] = s] /\ UNCHANGED fetch
    BY <2>1 DEF Tick
  <2>3. Sound(s) /\ SameGate(s, state[w]) /\ s.blocked = state[w].blocked
    BY <1>0, <2>2, ScheduledSound
  <2>4. /\ UNCHANGED <<viewing, call, known, periodic, stopped>>
        /\ openTimers' \in [Workspaces -> 0..MaxTimers]
    BY <1>0, <2>1 DEF Tick, Typed
  <2>5. CASE s.next = "due"
    BY <2>2, <2>3, <2>4, <2>5, FetchWorkspaceStep
  <2>6. CASE s.next # "due"
    BY <2>2, <2>3, <2>4, <2>6, StateStep
  <2>. QED
    BY <2>5, <2>6
<1>10. CASE \E w \in Workspaces : FetchRuns(w)
  <2>1. PICK w \in Workspaces : FetchRuns(w)
    BY <1>10
  <2>2. /\ fetch[w].at = "granted" /\ ~state[w].blocked
        /\ fetch' = [fetch EXCEPT ![w] = [Idle EXCEPT !.at = "running"]]
    BY <2>1 DEF FetchRuns, StillWanted
  <2>3. /\ [Idle EXCEPT !.at = "running"] \in FetchRecord
        /\ [Idle EXCEPT !.at = "running"].at = "running"
    BY DEF Idle, FetchRecord
  <2>4. /\ fetch' \in [Workspaces -> FetchRecord] /\ fetch'[w].at = "running"
        /\ \A v \in Workspaces \ {w} : fetch'[v] = fetch[v]
    BY <1>0, <2>2, <2>3 DEF Typed
  <2>. QED
    BY <1>0, <2>1, <2>2, <2>4, QuietStep DEF FetchRuns, Typed
<1>11. CASE \E w \in Workspaces : FetchGivesUp(w)
  <2>1. PICK w \in Workspaces : FetchGivesUp(w)
    BY <1>11
  <2> DEFINE s == IF w \notin known /\ ~stopped /\ ~state[w].blocked
                    THEN [state[w] EXCEPT !.next = "none"] ELSE state[w]
  <2>2. Sound(s) /\ SameGate(s, state[w])
    BY <1>0 DEF Sound, Record, SameGate
  <2>3. PICK r \in Released(s) : state' = [state EXCEPT ![w] = r]
    BY <2>1 DEF FetchGivesUp
  <2> HIDE DEF s
  <2>. QED
    BY <2>1, <2>2, <2>3, FetchLeaves DEF FetchGivesUp
<1>12. CASE \E w \in Workspaces, ok \in BOOLEAN : FetchEnds(w, ok)
  <2>1. PICK w \in Workspaces, ok \in BOOLEAN : FetchEnds(w, ok)
    BY <1>12
  <2>2. PICK s \in IF ok THEN Succeeded(state[w]) ELSE Failed(state[w]) :
          \E r \in Released(s) : state' = [state EXCEPT ![w] = r]
    BY <2>1 DEF FetchEnds
  <2>3. ~state[w].blocked
    BY <1>0, <2>1 DEF FetchEnds
  <2>4. Sound(s) /\ SameGate(s, state[w])
    <3>1. CASE ok
      BY <1>0, <2>2, <3>1, SucceededSound
    <3>2. CASE ~ok
      BY <1>0, <2>2, <2>3, <3>2, FailedSound
    <3>. QED
      BY <3>1, <3>2
  <2>5. PICK r \in Released(s) : state' = [state EXCEPT ![w] = r]
    BY <2>2
  <2>. QED
    BY <2>1, <2>4, <2>5, FetchLeaves DEF FetchEnds
<1>13. CASE \E w \in Workspaces : Elapse(w) \/ CoolDown(w) \/ BecomesDue(w)
  <2>1. PICK w \in Workspaces : Elapse(w) \/ CoolDown(w) \/ BecomesDue(w)
    BY <1>13
  <2>2. /\ UNCHANGED <<viewing, fetch, call, openTimers, known, periodic, stopped>>
        /\ \/ state' = [state EXCEPT ![w].last = "past"]
           \/ state' = [state EXCEPT ![w].cooling = FALSE]
           \/ state[w].next = "later" /\ state' = [state EXCEPT ![w].next = "due"]
    BY <2>1 DEF Elapse, CoolDown, BecomesDue
  <2>3. Sound(state[w]) /\ state[w] \in Record
    BY <1>0 DEF Sound
  <2>4. CASE state' = [state EXCEPT ![w].last = "past"]
    <3> DEFINE r == [state[w] EXCEPT !.last = "past"]
    <3>1. Sound(r) /\ SameGate(r, state[w]) /\ r.blocked = state[w].blocked
      BY <2>3 DEF Sound, Record, SameGate
    <3>2. state' = [state EXCEPT ![w] = r]
      BY <1>0, <2>4 DEF Typed
    <3> HIDE DEF r
    <3>. QED
      BY <1>0, <2>2, <3>1, <3>2, StateStep DEF Typed
  <2>5. CASE state' = [state EXCEPT ![w].cooling = FALSE]
    <3> DEFINE r == [state[w] EXCEPT !.cooling = FALSE]
    <3>1. Sound(r) /\ SameGate(r, state[w]) /\ r.blocked = state[w].blocked
      BY <2>3 DEF Sound, Record, SameGate
    <3>2. state' = [state EXCEPT ![w] = r]
      BY <1>0, <2>5 DEF Typed
    <3> HIDE DEF r
    <3>. QED
      BY <1>0, <2>2, <3>1, <3>2, StateStep DEF Typed
  <2>6. CASE state[w].next = "later" /\ state' = [state EXCEPT ![w].next = "due"]
    <3> DEFINE r == [state[w] EXCEPT !.next = "due"]
    <3>1. Sound(r) /\ SameGate(r, state[w]) /\ r.blocked = state[w].blocked
      BY <2>3, <2>6 DEF Sound, Record, SameGate
    <3>2. state' = [state EXCEPT ![w] = r]
      BY <1>0, <2>6 DEF Typed
    <3> HIDE DEF r
    <3>. QED
      BY <1>0, <2>2, <3>1, <3>2, StateStep DEF Typed
  <2>. QED
    BY <2>2, <2>4, <2>5, <2>6
<1>14. CASE ChangePeriod
  BY <1>0, <1>14, QuietStep DEF ChangePeriod, Typed
<1>15. CASE Stop
  <2>1. 0 \in 0..MaxTimers
    BY GateAssumption
  <2>2. openTimers' \in [Workspaces -> 0..MaxTimers]
    BY <1>15, <2>1 DEF Stop
  <2>. QED
    BY <1>0, <1>15, <2>2, QuietStep DEF Stop, Typed
<1>16. CASE UNCHANGED vars
  BY <1>0, <1>16, QuietStep DEF vars, Typed
<1>. QED
  BY <1>1, <1>2, <1>3, <1>4, <1>5, <1>6, <1>7, <1>8, <1>9, <1>10, <1>11, <1>12,
     <1>13, <1>14, <1>15, <1>16 DEF Next

LEMMA Invariance == Spec => []IInv
<1>. QED
  BY Start, Step, PTL DEF Spec

(* The state of the scheduler and of the commands keeps its shape: no      *)
(* count goes below zero or over the number of clients, no failure is      *)
(* counted beyond the limit.                                               *)
THEOREM TypeCorrect == Spec => []TypeOK
<1>1. IInv => TypeOK
  <2> SUFFICES ASSUME IInv  PROVE TypeOK
    OBVIOUS
  <2>1. ASSUME NEW w \in Workspaces
        PROVE  state[w] \in FetchState
    <3>1. Watching(w) \in SUBSET Clients
      BY DEF Watching
    <3>2. /\ Cardinality(Clients) \in Nat
          /\ Cardinality(Watching(w)) <= Cardinality(Clients)
          /\ IsFiniteSet(Watching(w))
      BY <3>1, FS_Subset, FS_CardinalityType, GateAssumption
    <3>3. Cardinality(Watching(w)) \in Nat
      BY <3>2, FS_CardinalityType
    <3>4. state[w].viewers \in 0..Cardinality(Clients) /\ state[w] \in Record
      BY <3>2, <3>3 DEF IInv, Counted, Typed
    <3>. QED
      BY <3>4 DEF Record, FetchState
  <2>. QED
    BY <2>1 DEF IInv, Typed, TypeOK, CallRecord, FetchRecord
<1>. QED
  BY <1>1, Invariance, PTL

(* Operations that went through the gate of a workspace exclude each       *)
(* other, and the gate is marked exactly while one is in it.               *)
THEOREM GateExcludes == Spec => []GateExclusive
<1>1. IInv => GateExclusive
  <2> SUFFICES ASSUME IInv, NEW w \in Workspaces
               PROVE  /\ \A p, q \in Holders(w) : p = q
                      /\ state[w].inFlight <=> Holders(w) # {}
                      /\ state[w].waiters # <<>> => state[w].inFlight
    BY DEF GateExclusive
  <2>1. OneHolder(w) /\ Marked(w)
    BY DEF IInv, Gate
  <2>2. CASE fetch[w].at = "idle"
    <3>1. Holders(w) = {o \in Calls : HoldsGate(o, w)}
      BY <2>2 DEF Holders
    <3>. QED
      BY <2>1, <2>2, <3>1 DEF OneHolder, Marked
  <2>3. CASE fetch[w].at # "idle"
    <3>1. Holders(w) = {w}
      BY <2>1, <2>3 DEF Holders, OneHolder
    <3>. QED
      BY <2>1, <2>3, <3>1 DEF Marked
  <2>. QED
    BY <2>2, <2>3
<1>. QED
  BY <1>1, Invariance, PTL

(* Every workspace counts exactly the clients that look at it, and one     *)
(* that nobody looks at has no periodic fetch ahead.                       *)
THEOREM ViewersCounted == Spec => []ViewersExact
<1>1. IInv => ViewersExact
  BY DEF IInv, Unblocked, Counted, Watching, Sound, ViewersExact
<1>. QED
  BY <1>1, Invariance, PTL

(* A workspace is blocked exactly at the limit of failures in a row.       *)
THEOREM BlocksAtLimit == Spec => []BlockedAtLimit
<1>1. IInv => BlockedAtLimit
  BY DEF IInv, Unblocked, Sound, BlockedAtLimit
<1>. QED
  BY <1>1, Invariance, PTL
=============================================================================
