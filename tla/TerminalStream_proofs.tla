------------------------ MODULE TerminalStream_proofs ------------------------
(***************************************************************************)
(* The safety of TerminalStream, for every size of the ring buffer and of  *)
(* the stream buffer, any amount of output and any number of broken        *)
(* connections: no chunk is forgotten in silence, the reported position is *)
(* honest, and the live path never moves back.                             *)
(***************************************************************************)
EXTENDS TerminalStream, SequenceTheorems, WellFoundedInduction, TLAPS

----------------------------------------------------------------------------
(* Sequences                                                               *)

LEMMA Taken ==
  ASSUME NEW S, NEW s \in Seq(S), s # <<>>
  PROVE  /\ Tail(s) \in Seq(S) /\ Len(s) \in Nat \ {0} /\ Len(Tail(s)) = Len(s) - 1
         /\ Head(s) = s[1] /\ s[1] \in S
         /\ \A i \in 1..Len(Tail(s)) : i + 1 \in 1..Len(s) /\ Tail(s)[i] = s[i + 1]
         /\ \A i \in 2..Len(s) : i - 1 \in 1..Len(Tail(s)) /\ Tail(s)[i - 1] = s[i]
  BY HeadTailProperties

LEMMA Added ==
  ASSUME NEW S, NEW s \in Seq(S), NEW e \in S
  PROVE  /\ Append(s, e) \in Seq(S) /\ Len(s) \in Nat /\ Len(Append(s, e)) = Len(s) + 1
         /\ \A i \in 1..Len(s) : Append(s, e)[i] = s[i]
         /\ Append(s, e)[Len(s) + 1] = e
  BY AppendProperties

LEMMA Joined ==
  ASSUME NEW S, NEW s \in Seq(S), NEW t \in Seq(S)
  PROVE  /\ s \o t \in Seq(S) /\ Len(s) \in Nat /\ Len(t) \in Nat
         /\ Len(s \o t) = Len(s) + Len(t)
         /\ \A i \in 1..Len(s) : (s \o t)[i] = s[i]
         /\ \A i \in 1..Len(t) : (s \o t)[Len(s) + i] = t[i]
         /\ \A i \in (Len(s) + 1)..(Len(s) + Len(t)) :
              i - Len(s) \in 1..Len(t) /\ (s \o t)[i] = t[i - Len(s)]
<1>1. /\ s \o t \in Seq(S) /\ Len(s) \in Nat /\ Len(t) \in Nat
      /\ Len(s \o t) = Len(s) + Len(t)
      /\ \A i \in 1..(Len(s) + Len(t)) : (s \o t)[i] = IF i <= Len(s) THEN s[i] ELSE t[i - Len(s)]
  BY ConcatProperties
<1> QED BY <1>1

LEMMA Elements ==
  ASSUME NEW S, NEW s \in Seq(S)
  PROVE  /\ Len(s) \in Nat /\ DOMAIN s = 1..Len(s)
         /\ \A i \in 1..Len(s) : s[i] \in S
         /\ ToSet(s) = {s[i] : i \in 1..Len(s)}
         /\ s = <<>> <=> Len(s) = 0
  BY EmptySeq, LenProperties DEF ToSet

LEMMA SetWithin ==
  ASSUME NEW S, NEW s \in Seq(S)
  PROVE  ToSet(s) \subseteq S
  BY Elements

LEMMA SetTaken ==
  ASSUME NEW S, NEW s \in Seq(S), s # <<>>
  PROVE  ToSet(s) = {s[1]} \cup ToSet(Tail(s))
<1>1. Tail(s) \in Seq(S) /\ Len(s) \in Nat \ {0} /\ Len(Tail(s)) = Len(s) - 1
      /\ (\A i \in 1..Len(Tail(s)) : i + 1 \in 1..Len(s) /\ Tail(s)[i] = s[i + 1])
      /\ \A i \in 2..Len(s) : i - 1 \in 1..Len(Tail(s)) /\ Tail(s)[i - 1] = s[i]
  BY Taken
<1>2. ToSet(s) = {s[i] : i \in 1..Len(s)} /\ ToSet(Tail(s)) = {Tail(s)[i] : i \in 1..Len(Tail(s))}
  BY <1>1, Elements
<1>3. ToSet(s) \subseteq {s[1]} \cup ToSet(Tail(s))
  <2> SUFFICES ASSUME NEW i \in 1..Len(s), i # 1 PROVE s[i] \in ToSet(Tail(s))
    BY <1>2
  <2>1. i \in 2..Len(s)
    BY <1>1
  <2> QED BY <2>1, <1>1, <1>2
<1>4. {s[1]} \cup ToSet(Tail(s)) \subseteq ToSet(s)
  BY <1>1, <1>2
<1> QED BY <1>3, <1>4

LEMMA SetAdded ==
  ASSUME NEW S, NEW s \in Seq(S), NEW e \in S
  PROVE  ToSet(Append(s, e)) = ToSet(s) \cup {e}
<1>1. Append(s, e) \in Seq(S) /\ Len(s) \in Nat /\ Len(Append(s, e)) = Len(s) + 1
      /\ (\A i \in 1..Len(s) : Append(s, e)[i] = s[i]) /\ Append(s, e)[Len(s) + 1] = e
  BY Added
<1> DEFINE u == Append(s, e)
<1>0. u \in Seq(S) /\ Len(u) = Len(s) + 1
  BY <1>1
<1> HIDE DEF u
<1>5. ToSet(u) = {u[i] : i \in 1..(Len(s) + 1)}
  BY <1>0, Elements
<1>2. ToSet(s) = {s[i] : i \in 1..Len(s)}
      /\ ToSet(Append(s, e)) = {Append(s, e)[i] : i \in 1..(Len(s) + 1)}
  BY <1>5, Elements DEF u
<1>3. ToSet(s) \cup {e} \subseteq ToSet(Append(s, e))
  BY <1>1, <1>2
<1>4. ToSet(Append(s, e)) \subseteq ToSet(s) \cup {e}
  BY <1>1, <1>2
<1> QED BY <1>3, <1>4

LEMMA SetJoined ==
  ASSUME NEW S, NEW s \in Seq(S), NEW t \in Seq(S)
  PROVE  ToSet(s \o t) = ToSet(s) \cup ToSet(t)
<1>1. /\ s \o t \in Seq(S) /\ Len(s) \in Nat /\ Len(t) \in Nat
      /\ Len(s \o t) = Len(s) + Len(t)
      /\ \A i \in 1..Len(s) : (s \o t)[i] = s[i]
      /\ \A i \in 1..Len(t) : (s \o t)[Len(s) + i] = t[i]
      /\ \A i \in (Len(s) + 1)..(Len(s) + Len(t)) :
           i - Len(s) \in 1..Len(t) /\ (s \o t)[i] = t[i - Len(s)]
  BY Joined
<1> DEFINE u == s \o t
<1>0. u \in Seq(S) /\ Len(u) = Len(s) + Len(t)
  BY <1>1
<1> HIDE DEF u
<1>5. ToSet(u) = {u[i] : i \in 1..(Len(s) + Len(t))}
  BY <1>0, Elements
<1>2. /\ ToSet(s) = {s[i] : i \in 1..Len(s)} /\ ToSet(t) = {t[i] : i \in 1..Len(t)}
      /\ ToSet(s \o t) = {(s \o t)[i] : i \in 1..(Len(s) + Len(t))}
  BY <1>5, Elements DEF u
<1>3. ToSet(s) \cup ToSet(t) \subseteq ToSet(s \o t)
  <2>1. \A i \in 1..Len(s) : i \in 1..(Len(s) + Len(t)) /\ s[i] = (s \o t)[i]
    BY <1>1
  <2>2. \A i \in 1..Len(t) : Len(s) + i \in 1..(Len(s) + Len(t)) /\ t[i] = (s \o t)[Len(s) + i]
    BY <1>1
  <2> QED BY <2>1, <2>2, <1>2
<1>4. ToSet(s \o t) \subseteq ToSet(s) \cup ToSet(t)
  <2> SUFFICES ASSUME NEW i \in 1..(Len(s) + Len(t)) PROVE (s \o t)[i] \in ToSet(s) \cup ToSet(t)
    BY <1>2
  <2>1. CASE i \in 1..Len(s)
    BY <2>1, <1>1, <1>2
  <2>2. CASE i \in (Len(s) + 1)..(Len(s) + Len(t))
    BY <2>2, <1>1, <1>2
  <2> QED BY <2>1, <2>2, <1>1
<1> QED BY <1>3, <1>4

LEMMA Cut ==
  ASSUME NEW S, NEW s \in Seq(S), NEW m \in 1..(Len(s) + 1), NEW n \in (m - 1)..Len(s)
  PROVE  /\ SubSeq(s, m, n) \in Seq(S) /\ Len(SubSeq(s, m, n)) = n - m + 1
         /\ \A i \in 1..(n - m + 1) : i + m - 1 \in 1..Len(s) /\ SubSeq(s, m, n)[i] = s[i + m - 1]
<1>1. Len(s) \in Nat /\ \A i \in 1..Len(s) : s[i] \in S
  BY Elements
<1>2. m \in Int /\ n \in Int /\ \A i \in m..n : s[i] \in S
  BY <1>1
<1>3. /\ SubSeq(s, m, n) \in Seq(S)
      /\ Len(SubSeq(s, m, n)) = IF m <= n THEN n - m + 1 ELSE 0
      /\ \A i \in 1..(n - m + 1) : SubSeq(s, m, n)[i] = s[m + i - 1]
  BY <1>2, SubSeqProperties
<1> QED BY <1>1, <1>3

\* Every set of naturals that is not empty has a least element.
LEMMA Least ==
  ASSUME NEW T \in SUBSET Nat, T # {}
  PROVE  Min(T) \in T /\ \A x \in T : Min(T) <= x
<1>1. \E x \in T : \A y \in T : ~(<<y, x>> \in OpToRel(<, Nat))
  BY NatLessThanWellFounded, WFMin
<1>2. \A x, y \in Nat : y < x => <<y, x>> \in OpToRel(<, Nat)
  <2> SUFFICES ASSUME NEW x \in Nat, NEW y \in Nat, y < x PROVE <<y, x>> \in OpToRel(<, Nat)
    OBVIOUS
  <2>1. <<y, x>> \in Nat \X Nat /\ <<y, x>>[1] = y /\ <<y, x>>[2] = x
    OBVIOUS
  <2> QED BY <2>1 DEF OpToRel
<1>3. PICK x \in T : \A y \in T : ~(<<y, x>> \in OpToRel(<, Nat))
  BY <1>1
<1>4. \A y \in T : x <= y
  <2> SUFFICES ASSUME NEW y \in T PROVE x <= y
    OBVIOUS
  <2>1. x \in Nat /\ y \in Nat /\ ~(y < x)
    BY <1>2, <1>3
  <2> QED BY <2>1
<1> QED BY <1>4 DEF Min

----------------------------------------------------------------------------
(* The inductive invariant                                                 *)

Commands == {"reconcile", "replay", "snapshot"}
Decisions == {"noop", "useReplay", "useSnapshot"}
Deliveries == {"replayed", "too_old", "snapshotted"}
Replies == Decisions \cup Deliveries \cup {"activation_required"}
Answers == {"noop", "replayed", "snapshotted"}

\* Each direction carries its own messages, about output that was written.
Bounded(u, d, h) ==
  /\ \A i \in 1..Len(u) : u[i].kind \in ToServer /\ u[i].at <= h
  /\ \A i \in 1..Len(d) : /\ d[i].kind \in ToBrowser /\ d[i].at <= h
                          /\ d[i].kind = "output" => d[i].at >= 1

\* Output arrives in order: p was held back, b waits in the bucket, d is on its way.
InOrder(p, b, d) ==
  /\ \A i, j \in 1..Len(p) : i < j => p[i] < p[j]
  /\ \A i, j \in 1..Len(b) : i < j => b[i] < b[j]
  /\ \A i, j \in 1..Len(d) :
       i < j /\ d[i].kind = "output" /\ d[j].kind = "output" => d[i].at < d[j].at
  /\ \A i \in 1..Len(p), j \in 1..Len(b) : p[i] < b[j]
  /\ \A i \in 1..Len(p), j \in 1..Len(d) : d[j].kind = "output" => p[i] < d[j].at
  /\ \A i \in 1..Len(d), j \in 1..Len(b) : d[i].kind = "output" => d[i].at < b[j]

\* The coordinator has one command or its reply on the socket, and awaits it.
NoToken(u, d) ==
  /\ \A i \in 1..Len(u) : u[i].kind \notin Commands
  /\ \A i \in 1..Len(d) : d[i].kind \notin Replies
Tokens(u, d, r) ==
  /\ \A i, j \in 1..Len(u) : u[i].kind \in Commands /\ u[j].kind \in Commands => i = j
  /\ \A i, j \in 1..Len(d) : d[i].kind \in Replies /\ d[j].kind \in Replies => i = j
  /\ \A i \in 1..Len(u), j \in 1..Len(d) : ~(u[i].kind \in Commands /\ d[j].kind \in Replies)
  /\ \A i \in 1..Len(u) :
       /\ u[i].kind = "reconcile" => r = "decision"
       /\ u[i].kind \in {"replay", "snapshot"} => r = "data"
  /\ \A i \in 1..Len(d) :
       /\ d[i].kind \in Decisions => r = "decision"
       /\ d[i].kind \in Deliveries => r = "data"
       /\ d[i].kind = "activation_required" => r \in {"decision", "data"}

\* What the browser has of the output, by sequence number.
Ends(w) == {w[i].hi : i \in 1..Len(w)}
Shown == painted \cup skipped
Seen == {replayed, rendered} \cup Shown \cup ToSet(chunks) \cup Ends(writes)
Known == Seen \cup ToSet(pending)
Upto(S, p) == \A x \in S : x <= p

\* An answer is as new as everything the browser has or receives before it.
Fresh(d, S) ==
  \A i \in 1..Len(d) : d[i].kind \in Answers =>
    /\ Upto(S, d[i].at)
    /\ \A j \in 1..(i - 1) : d[j].kind = "output" => d[j].at <= d[i].at

\* What waits in xterm's queue belongs to the recovery that waits for it; the baseline
\* continues the screen and is as new as all of it.
Baseline(w, i) ==
  /\ recovery = "baseline" /\ ~live
  /\ Upto(Seen, w[i].hi) /\ 1..(w[i].lo - 1) \subseteq Shown
  /\ \A j \in 1..Len(w) : w[j].kind = "baseline" => i = j
Queued ==
  \A i \in 1..Len(writes) :
    /\ writes[i].hi <= head
    /\ writes[i].kind # "baseline" => writes[i].lo = writes[i].hi
    /\ writes[i].kind = "pending" => recovery = "pending"
    /\ writes[i].kind = "baseline" => Baseline(writes, i)

\* No request asks for less than what is rendered.
Asked(u, d, p) ==
  /\ \A i \in 1..Len(u) : u[i].kind \in {"reconcile", "replay"} => u[i].at <= p
  /\ \A i \in 1..Len(d) :
       /\ d[i].kind \in {"noop", "useReplay"} => d[i].at <= p
       /\ d[i].kind = "replayed" => d[i].from <= p
At == IF anchor = None THEN rendered ELSE anchor
Positions ==
  /\ anchor <= rendered
  /\ recovery = "data" => anchor # None
  /\ Asked(up, down, At)

\* While a baseline is written output is held back.  At other times what xterm was given,
\* and what was accepted for it, continues what it shows.
Upcoming(w, i) == {w[j].hi : j \in 1..i}
Continued ==
  IF recovery = "baseline" THEN ~live ELSE
    /\ 1..rendered \subseteq Shown
    /\ \A i \in 1..Len(writes) : 1..writes[i].hi \subseteq Shown \cup Upcoming(writes, i)
    /\ \A i \in 1..Len(chunks) :
         1..chunks[i] \subseteq Shown \cup Ends(writes) \cup {chunks[j] : j \in 1..i}
    /\ live /\ pending = <<>> => 1..replayed \subseteq Shown \cup Ends(writes) \cup ToSet(chunks)
    /\ live => \A i \in 1..Len(pending) : pending[i] > replayed + 1

\* The page asks again when it has the lease back, and the server forwards output from
\* the time on that it can answer.
Subscribes(u) == \E i \in 1..Len(u) : u[i].kind = "subscribe"
Opening ==
  /\ up[1].kind = "subscribe" /\ Len(down) = 0 /\ Len(bucket) = 0
  /\ (~mounted /\ recovery = "off") \/ \E i \in 2..Len(up) : up[i].kind = "reconcile"
Claims ==
  /\ activation # "active" => reclaimDue
  /\ activation = "active" => lease /\ connected
  /\ \A i \in 1..Len(down) : down[i].kind = "claimed" => lease /\ subscribed
  /\ \A i \in 1..Len(up) :
       up[i].kind = "claim" => subscribed \/ \E j \in 1..(i - 1) : up[j].kind = "subscribe"
  /\ connected /\ ~subscribed => Subscribes(up)
  /\ connected /\ ~subscribed /\ activation = "active" => Opening
  /\ ~connected => Len(up) = 0 /\ Len(down) = 0 /\ Len(bucket) = 0

IInv ==
  /\ TypeOK /\ Bounded(up, down, head)
  /\ InOrder(pending, bucket, down) /\ Tokens(up, down, recovery) /\ Fresh(down, Known)
  /\ Queued /\ Positions /\ Continued
  /\ Claims /\ Accounted

----------------------------------------------------------------------------
(* How the parts fare when a message is read or sent                       *)

LEMMA OrderRead ==
  ASSUME NEW d \in Seq(Message), d # <<>>, NEW p, NEW b, InOrder(p, b, d)
  PROVE  InOrder(p, b, Tail(d))
  BY Taken DEF InOrder

LEMMA OrderHeldBack ==
  ASSUME NEW d \in Seq(Message), d # <<>>, d[1].kind = "output",
         NEW S, NEW p \in Seq(S), d[1].at \in S, NEW b, InOrder(p, b, d)
  PROVE  InOrder(Append(p, d[1].at), b, Tail(d))
<1>1. /\ Len(p) \in Nat /\ Len(Append(p, d[1].at)) = Len(p) + 1
      /\ \A i \in 1..Len(p) : Append(p, d[1].at)[i] = p[i]
      /\ Append(p, d[1].at)[Len(p) + 1] = d[1].at
  BY Added
<1>2. InOrder(p, b, Tail(d))
  BY OrderRead
<1>3. 1 \in 1..Len(d) /\ \A i \in 1..Len(Tail(d)) : i + 1 \in 1..Len(d) /\ 1 < i + 1 /\ Tail(d)[i] = d[i + 1]
  BY Taken
<1>4. /\ \A i \in 1..Len(p) : p[i] < d[1].at
      /\ \A i \in 1..Len(Tail(d)) : Tail(d)[i].kind = "output" => d[1].at < Tail(d)[i].at
      /\ \A j \in 1..Len(b) : d[1].at < b[j]
  BY <1>3 DEF InOrder
<1> DEFINE q == Append(p, d[1].at)
<1>5. Len(q) = Len(p) + 1 /\ \A i \in 1..Len(q) : (i \in 1..Len(p) /\ q[i] = p[i]) \/ (i = Len(p) + 1 /\ q[i] = d[1].at)
  BY <1>1
<1> HIDE DEF q
<1>6. \A i, j \in 1..Len(q) : i < j => q[i] < q[j]
  BY <1>5, <1>4, <1>2, <1>1 DEF InOrder
<1>7. (\A i \in 1..Len(q), j \in 1..Len(b) : q[i] < b[j])
      /\ \A i \in 1..Len(q), j \in 1..Len(Tail(d)) : Tail(d)[j].kind = "output" => q[i] < Tail(d)[j].at
  BY <1>5, <1>4, <1>2 DEF InOrder
<1>8. InOrder(q, b, Tail(d))
  BY <1>6, <1>7, <1>2 DEF InOrder
<1> QED BY <1>8 DEF q

LEMMA OrderReleased ==
  ASSUME NEW d, NEW p, NEW b, InOrder(p, b, d)
  PROVE  InOrder(<<>>, b, d)
  BY EmptySeq DEF InOrder

LEMMA OrderSent ==
  ASSUME NEW d \in Seq(Message), NEW m \in Message, m.kind # "output", NEW p, NEW b, InOrder(p, b, d)
  PROVE  InOrder(p, b, Append(d, m))
<1>1. /\ Len(d) \in Nat /\ Len(Append(d, m)) = Len(d) + 1
      /\ \A i \in 1..Len(Append(d, m)) :
           (i \in 1..Len(d) /\ Append(d, m)[i] = d[i]) \/ (Append(d, m)[i] = m)
  <2>1. Len(d) \in Nat /\ Len(Append(d, m)) = Len(d) + 1
        /\ (\A i \in 1..Len(d) : Append(d, m)[i] = d[i]) /\ Append(d, m)[Len(d) + 1] = m
    BY Added
  <2> QED BY <2>1
<1>2. \A i \in 1..Len(Append(d, m)) :
        Append(d, m)[i].kind = "output" => i \in 1..Len(d) /\ Append(d, m)[i] = d[i]
  BY <1>1
<1> QED BY <1>2 DEF InOrder

LEMMA TokensRead ==
  ASSUME NEW d \in Seq(Message), d # <<>>, NEW u, NEW r, Tokens(u, d, r)
  PROVE  Tokens(u, Tail(d), r)
<1>1. \A i \in 1..Len(Tail(d)) : i + 1 \in 1..Len(d) /\ Tail(d)[i] = d[i + 1] /\ i \in Int
  BY Taken
<1>2. \A i, j \in 1..Len(Tail(d)) : Tail(d)[i].kind \in Replies /\ Tail(d)[j].kind \in Replies => i = j
  BY <1>1 DEF Tokens
<1> QED BY <1>1, <1>2 DEF Tokens

\* Without a recovery that awaits the server there is no token, and none once its
\* reply is read.
LEMMA NoTokenIdle ==
  ASSUME NEW u, NEW d, NEW r, Tokens(u, d, r), r \notin {"decision", "data"}
  PROVE  NoToken(u, d)
  BY DEF Tokens, NoToken, Commands, Replies, Decisions, Deliveries

LEMMA NoTokenRead ==
  ASSUME NEW d \in Seq(Message), d # <<>>, d[1].kind \in Replies, NEW u, NEW r, Tokens(u, d, r)
  PROVE  NoToken(u, Tail(d))
<1>1. 1 \in 1..Len(d) /\ \A i \in 1..Len(Tail(d)) : i + 1 \in 1..Len(d) /\ 1 # i + 1 /\ Tail(d)[i] = d[i + 1]
  BY Taken
<1> QED BY <1>1 DEF Tokens, NoToken

LEMMA NoTokenTail ==
  ASSUME NEW d \in Seq(Message), d # <<>>, NEW u, NoToken(u, d)
  PROVE  NoToken(u, Tail(d))
  BY Taken DEF NoToken

LEMMA TokensNone ==
  ASSUME NEW u, NEW d, NEW r, NoToken(u, d)
  PROVE  Tokens(u, d, r)
  BY DEF Tokens, NoToken, Commands, Replies, Decisions, Deliveries

LEMMA TokensAsked ==
  ASSUME NEW u \in Seq(Message), NEW d, NEW m \in Message, NEW r, NoToken(u, d),
         \/ m.kind = "reconcile" /\ r = "decision"
         \/ m.kind \in {"replay", "snapshot"} /\ r = "data"
         \/ m.kind \notin Commands
  PROVE  Tokens(Append(u, m), d, r)
<1>1. /\ Len(u) \in Nat /\ Len(Append(u, m)) = Len(u) + 1
      /\ (\A i \in 1..Len(u) : Append(u, m)[i] = u[i]) /\ Append(u, m)[Len(u) + 1] = m
  BY Added
<1>2. \A i \in 1..Len(Append(u, m)) : i \in 1..Len(u) \/ i = Len(u) + 1
  BY <1>1
<1>3. \A i \in 1..Len(Append(u, m)) :
        (Append(u, m)[i].kind \notin Commands) \/ (i = Len(u) + 1 /\ Append(u, m)[i] = m)
  BY <1>1, <1>2 DEF NoToken
<1> QED BY <1>3 DEF Tokens, NoToken, Commands, Replies, Decisions, Deliveries

\* A message that is no command changes nothing.
LEMMA TokensOther ==
  ASSUME NEW u \in Seq(Message), NEW d, NEW m \in Message, NEW r, Tokens(u, d, r), m.kind \notin Commands
  PROVE  Tokens(Append(u, m), d, r)
<1>1. /\ Len(u) \in Nat /\ Len(Append(u, m)) = Len(u) + 1
      /\ (\A i \in 1..Len(u) : Append(u, m)[i] = u[i]) /\ Append(u, m)[Len(u) + 1] = m
  BY Added
<1>2. \A i \in 1..Len(Append(u, m)) : i \in 1..Len(u) \/ i = Len(u) + 1
  BY <1>1
<1>3. \A i \in 1..Len(Append(u, m)) :
        Append(u, m)[i].kind \in Commands => i \in 1..Len(u) /\ Append(u, m)[i] = u[i]
  BY <1>1, <1>2
<1>4. \A i \in 1..Len(Append(u, m)) :
        Append(u, m)[i].kind \in {"reconcile", "replay", "snapshot"} => i \in 1..Len(u) /\ Append(u, m)[i] = u[i]
  BY <1>3 DEF Commands
<1> QED BY <1>3, <1>4 DEF Tokens

\* The server takes a command and answers it.
LEMMA TokensAnswered ==
  ASSUME NEW u \in Seq(Message), u # <<>>, NEW d \in Seq(Message), NEW m \in Message, NEW r,
         Tokens(u, d, r), u[1].kind \in Commands,
         m.kind \in Decisions => r = "decision", m.kind \in Deliveries => r = "data"
  PROVE  Tokens(Tail(u), Append(d, m), r)
<1>1. 1 \in 1..Len(u) /\ \A i \in 1..Len(Tail(u)) : i + 1 \in 1..Len(u) /\ 1 # i + 1 /\ Tail(u)[i] = u[i + 1]
  BY Taken
<1>2. \A i \in 1..Len(Tail(u)) : Tail(u)[i].kind \notin Commands
  BY <1>1 DEF Tokens
<1>3. \A j \in 1..Len(d) : d[j].kind \notin Replies
  BY <1>1 DEF Tokens
<1>4. /\ Len(d) \in Nat /\ Len(Append(d, m)) = Len(d) + 1
      /\ (\A i \in 1..Len(d) : Append(d, m)[i] = d[i]) /\ Append(d, m)[Len(d) + 1] = m
  BY Added
<1>5. \A i \in 1..Len(Append(d, m)) : i \in 1..Len(d) \/ i = Len(d) + 1
  BY <1>4
<1>6. \A i \in 1..Len(Append(d, m)) :
        (Append(d, m)[i].kind \notin Replies) \/ (i = Len(d) + 1 /\ Append(d, m)[i] = m)
  BY <1>3, <1>4, <1>5
<1>7. r \in {"decision", "data"}
  BY <1>1 DEF Tokens, Commands
<1> QED BY <1>2, <1>6, <1>7 DEF Tokens, Commands, Replies, Decisions, Deliveries

LEMMA TokensUnread ==
  ASSUME NEW u \in Seq(Message), u # <<>>, NEW d, NEW r, Tokens(u, d, r)
  PROVE  Tokens(Tail(u), d, r)
<1>1. \A i \in 1..Len(Tail(u)) : i + 1 \in 1..Len(u) /\ Tail(u)[i] = u[i + 1] /\ i \in Int
  BY Taken
<1>2. \A i, j \in 1..Len(Tail(u)) : Tail(u)[i].kind \in Commands /\ Tail(u)[j].kind \in Commands => i = j
  BY <1>1 DEF Tokens
<1> QED BY <1>1, <1>2 DEF Tokens

LEMMA TokensSent ==
  ASSUME NEW u, NEW d \in Seq(Message), NEW m \in Message, NEW r, Tokens(u, d, r), m.kind \notin Replies
  PROVE  Tokens(u, Append(d, m), r)
<1>1. /\ Len(d) \in Nat /\ Len(Append(d, m)) = Len(d) + 1
      /\ (\A i \in 1..Len(d) : Append(d, m)[i] = d[i]) /\ Append(d, m)[Len(d) + 1] = m
  BY Added
<1>2. \A i \in 1..Len(Append(d, m)) : i \in 1..Len(d) \/ i = Len(d) + 1
  BY <1>1
<1>3. \A i \in 1..Len(Append(d, m)) :
        Append(d, m)[i].kind \in Replies => i \in 1..Len(d) /\ Append(d, m)[i] = d[i]
  BY <1>1, <1>2
<1> QED BY <1>3 DEF Tokens, Replies, Decisions, Deliveries

LEMMA FreshRead ==
  ASSUME NEW d \in Seq(Message), d # <<>>, NEW S, Fresh(d, S)
  PROVE  Fresh(Tail(d), S)
<1>1. \A i \in 1..Len(Tail(d)) : i + 1 \in 1..Len(d) /\ Tail(d)[i] = d[i + 1] /\ i \in Int
  BY Taken
<1> QED BY <1>1 DEF Fresh

LEMMA FreshReceived ==
  ASSUME NEW d \in Seq(Message), d # <<>>, d[1].kind = "output", NEW S, Fresh(d, S)
  PROVE  Fresh(Tail(d), S \cup {d[1].at})
<1>1. \A i \in 1..Len(Tail(d)) : i + 1 \in 1..Len(d) /\ 1 \in 1..((i + 1) - 1) /\ Tail(d)[i] = d[i + 1]
  BY Taken
<1>2. Fresh(Tail(d), S)
  BY FreshRead
<1> QED BY <1>1, <1>2 DEF Fresh, Upto

LEMMA FreshNone ==
  ASSUME NEW u, NEW d, NoToken(u, d), NEW S
  PROVE  Fresh(d, S)
  BY DEF Fresh, NoToken, Answers, Replies, Decisions, Deliveries

LEMMA FreshLess ==
  ASSUME NEW d, NEW S, NEW T, T \subseteq S, Fresh(d, S)
  PROVE  Fresh(d, T)
  BY DEF Fresh, Upto

LEMMA FreshSent ==
  ASSUME NEW d \in Seq(Message), NEW m \in Message, NEW S, Fresh(d, S), Upto(S, m.at),
         \A i \in 1..Len(d) : d[i].at <= m.at
  PROVE  Fresh(Append(d, m), S)
<1>1. /\ Len(d) \in Nat /\ Len(Append(d, m)) = Len(d) + 1
      /\ (\A i \in 1..Len(d) : Append(d, m)[i] = d[i]) /\ Append(d, m)[Len(d) + 1] = m
  BY Added
<1>2. \A i \in 1..Len(Append(d, m)) : i \in 1..Len(d) \/ i = Len(d) + 1
  BY <1>1
<1>3. \A i \in 1..Len(d) : \A j \in 1..(i - 1) : j \in 1..Len(d)
  BY <1>1
<1>4. \A j \in 1..((Len(d) + 1) - 1) : j \in 1..Len(d)
  BY <1>1
<1> QED BY <1>1, <1>2, <1>3, <1>4 DEF Fresh

LEMMA FreshOther ==
  ASSUME NEW d \in Seq(Message), NEW m \in Message, NEW S, Fresh(d, S), m.kind \notin Answers
  PROVE  Fresh(Append(d, m), S)
<1>1. /\ Len(d) \in Nat /\ Len(Append(d, m)) = Len(d) + 1
      /\ (\A i \in 1..Len(d) : Append(d, m)[i] = d[i]) /\ Append(d, m)[Len(d) + 1] = m
  BY Added
<1>2. \A i \in 1..Len(Append(d, m)) : i \in 1..Len(d) \/ i = Len(d) + 1
  BY <1>1
<1>3. \A i \in 1..Len(d) : \A j \in 1..(i - 1) : j \in 1..Len(d)
  BY <1>1
<1> QED BY <1>1, <1>2, <1>3 DEF Fresh

LEMMA BoundedRead ==
  ASSUME NEW u, NEW d \in Seq(Message), d # <<>>, NEW h, Bounded(u, d, h)
  PROVE  Bounded(u, Tail(d), h)
  BY Taken DEF Bounded

LEMMA BoundedTaken ==
  ASSUME NEW u \in Seq(Message), u # <<>>, NEW d, NEW h, Bounded(u, d, h)
  PROVE  Bounded(Tail(u), d, h)
  BY Taken DEF Bounded

LEMMA BoundedAsked ==
  ASSUME NEW u \in Seq(Message), NEW d, NEW h, NEW m \in Message, Bounded(u, d, h),
         m.kind \in ToServer, m.at <= h
  PROVE  Bounded(Append(u, m), d, h)
<1>1. /\ Len(u) \in Nat /\ Len(Append(u, m)) = Len(u) + 1
      /\ (\A i \in 1..Len(u) : Append(u, m)[i] = u[i]) /\ Append(u, m)[Len(u) + 1] = m
  BY Added
<1>2. \A i \in 1..Len(Append(u, m)) : i \in 1..Len(u) \/ i = Len(u) + 1
  BY <1>1
<1> QED BY <1>1, <1>2 DEF Bounded

LEMMA BoundedSent ==
  ASSUME NEW u, NEW d \in Seq(Message), NEW h, NEW m \in Message, Bounded(u, d, h),
         m.kind \in ToBrowser, m.kind # "output", m.at <= h
  PROVE  Bounded(u, Append(d, m), h)
<1>1. /\ Len(d) \in Nat /\ Len(Append(d, m)) = Len(d) + 1
      /\ (\A i \in 1..Len(d) : Append(d, m)[i] = d[i]) /\ Append(d, m)[Len(d) + 1] = m
  BY Added
<1>2. \A i \in 1..Len(Append(d, m)) : i \in 1..Len(d) \/ i = Len(d) + 1
  BY <1>1
<1> QED BY <1>1, <1>2 DEF Bounded

LEMMA AskedRead ==
  ASSUME NEW u, NEW d \in Seq(Message), d # <<>>, NEW p, Asked(u, d, p)
  PROVE  Asked(u, Tail(d), p)
  BY Taken DEF Asked

LEMMA AskedTaken ==
  ASSUME NEW u \in Seq(Message), u # <<>>, NEW d, NEW p, Asked(u, d, p)
  PROVE  Asked(Tail(u), d, p)
  BY Taken DEF Asked

LEMMA AskedLater ==
  ASSUME NEW u \in Seq(Message), NEW d \in Seq(Message), NEW p \in Int, NEW q \in Int, p <= q, Asked(u, d, p)
  PROVE  Asked(u, d, q)
<1>1. (\A i \in 1..Len(u) : u[i] \in Message) /\ (\A i \in 1..Len(d) : d[i] \in Message)
  BY Elements
<1>2. \A m \in Message : m.at \in Int /\ m.from \in Int
  BY StreamAssumption DEF Message, Seqs
<1> QED BY <1>1, <1>2 DEF Asked

LEMMA AskedNone ==
  ASSUME NEW u, NEW d, NoToken(u, d), NEW p
  PROVE  Asked(u, d, p)
  BY DEF Asked, NoToken, Commands, Replies, Decisions, Deliveries

LEMMA AskedMore ==
  ASSUME NEW u \in Seq(Message), NEW d, NEW p, NEW m \in Message, Asked(u, d, p),
         m.kind \in {"reconcile", "replay"} => m.at <= p
  PROVE  Asked(Append(u, m), d, p)
<1>1. /\ Len(u) \in Nat /\ Len(Append(u, m)) = Len(u) + 1
      /\ (\A i \in 1..Len(u) : Append(u, m)[i] = u[i]) /\ Append(u, m)[Len(u) + 1] = m
  BY Added
<1>2. \A i \in 1..Len(Append(u, m)) : i \in 1..Len(u) \/ i = Len(u) + 1
  BY <1>1
<1> QED BY <1>1, <1>2 DEF Asked

LEMMA AskedSent ==
  ASSUME NEW u, NEW d \in Seq(Message), NEW p, NEW m \in Message, Asked(u, d, p),
         m.kind \in {"noop", "useReplay"} => m.at <= p, m.kind = "replayed" => m.from <= p
  PROVE  Asked(u, Append(d, m), p)
<1>1. /\ Len(d) \in Nat /\ Len(Append(d, m)) = Len(d) + 1
      /\ (\A i \in 1..Len(d) : Append(d, m)[i] = d[i]) /\ Append(d, m)[Len(d) + 1] = m
  BY Added
<1>2. \A i \in 1..Len(Append(d, m)) : i \in 1..Len(d) \/ i = Len(d) + 1
  BY <1>1
<1> QED BY <1>1, <1>2 DEF Asked

\* collectPendingReplayChunks keeps, in order, what lies beyond the covered position.
LEMMA HeldFacts ==
  ASSUME TypeOK, NEW c \in Nat, \A i, j \in 1..Len(pending) : i < j => pending[i] < pending[j]
  PROVE  /\ Held(c) \in Seq(1..head) /\ Len(Held(c)) \in Nat
         /\ \A i \in 1..Len(Held(c)) : Held(c)[i] > c /\ Held(c)[i] \in 1..head
         /\ \A i, j \in 1..Len(Held(c)) : i < j => Held(c)[i] < Held(c)[j]
         /\ \A i \in 1..Len(Held(c)) : \E j \in 1..Len(pending) : Held(c)[i] = pending[j]
         /\ \A i \in 1..Len(pending) :
              pending[i] <= c \/ \E j \in 1..Len(Held(c)) : Held(c)[j] = pending[i]
<1> DEFINE I == {i \in 1..Len(pending) : pending[i] > c}
           f == Min(I)
<1>1. /\ head \in Nat /\ pending \in Seq(1..head) /\ Len(pending) \in Nat
      /\ \A i \in 1..Len(pending) : pending[i] \in 1..head
  <2>1. head \in Nat /\ pending \in Seq(1..head)
    BY StreamAssumption DEF TypeOK, Seqs
  <2> QED BY <2>1, Elements
<1>2. Held(c) = IF (IF I # {} THEN f ELSE 0) = 0 THEN <<>> ELSE SubSeq(pending, f, Len(pending))
  BY DEF Held, SelectInSeq
<1>3. CASE I = {}
  <2>1. Held(c) = <<>>
    BY <1>2, <1>3
  <2>2. Held(c) \in Seq(1..head) /\ Len(Held(c)) = 0
    BY <2>1, EmptySeq
  <2>3. \A i \in 1..Len(pending) : ~(pending[i] > c) /\ pending[i] \in Nat
    BY <1>3, <1>1
  <2>4. \A i \in 1..Len(pending) : pending[i] <= c
    BY <2>3
  <2> HIDE DEF I
  <2> QED BY <2>2, <2>4
<1>4. CASE I # {}
  <2>1. I \in SUBSET Nat
    BY <1>1
  <2> HIDE DEF I
  <2>2. f \in I /\ \A x \in I : f <= x
    BY <2>1, <1>4, Least
  <2> USE DEF I
  <2>3. f \in 1..Len(pending) /\ pending[f] > c /\ \A x \in 1..Len(pending) : pending[x] > c => f <= x
    BY <2>2
  <2> HIDE DEF I, f
  <2>4. Held(c) = SubSeq(pending, f, Len(pending))
    BY <1>2, <1>4, <2>3
  <2>5. f \in 1..(Len(pending) + 1) /\ Len(pending) \in (f - 1)..Len(pending)
    BY <2>3, <1>1
  <2>6. /\ SubSeq(pending, f, Len(pending)) \in Seq(1..head)
        /\ Len(SubSeq(pending, f, Len(pending))) = Len(pending) - f + 1
        /\ \A i \in 1..(Len(pending) - f + 1) :
             i + f - 1 \in 1..Len(pending) /\ SubSeq(pending, f, Len(pending))[i] = pending[i + f - 1]
    BY <2>5, <1>1, Cut
  <2> DEFINE h == SubSeq(pending, f, Len(pending))
  <2>7. /\ h \in Seq(1..head) /\ Len(h) = Len(pending) - f + 1
        /\ \A i \in 1..Len(h) : i + f - 1 \in 1..Len(pending) /\ h[i] = pending[i + f - 1]
    BY <2>6
  <2> HIDE DEF h
  <2>8. \A i \in 1..Len(h) : h[i] > c /\ h[i] \in 1..head
    <3> SUFFICES ASSUME NEW i \in 1..Len(h) PROVE h[i] > c /\ h[i] \in 1..head
      OBVIOUS
    <3>1. i + f - 1 \in 1..Len(pending) /\ h[i] = pending[i + f - 1] /\ (f = i + f - 1 \/ f < i + f - 1)
      BY <2>7, <2>3, <1>1
    <3>2. PICK k \in 1..Len(pending) : k = i + f - 1
      BY <3>1
    <3>3. h[i] = pending[k] /\ (f = k \/ f < k)
      BY <3>1, <3>2
    <3>4. pending[f] \in 1..head /\ pending[k] \in 1..head
      BY <2>3, <1>1
    <3>5. f = k \/ pending[f] < pending[k]
      BY <3>3, <2>3
    <3>6. pending[f] > c
      BY <2>3
    <3> QED BY <3>3, <3>4, <3>5, <3>6, <1>1
  <2>9. \A i, j \in 1..Len(h) : i < j => h[i] < h[j]
    <3> SUFFICES ASSUME NEW i \in 1..Len(h), NEW j \in 1..Len(h), i < j PROVE h[i] < h[j]
      OBVIOUS
    <3>1. i + f - 1 < j + f - 1
      BY <2>3, <2>7, <1>1
    <3> QED BY <3>1, <2>7
  <2>10. \A i \in 1..Len(pending) : pending[i] <= c \/ \E j \in 1..Len(h) : h[j] = pending[i]
    <3> SUFFICES ASSUME NEW i \in 1..Len(pending), ~(pending[i] <= c)
                 PROVE  \E j \in 1..Len(h) : h[j] = pending[i]
      OBVIOUS
    <3>1. f <= i
      BY <2>3, <1>1
    <3>2. (i - f + 1) \in 1..Len(h) /\ (i - f + 1) + f - 1 = i
      BY <3>1, <2>3, <2>7, <1>1
    <3> QED BY <3>2, <2>7
  <2>11. Len(h) \in Nat
    BY <2>7, Elements
  <2> QED BY <2>4, <2>7, <2>8, <2>9, <2>10, <2>11 DEF h
<1> QED BY <1>3, <1>4

----------------------------------------------------------------------------
(* What the invariant says of the values                                   *)

LEMMA Sorts ==
  ASSUME TypeOK
  PROVE  /\ head \in Nat /\ head <= MaxOut /\ MaxOut \in Nat
         /\ bucket \in Seq(1..head) /\ Len(bucket) \in Nat /\ \A i \in 1..Len(bucket) : bucket[i] \in 1..head
         /\ up \in Seq(Message) /\ Len(up) \in Nat /\ \A i \in 1..Len(up) : up[i] \in Message
         /\ down \in Seq(Message) /\ Len(down) \in Nat /\ \A i \in 1..Len(down) : down[i] \in Message
         /\ pending \in Seq(1..head) /\ Len(pending) \in Nat /\ \A i \in 1..Len(pending) : pending[i] \in 1..head
         /\ chunks \in Seq(1..head) /\ Len(chunks) \in Nat /\ \A i \in 1..Len(chunks) : chunks[i] \in 1..head
         /\ writes \in Seq(Write) /\ Len(writes) \in Nat /\ \A i \in 1..Len(writes) : writes[i] \in Write
         /\ replayed \in 0..head /\ rendered \in 0..head /\ anchor \in {None} \cup 0..head
         /\ At \in 0..head
<1>1. head \in Nat /\ head <= MaxOut /\ MaxOut \in Nat
  BY StreamAssumption DEF TypeOK, Seqs
<1>2. /\ bucket \in Seq(1..head) /\ pending \in Seq(1..head) /\ chunks \in Seq(1..head)
      /\ up \in Seq(Message) /\ down \in Seq(Message) /\ writes \in Seq(Write)
  BY DEF TypeOK
<1>3. /\ Len(bucket) \in Nat /\ \A i \in 1..Len(bucket) : bucket[i] \in 1..head
      /\ Len(pending) \in Nat /\ \A i \in 1..Len(pending) : pending[i] \in 1..head
      /\ Len(chunks) \in Nat /\ \A i \in 1..Len(chunks) : chunks[i] \in 1..head
  BY <1>2, Elements
<1>4. /\ Len(up) \in Nat /\ \A i \in 1..Len(up) : up[i] \in Message
      /\ Len(down) \in Nat /\ \A i \in 1..Len(down) : down[i] \in Message
  BY <1>2, Elements
<1>5. Len(writes) \in Nat /\ \A i \in 1..Len(writes) : writes[i] \in Write
  BY <1>2, Elements
<1>6. replayed \in 0..head /\ rendered \in 0..head /\ anchor \in {None} \cup 0..head
  BY DEF TypeOK
<1>7. At \in 0..head
  BY <1>6 DEF At
<1> QED BY <1>1, <1>2, <1>3, <1>4, <1>5, <1>6, <1>7

LEMMA Messages ==
  ASSUME NEW m \in Message
  PROVE  /\ m.kind \in ToServer \cup ToBrowser /\ m.at \in Nat /\ m.from \in Nat
         /\ m.at \in Seqs /\ m.from \in Seqs
  BY StreamAssumption DEF Message, Seqs

LEMMA WriteSorts ==
  ASSUME NEW w \in Write
  PROVE  w.lo \in Nat \ {0} /\ w.hi \in Nat /\ w.hi <= MaxOut
         /\ w.kind \in {"live", "baseline", "pending"}
  BY StreamAssumption DEF Write, Seqs

LEMMA MakesMessage ==
  ASSUME NEW kind \in ToServer \cup ToBrowser, NEW at \in Seqs
  PROVE  /\ Msg(kind, at) \in Message /\ Msg(kind, at).kind = kind /\ Msg(kind, at).at = at
         /\ Msg(kind, at).from = 0
  BY StreamAssumption DEF Msg, Message, Seqs

\* The browser is never ahead of the terminal.
LEMMA KnownBelow ==
  ASSUME TypeOK, Queued
  PROVE  /\ Upto(Known, head) /\ Known \subseteq Nat
         /\ Shown \subseteq 1..head
<1>1. Shown \subseteq 1..head
  BY DEF TypeOK, Shown
<1>2. ToSet(chunks) \subseteq 1..head /\ ToSet(pending) \subseteq 1..head
  <2>1. chunks \in Seq(1..head) /\ pending \in Seq(1..head)
    BY DEF TypeOK
  <2> QED BY <2>1, SetWithin
<1>3. \A x \in Ends(writes) : x \in Nat /\ x <= head
  BY Sorts, WriteSorts DEF Ends, Queued
<1>4. head \in Nat /\ replayed \in 0..head /\ rendered \in 0..head
  BY Sorts
<1>5. \A x \in Known : x \in Nat /\ x <= head
  BY <1>1, <1>2, <1>3, <1>4 DEF Known, Seen
<1> QED BY <1>1, <1>5 DEF Upto

\* The disjuncts of Accounted.
Resting(n) ==
  \/ n \in painted \cup skipped \cup ToSet(chunks)
  \/ \E i \in 1..Len(writes) : n \in writes[i].lo..writes[i].hi
Later(n) == \E later \in LaterFrames : later >= n

LEMMA AccountedParts == Accounted <=> \A n \in 1..head : Resting(n) \/ Later(n) \/ Fetched(n)
  BY DEF Accounted, Resting, Later

\* The messages about which Fetched speaks.
FetchedBy(m, n) ==
  \/ m.kind \in {"continuity_lost", "snapshot", "useSnapshot", "too_old"}
  \/ m.kind \in {"reconcile", "useReplay", "replay"} /\ m.at < n
  \/ m.kind \in {"replayed", "snapshotted"} /\ n \in (m.from + 1)..m.at

LEMMA FetchedParts ==
  ASSUME NEW n
  PROVE  Fetched(n) <=> \/ ~mounted \/ ~connected \/ reconcileDue \/ reclaimDue \/ queued # "none"
                        \/ \E m \in ToSet(up) \cup ToSet(down) : FetchedBy(m, n)
  BY DEF Fetched, OnItsWay, FetchedBy

\* What is fetched stays so unless the one message that tells of it is read.
LEMMA FetchedStays ==
  ASSUME NEW n, Fetched(n), NEW m0,
         ToSet(up) \subseteq ToSet(up') \cup {m0}, ToSet(down) \subseteq ToSet(down') \cup {m0},
         ~mounted => ~mounted', ~connected => ~connected', reconcileDue => reconcileDue',
         reclaimDue => reclaimDue', queued # "none" => queued' # "none"
  PROVE  Fetched(n)' \/ FetchedBy(m0, n)
<1>1. CASE ~mounted \/ ~connected \/ reconcileDue \/ reclaimDue \/ queued # "none"
  BY <1>1 DEF Fetched
<1>2. ASSUME NEW m \in ToSet(up) \cup ToSet(down), FetchedBy(m, n), m # m0 PROVE Fetched(n)'
  <2>1. m \in ToSet(up') \cup ToSet(down')
    BY <1>2
  <2> QED BY <1>2, <2>1 DEF Fetched, OnItsWay, FetchedBy
<1> QED BY <1>1, <1>2, FetchedParts

LEMMA FetchedWhen ==
  ASSUME NEW n, NEW m \in ToSet(up') \cup ToSet(down'), FetchedBy(m, n)
  PROVE  Fetched(n)'
  BY DEF Fetched, OnItsWay, FetchedBy

LEMMA LaterStays ==
  ASSUME NEW n, Later(n), NEW m0, m0.kind # "output",
         ToSet(up) \subseteq ToSet(up') \cup {m0}, ToSet(down) \subseteq ToSet(down') \cup {m0},
         ToSet(bucket) \subseteq ToSet(bucket'), ToSet(pending) \subseteq ToSet(pending')
  PROVE  Later(n)'
<1> DEFINE M == ToSet(up) \cup ToSet(down)
           N == ToSet(up') \cup ToSet(down')
<1>1. \A m \in M : m # m0 => m \in N
  OBVIOUS
<1>2. CASE \E x \in ToSet(bucket) \cup ToSet(pending) : x >= n
  BY <1>2 DEF Later, LaterFrames
<1>3. CASE \E m \in M : m.kind = "output" /\ m.at >= n
  <2>1. PICK m \in N : m.kind = "output" /\ m.at >= n
    BY <1>3, <1>1
  <2> QED BY <2>1 DEF Later, LaterFrames, OnItsWay
<1> QED BY <1>2, <1>3 DEF Later, LaterFrames, OnItsWay

----------------------------------------------------------------------------
(* The coordinator                                                         *)

\* A recovery from p on was asked for, or will be when the connection is back.
Requested(u, p) == \E m \in ToSet(u) : m.kind = "reconcile" /\ m.at = p
OnlyAsks == up' = up \/ \E m \in Message : connected /\ m.kind = "reconcile" /\ up' = Append(up, m)

LEMMA ReconcileEffect ==
  ASSUME TypeOK, NEW reason \in Reasons, Reconcile(reason), NoToken(up, down'),
         Bounded(up, down', head), Position \in 0..head
  PROVE  /\ up' \in Seq(Message) /\ recovery' \in {"off", "decision"} /\ reconcileDue' \in BOOLEAN
         /\ Tokens(up', down', recovery') /\ Asked(up', down', Position) /\ Bounded(up', down', head)
         /\ OnlyAsks /\ ToSet(up) \subseteq ToSet(up')
         /\ reconcileDue => reconcileDue'
         /\ reconcileDue' \/ Requested(up', Position)
         /\ connected => up' # up
<1>1. CASE connected
  <2>1. PICK m : m = [Msg("reconcile", Position) EXCEPT !.reason = reason]
    OBVIOUS
  <2>2. /\ up' = Append(up, m) /\ recovery' = "decision" /\ reconcileDue' = reconcileDue
    BY <1>1, <2>1 DEF Reconcile
  <2>3. /\ m \in Message /\ m.kind = "reconcile" /\ m.at = Position
    <3>1. Position \in Seqs /\ head \in Nat /\ 0 \in Seqs
      BY Sorts, StreamAssumption DEF Seqs
    <3> HIDE DEF Position
    <3> QED BY <2>1, <3>1 DEF Msg, Message, ToServer
  <2>4. up' \in Seq(Message) /\ ToSet(up') = ToSet(up) \cup {m} /\ up' # up
    <3>1. up \in Seq(Message)
      BY Sorts
    <3>2. Len(up') = Len(up) + 1 /\ Len(up) \in Nat
      BY <2>2, <2>3, <3>1, Added
    <3> QED BY <2>2, <2>3, <3>1, <3>2, Added, SetAdded
  <2>5. Tokens(up', down', recovery')
    BY <2>2, <2>3, Sorts, TokensAsked
  <2>6. Asked(up', down', Position)
    <3>1. Asked(up, down', Position)
      BY AskedNone
    <3>2. m.at <= Position
      BY <2>3, Sorts
    <3> HIDE DEF Position
    <3> QED BY <2>2, <2>3, <3>1, <3>2, Sorts, AskedMore
  <2>7. Bounded(up', down', head)
    <3>1. m.at <= head /\ m.kind \in ToServer /\ up \in Seq(Message)
      BY <2>3, Sorts DEF ToServer
    <3> QED BY <2>2, <2>3, <3>1, BoundedAsked
  <2>8. Requested(up', Position)
    BY <2>3, <2>4 DEF Requested
  <2>9. reconcileDue \in BOOLEAN
    BY DEF TypeOK
  <2> QED BY <1>1, <2>2, <2>3, <2>4, <2>5, <2>6, <2>7, <2>8, <2>9 DEF OnlyAsks
<1>2. CASE ~connected
  <2>1. recovery' = "off" /\ reconcileDue' = TRUE /\ up' = up
    BY <1>2 DEF Reconcile
  <2>2. Tokens(up', down', recovery') /\ Asked(up', down', Position)
    BY <2>1, TokensNone, AskedNone
  <2> QED BY <1>2, <2>1, <2>2, Sorts DEF OnlyAsks
<1> QED BY <1>1, <1>2

\* queueRecovery while the positions stay: a recovery runs, waits, or is due.
LEMMA QueueEffect ==
  ASSUME TypeOK, NEW reason \in Reasons, Queue(reason), Tokens(up, down', recovery),
         Bounded(up, down', head), Asked(up, down', At), UNCHANGED <<anchor, rendered>>
  PROVE  /\ up' \in Seq(Message) /\ recovery' \in RecoveryPCs /\ reconcileDue' \in BOOLEAN
         /\ queued' \in Reasons \cup {"none"}
         /\ Tokens(up', down', recovery') /\ Asked(up', down', At) /\ Bounded(up', down', head)
         /\ OnlyAsks /\ ToSet(up) \subseteq ToSet(up')
         /\ reconcileDue => reconcileDue'
         /\ queued # "none" => queued' # "none"
         /\ queued' # "none" \/ reconcileDue' \/ Requested(up', At)
         /\ recovery # "off" => recovery' = recovery /\ queued' # "none"
         /\ recovery = "off" => recovery' \in {"off", "decision"}
         /\ connected /\ recovery = "off" => up' # up
<1>0. Position = At /\ At \in 0..head
  BY Sorts DEF Position, At
<1>1. CASE recovery = "off"
  <2>1. Reconcile(reason) /\ queued' = queued
    BY <1>1 DEF Queue
  <2>2. NoToken(up, down')
    BY <1>1, NoTokenIdle
  <2>3. Position \in 0..head
    BY <1>0
  <2> HIDE DEF Position
  <2>4. /\ up' \in Seq(Message) /\ recovery' \in {"off", "decision"} /\ reconcileDue' \in BOOLEAN
        /\ Tokens(up', down', recovery') /\ Asked(up', down', Position) /\ Bounded(up', down', head)
        /\ OnlyAsks /\ ToSet(up) \subseteq ToSet(up')
        /\ reconcileDue => reconcileDue'
        /\ reconcileDue' \/ Requested(up', Position)
        /\ connected => up' # up
    BY <2>1, <2>2, <2>3, ReconcileEffect
  <2>5. queued' \in Reasons \cup {"none"}
    BY <2>1 DEF TypeOK
  <2> QED BY <1>0, <1>1, <2>1, <2>4, <2>5 DEF RecoveryPCs
<1>2. CASE recovery # "off"
  <2>1. queued' = Merged(reason) /\ recovery' = recovery /\ reconcileDue' = reconcileDue /\ up' = up
    BY <1>2 DEF Queue
  <2>2. queued \in Reasons \cup {"none"} /\ recovery \in RecoveryPCs /\ reconcileDue \in BOOLEAN
    BY DEF TypeOK
  <2>3. queued' \in Reasons
    BY <2>1, <2>2 DEF Merged
  <2>4. queued' # "none"
    BY <2>3 DEF Reasons
  <2>5. up' \in Seq(Message)
    BY <2>1, Sorts
  <2> QED BY <1>2, <2>1, <2>2, <2>3, <2>4, <2>5 DEF OnlyAsks
<1> QED BY <1>1, <1>2

\* The loop of queueRecovery when a recovery is over.
LEMMA NextRecoveryEffect ==
  ASSUME TypeOK, NextRecovery, NoToken(up, down'), Bounded(up, down', head), Position \in 0..head
  PROVE  /\ up' \in Seq(Message) /\ recovery' \in {"off", "decision"} /\ reconcileDue' \in BOOLEAN
         /\ queued' = "none"
         /\ Tokens(up', down', recovery') /\ Asked(up', down', Position) /\ Bounded(up', down', head)
         /\ OnlyAsks /\ ToSet(up) \subseteq ToSet(up')
         /\ reconcileDue => reconcileDue'
         /\ queued # "none" => reconcileDue' \/ Requested(up', Position)
<1>0. queued \in Reasons \cup {"none"} /\ reconcileDue \in BOOLEAN
  BY DEF TypeOK
<1>1. CASE queued = "none"
  <2>1. recovery' = "off" /\ reconcileDue' = reconcileDue /\ up' = up /\ queued' = "none"
    BY <1>1 DEF NextRecovery
  <2>2. Tokens(up', down', recovery') /\ Asked(up', down', Position)
    BY <2>1, TokensNone, AskedNone
  <2> QED BY <1>0, <1>1, <2>1, <2>2, Sorts DEF OnlyAsks
<1>2. CASE queued # "none"
  <2>1. queued \in Reasons /\ Reconcile(queued) /\ queued' = "none"
    BY <1>0, <1>2 DEF NextRecovery
  <2> QED BY <2>1, ReconcileEffect
<1> QED BY <1>1, <1>2

\* setUiMode and the request for data, once the decision is read.
LEMMA RequestEffect ==
  ASSUME TypeOK, NEW kind \in {"replay", "snapshot"}, NEW at \in 0..head, Request(kind, at),
         NoToken(up, down'), Bounded(up, down', head), rendered' = rendered, anchor <= rendered,
         kind = "replay" => at <= At
  PROVE  /\ up' \in Seq(Message) /\ recovery' = "data" /\ queued' = queued
         /\ reconcileDue' = reconcileDue
         /\ anchor' \in 0..head /\ anchor' <= rendered /\ ui' = "loading" /\ At' = At
         /\ Tokens(up', down', recovery') /\ Asked(up', down', At') /\ Bounded(up', down', head)
         /\ \E m \in Message : m.kind = kind /\ m.at = at /\ up' = Append(up, m)
                               /\ ToSet(up') = ToSet(up) \cup {m}
<1>0. head \in Nat /\ head <= MaxOut /\ rendered \in 0..head /\ up \in Seq(Message)
      /\ anchor \in {None} \cup 0..head
  BY Sorts
<1>1. /\ ui' = "loading" /\ anchor' = (IF anchor = None THEN rendered ELSE anchor)
      /\ up' = Append(up, Msg(kind, at)) /\ recovery' = "data" /\ queued' = queued
      /\ reconcileDue' = reconcileDue
  BY DEF Request, ShowRecovering
<1>2. anchor' \in 0..head /\ anchor' <= rendered /\ anchor' # None /\ At' = At
  BY <1>0, <1>1 DEF At, None
<1>3. at \in Seqs /\ kind \in ToServer \cup ToBrowser /\ kind \in ToServer
  BY <1>0, StreamAssumption DEF Seqs, ToServer
<1>4. PICK m : m = Msg(kind, at)
  OBVIOUS
<1>5. m \in Message /\ m.kind = kind /\ m.at = at /\ up' = Append(up, m) /\ m.at <= head
  BY <1>1, <1>3, <1>4, MakesMessage
<1>6. up' \in Seq(Message) /\ ToSet(up') = ToSet(up) \cup {m}
  BY <1>0, <1>5, Added, SetAdded
<1>7. Tokens(up', down', recovery')
  BY <1>0, <1>1, <1>5, TokensAsked
<1>8. Bounded(up', down', head)
  BY <1>0, <1>3, <1>5, BoundedAsked
<1>9. Asked(up', down', At')
  <2>1. Asked(up, down', At)
    BY AskedNone
  <2>2. m.kind \in {"reconcile", "replay"} => m.at <= At
    BY <1>5
  <2>3. Asked(Append(up, m), down', At)
    BY <1>0, <1>5, <2>1, <2>2, AskedMore
  <2> QED BY <1>2, <1>5, <2>3
<1> QED BY <1>1, <1>2, <1>5, <1>6, <1>7, <1>8, <1>9

\* A step of the browser that reads a message at most and asks at most.
LEMMA ClaimsKept ==
  ASSUME TypeOK, Claims, OnlyAsks, UNCHANGED <<subscribed, lease, connected, bucket>>,
         \/ UNCHANGED <<activation, reclaimDue>>
         \/ activation' = "active" /\ lease /\ subscribed /\ connected
         \/ activation' = activation /\ reclaimDue',
         down' = down \/ (down # <<>> /\ down' = Tail(down)),
         connected /\ up' = up /\ recovery = "off" => mounted' = mounted /\ recovery' = "off"
  PROVE  Claims'
<1>0. /\ up \in Seq(Message) /\ Len(up) \in Nat /\ down \in Seq(Message) /\ Len(down) \in Nat
  BY Sorts
<1>1. /\ Len(up') \in Nat /\ Len(up) <= Len(up')
      /\ \A i \in 1..Len(up) : i \in 1..Len(up') /\ up'[i] = up[i]
      /\ \A i \in 1..Len(up') : i \in 1..Len(up) \/ (i = Len(up) + 1 /\ up'[i].kind = "reconcile")
      /\ up' # up => connected /\ Len(up') = Len(up) + 1 /\ up'[Len(up) + 1].kind = "reconcile"
  <2>1. CASE up' = up
    BY <1>0, <2>1
  <2>2. CASE up' # up
    <3>1. PICK m \in Message : connected /\ m.kind = "reconcile" /\ up' = Append(up, m)
      BY <2>2 DEF OnlyAsks
    <3>2. /\ Len(up') = Len(up) + 1
          /\ (\A i \in 1..Len(up) : up'[i] = up[i]) /\ up'[Len(up) + 1] = m
      BY <1>0, <3>1, Added
    <3> QED BY <1>0, <3>1, <3>2
  <2> QED BY <2>1, <2>2
<1>2. /\ \A i \in 1..Len(down') : \E j \in 1..Len(down) : down'[i] = down[j]
      /\ Len(down) = 0 => Len(down') = 0
  <2>1. CASE down' = down
    BY <2>1
  <2>2. CASE down # <<>> /\ down' = Tail(down)
    <3>1. Len(down) # 0 /\ \A i \in 1..Len(down') : i + 1 \in 1..Len(down) /\ down'[i] = down[i + 1]
      BY <1>0, <2>2, Taken
    <3> QED BY <3>1
  <2> QED BY <2>1, <2>2
<1>3. activation' # "active" => reclaimDue'
  BY DEF Claims
<1>4. activation' = "active" => lease'
  BY DEF Claims
<1>5. \A i \in 1..Len(down') : down'[i].kind = "claimed" => lease' /\ subscribed'
  BY <1>2 DEF Claims
<1>6. \A i \in 1..Len(up') :
        up'[i].kind = "claim" => subscribed' \/ \E j \in 1..(i - 1) : up'[j].kind = "subscribe"
  <2> SUFFICES ASSUME NEW i \in 1..Len(up'), up'[i].kind = "claim", ~subscribed
               PROVE  \E j \in 1..(i - 1) : up'[j].kind = "subscribe"
    OBVIOUS
  <2>1. i \in 1..Len(up) /\ up[i].kind = "claim"
    BY <1>1
  <2>2. PICK j \in 1..(i - 1) : up[j].kind = "subscribe"
    BY <2>1 DEF Claims
  <2>3. j \in 1..Len(up)
    BY <2>1, <1>0
  <2> QED BY <2>2, <2>3, <1>1
<1>7. connected' /\ ~subscribed' => Subscribes(up')
  BY <1>1 DEF Claims, Subscribes
<1>8. ASSUME connected', ~subscribed', activation' = "active" PROVE Opening'
  <2>1. connected /\ ~subscribed /\ activation = "active"
    BY <1>8 DEF Claims
  <2>2. Opening /\ \E i \in 1..Len(up) : up[i].kind = "subscribe"
    BY <2>1 DEF Claims, Subscribes
  <2>3. 1 \in 1..Len(up) /\ up'[1] = up[1] /\ up[1].kind = "subscribe"
    BY <2>2, <1>0, <1>1 DEF Opening
  <2>4. Len(down') = 0 /\ Len(bucket') = 0
    BY <2>2, <1>2 DEF Opening
  <2>5. (~mounted' /\ recovery' = "off") \/ \E i \in 2..Len(up') : up'[i].kind = "reconcile"
    <3>1. CASE up' # up
      <4>1. Len(up) + 1 \in 2..Len(up')
        BY <3>1, <1>0, <1>1, <2>3
      <4> QED BY <4>1, <3>1, <1>1
    <3>2. CASE up' = up /\ ~mounted /\ recovery = "off"
      BY <3>2, <2>1
    <3>3. CASE up' = up /\ \E i \in 2..Len(up) : up[i].kind = "reconcile"
      BY <3>3
    <3> QED BY <3>1, <3>2, <3>3, <2>2 DEF Opening
  <2> QED BY <2>3, <2>4, <2>5 DEF Opening
<1>9. ~connected' => Len(up') = 0 /\ Len(down') = 0 /\ Len(bucket') = 0
  BY <1>0, <1>1, <1>2 DEF Claims
<1> QED BY <1>3, <1>4, <1>5, <1>6, <1>7, <1>8, <1>9 DEF Claims

----------------------------------------------------------------------------
(* Steps of the coordinator alone                                          *)

\* Nothing is lost when a recovery is asked for from what is shown, or is due.
LEMMA AccountedAnew ==
  ASSUME head' \in Nat,
         \/ queued' # "none" \/ reconcileDue' \/ reclaimDue' \/ ~connected'
         \/ \E p \in Nat : Requested(up', p) /\ 1..p \subseteq Shown'
  PROVE  Accounted'
<1>1. CASE queued' # "none" \/ reconcileDue' \/ reclaimDue' \/ ~connected'
  BY <1>1 DEF Accounted, Fetched
<1>2. ASSUME NEW p \in Nat, Requested(up', p) /\ 1..p \subseteq Shown' PROVE Accounted'
  <2> SUFFICES ASSUME NEW n \in 1..head', n \notin Shown' PROVE Fetched(n)'
    BY DEF Accounted, Shown
  <2>1. p < n
    BY <1>2
  <2>2. PICK m \in ToSet(up') : m.kind = "reconcile" /\ m.at = p
    BY <1>2 DEF Requested
  <2>3. m \in OnItsWay({"reconcile", "useReplay", "replay"})' /\ m.at < n
    BY <2>1, <2>2 DEF OnItsWay
  <2> QED BY <2>3 DEF Fetched
<1> QED BY <1>1, <1>2

Calm == {"off", "decision", "data"}

\* The parts about the screen, when only the coordinator moves.
LEMMA ScreenStays ==
  ASSUME TypeOK, Queued, Continued,
         UNCHANGED <<head, live, replayed, rendered, pending, chunks, writes, painted, skipped>>,
         recovery' = recovery \/ {recovery, recovery'} \subseteq Calm
  PROVE  Queued' /\ Continued' /\ Known' = Known /\ Seen' = Seen /\ Shown' = Shown
<1>1. Known' = Known /\ Seen' = Seen /\ Shown' = Shown
  BY DEF Known, Seen, Shown, Ends
<1>2. (recovery = "baseline" <=> recovery' = "baseline") /\ (recovery = "pending" <=> recovery' = "pending")
  BY DEF Calm
<1>3. \A i \in 1..Len(writes) : Baseline(writes, i) => Baseline(writes, i)'
  BY <1>1, <1>2 DEF Baseline
<1>4. Queued'
  BY <1>2, <1>3 DEF Queued
<1>5. Continued'
  BY <1>1, <1>2 DEF Continued, Ends, Upcoming
<1> QED BY <1>1, <1>4, <1>5

\* A reason is queued, after a message at most that is neither output nor a reply.
LEMMA QueueSteps ==
  ASSUME IInv, NEW reason \in Reasons, Queue(reason),
         UNCHANGED <<head, bucket, connected, subscribed, lease, live, replayed, rendered, anchor,
                     pending, chunks, writes, ui, painted, skipped>>,
         down' = down \/ (down # <<>> /\ down' = Tail(down)),
         mounted' \in BOOLEAN, mounted => mounted', reclaimDue' \in BOOLEAN,
         \/ UNCHANGED <<activation, reclaimDue>>
         \/ activation' = "active" /\ lease /\ subscribed /\ connected
  PROVE  IInv'
<1>0. /\ TypeOK /\ Bounded(up, down, head) /\ Claims /\ Queued /\ Continued /\ Positions
      /\ InOrder(pending, bucket, down) /\ Tokens(up, down, recovery) /\ Fresh(down, Known)
  BY DEF IInv
<1>1. /\ up \in Seq(Message) /\ down \in Seq(Message) /\ At \in 0..head /\ head \in Nat
      /\ anchor \in {None} \cup 0..head /\ rendered \in 0..head
  BY <1>0, Sorts
<1>2. /\ Bounded(up, down', head) /\ Tokens(up, down', recovery) /\ Asked(up, down', At)
      /\ InOrder(pending, bucket, down') /\ Fresh(down', Known) /\ down' \in Seq(Message)
  <2>1. CASE down' = down
    BY <2>1, <1>0, <1>1 DEF Positions
  <2>2. CASE down # <<>> /\ down' = Tail(down)
    <3>1. Tail(down) \in Seq(Message)
      BY <1>1, <2>2, Taken
    <3>2. Bounded(up, Tail(down), head) /\ Tokens(up, Tail(down), recovery) /\ Asked(up, Tail(down), At)
      BY <1>0, <1>1, <2>2, BoundedRead, TokensRead, AskedRead DEF Positions
    <3>3. InOrder(pending, bucket, Tail(down)) /\ Fresh(Tail(down), Known)
      BY <1>0, <1>1, <2>2, OrderRead, FreshRead
    <3> QED BY <2>2, <3>1, <3>2, <3>3
  <2> QED BY <2>1, <2>2
<1>3. /\ up' \in Seq(Message) /\ recovery' \in RecoveryPCs /\ reconcileDue' \in BOOLEAN
      /\ queued' \in Reasons \cup {"none"}
      /\ Tokens(up', down', recovery') /\ Asked(up', down', At) /\ Bounded(up', down', head)
      /\ OnlyAsks /\ ToSet(up) \subseteq ToSet(up')
      /\ queued' # "none" \/ reconcileDue' \/ Requested(up', At)
      /\ recovery # "off" => recovery' = recovery /\ queued' # "none"
      /\ recovery = "off" => recovery' \in {"off", "decision"}
      /\ connected /\ recovery = "off" => up' # up
  BY <1>0, <1>2, QueueEffect
<1>4. TypeOK'
  BY <1>0, <1>2, <1>3 DEF TypeOK
<1>5. Queued' /\ Continued' /\ Known' = Known /\ Shown' = Shown
  <2>1. recovery' = recovery \/ {recovery, recovery'} \subseteq Calm
    BY <1>3 DEF Calm
  <2> QED BY <1>0, <2>1, ScreenStays
<1>6. Positions'
  <2>1. At' = At
    BY DEF At
  <2>2. recovery' = "data" => recovery = "data"
    BY <1>3
  <2> QED BY <1>0, <1>3, <2>1, <2>2 DEF Positions
<1>7. Claims'
  BY <1>0, <1>3, ClaimsKept
<1>8. Accounted'
  <2>1. CASE queued' # "none" \/ reconcileDue'
    BY <2>1, <1>1, AccountedAnew
  <2>2. CASE Requested(up', At) /\ recovery = "off"
    <3>1. At <= rendered /\ 1..rendered \subseteq Shown /\ At \in Nat
      BY <2>2, <1>0, <1>1 DEF Positions, Continued, At
    <3>2. 1..At \subseteq Shown'
      BY <3>1, <1>1, <1>5
    <3> QED BY <2>2, <3>1, <3>2, <1>1, AccountedAnew
  <2> QED BY <2>1, <2>2, <1>3
<1> QED BY <1>2, <1>3, <1>4, <1>5, <1>6, <1>7, <1>8 DEF IInv

\* Nobody asks: at most the flags and counters of the page change.
LEMMA QuietSteps ==
  ASSUME IInv, UNCHANGED <<server, socket, recovery, queued, activation, host, screen>>,
         reconcileDue' \in BOOLEAN, reclaimDue' \in BOOLEAN,
         reconcileDue => reconcileDue', reclaimDue => reclaimDue'
  PROVE  IInv'
<1>0. /\ TypeOK /\ Bounded(up, down, head) /\ Claims /\ Queued /\ Continued /\ Positions
      /\ InOrder(pending, bucket, down) /\ Tokens(up, down, recovery) /\ Fresh(down, Known)
      /\ Accounted
  BY DEF IInv
<1> USE DEF server, socket, host, screen
<1>1. TypeOK'
  BY <1>0 DEF TypeOK
<1>2. Queued' /\ Continued' /\ Known' = Known
  BY <1>0, ScreenStays
<1>3. Positions' /\ Claims'
  BY <1>0 DEF Positions, Claims, At, Asked, Opening, Subscribes
<1>4. Accounted'
  BY <1>0 DEF Accounted, Fetched, OnItsWay, LaterFrames
<1> QED BY <1>0, <1>1, <1>2, <1>3, <1>4 DEF IInv

LEMMA MountSteps ==
  ASSUME IInv, Mount
  PROVE  IInv'
<1>1. /\ Queue("initial_mount") /\ mounted' = TRUE
      /\ UNCHANGED <<rendered, anchor, server, connected, down, reclaimDue, activation, live, replayed,
                     pending, chunks, writes, ui, limits, screen>>
  BY DEF Mount
<1> QED BY <1>1, QueueSteps DEF Reasons, server, screen, IInv, TypeOK

LEMMA ResumeSteps ==
  ASSUME IInv, Resume
  PROVE  IInv'
<1>1. CASE connected
  <2>1. /\ Queue("foreground_resume")
        /\ UNCHANGED <<rendered, anchor, server, connected, down, reclaimDue, activation, live, replayed,
                       pending, chunks, writes, ui, mounted, screen>>
    BY <1>1 DEF Resume
  <2> QED BY <2>1, QueueSteps DEF Reasons, server, screen, IInv, TypeOK
<1>2. CASE ~connected
  BY <1>2, QuietSteps DEF Resume, server, socket, host, screen, IInv, TypeOK
<1> QED BY <1>1, <1>2

----------------------------------------------------------------------------
(* The flush of what was held back                                         *)

\* What follows a baseline: q is what waits in xterm's queue, all up to c is shown.
LEMMA FlushEffect ==
  ASSUME TypeOK, NEW c \in 0..head, NEW q \in Seq(Write), FlushHeld(c, q), UNCHANGED head,
         NoToken(up, down'), Bounded(up, down', head),
         \A i, j \in 1..Len(pending) : i < j => pending[i] < pending[j],
         painted' \subseteq 1..head, rendered' \in 0..head, c <= rendered', anchor <= rendered',
         1..rendered' \subseteq painted' \cup skipped,
         \A i \in 1..Len(q) : /\ q[i].kind = "live" /\ q[i].lo = q[i].hi /\ q[i].hi <= head
                              /\ 1..q[i].hi \subseteq painted' \cup skipped \cup Upcoming(q, i)
  PROVE  /\ pending' = <<>> /\ skipped' \subseteq 1..head /\ painted' \cup skipped \subseteq Shown'
         /\ ui' \in {"loading", "ready"} /\ anchor' \in {None} \cup 0..head /\ anchor' <= rendered'
         /\ up' \in Seq(Message) /\ recovery' \in {"off", "decision", "pending"}
         /\ reconcileDue' \in BOOLEAN /\ queued' \in Reasons \cup {"none"}
         /\ Tokens(up', down', recovery') /\ Asked(up', down', At') /\ Bounded(up', down', head)
         /\ OnlyAsks /\ ToSet(up) \subseteq ToSet(up') /\ (reconcileDue => reconcileDue')
         /\ queued # "none" => \/ queued' # "none" \/ reconcileDue'
                               \/ \E p \in Nat : Requested(up', p) /\ 1..p \subseteq Shown'
         /\ writes' \in Seq(Write)
         /\ \A i \in 1..Len(q) : i \in 1..Len(writes') /\ writes'[i] = q[i]
         /\ \A i \in 1..Len(writes') :
              /\ writes'[i].hi <= head /\ writes'[i].lo = writes'[i].hi
              /\ writes'[i].kind = "live" \/ (writes'[i].kind = "pending" /\ recovery' = "pending")
              /\ 1..writes'[i].hi \subseteq Shown' \cup Upcoming(writes', i)
         /\ \A i \in 1..Len(pending) : 1..pending[i] \subseteq Shown' \cup Ends(writes')
<1>1. /\ head \in Nat /\ head <= MaxOut /\ MaxOut \in Nat /\ c \in Nat /\ Len(q) \in Nat
      /\ pending \in Seq(1..head) /\ Len(pending) \in Nat /\ up \in Seq(Message)
      /\ \A i \in 1..Len(pending) : pending[i] \in 1..head
  BY Sorts, Elements
<1>2. PICK h : h = Held(c)
  OBVIOUS
<1>3. /\ h \in Seq(1..head) /\ Len(h) \in Nat
      /\ \A i \in 1..Len(h) : h[i] > c /\ h[i] \in 1..head
      /\ \A i, j \in 1..Len(h) : i < j => h[i] < h[j]
      /\ \A i \in 1..Len(pending) :
           pending[i] <= c \/ \E j \in 1..Len(h) : h[j] = pending[i]
  BY <1>1, <1>2, HeldFacts
<1>4. ToSet(h) = {h[i] : i \in 1..Len(h)} /\ (h = <<>> <=> Len(h) = 0) /\ Last(h) = h[Len(h)]
  BY <1>3, Elements DEF Last
<1>5. PICK g : g = [i \in 1..Len(h) |-> [lo |-> h[i], hi |-> h[i], kind |-> "pending"]]
  OBVIOUS
<1>6. /\ pending' = <<>> /\ writes' = q \o g
      /\ h = <<>> => Done /\ skipped' = skipped \ painted'
      /\ h # <<>> => /\ recovery' = "pending"
                     /\ skipped' = (skipped \cup ((c + 1)..Last(h) \ ToSet(h))) \ painted'
                     /\ UNCHANGED <<anchor, ui, queued, reconcileDue, up>>
  BY <1>2, <1>5 DEF FlushHeld
<1>7. g \in Seq(Write) /\ Len(g) = Len(h) /\ \A i \in 1..Len(g) : g[i].lo = h[i] /\ g[i].hi = h[i] /\ g[i].kind = "pending"
  <2>1. \A i \in 1..Len(h) : [lo |-> h[i], hi |-> h[i], kind |-> "pending"] \in Write
    BY <1>1, <1>3 DEF Write, Seqs
  <2>2. g \in [1..Len(h) -> Write]
    BY <1>5, <2>1
  <2>3. g \in Seq(Write) /\ Len(g) = Len(h)
    BY <2>2, <1>3, IsASeq, LenProperties
  <2> QED BY <2>3, <1>5
<1>8. /\ writes' \in Seq(Write) /\ Len(writes') = Len(q) + Len(h)
      /\ \A i \in 1..Len(q) : writes'[i] = q[i]
      /\ \A i \in 1..Len(h) : writes'[Len(q) + i] = g[i]
      /\ \A i \in (Len(q) + 1)..(Len(q) + Len(h)) : i - Len(q) \in 1..Len(h) /\ writes'[i] = g[i - Len(q)]
  <2>1. /\ q \o g \in Seq(Write) /\ Len(q \o g) = Len(q) + Len(g)
        /\ \A i \in 1..Len(q) : (q \o g)[i] = q[i]
        /\ \A i \in 1..Len(g) : (q \o g)[Len(q) + i] = g[i]
        /\ \A i \in (Len(q) + 1)..(Len(q) + Len(g)) :
             i - Len(q) \in 1..Len(g) /\ (q \o g)[i] = g[i - Len(q)]
    <3>1. g \in Seq(Write) /\ q \in Seq(Write)
      BY <1>7
    <3> QED BY <3>1, Joined
  <2> QED BY <2>1, <1>6, <1>7
<1>9. /\ skipped' \subseteq 1..head /\ painted' \cup skipped \subseteq Shown'
      /\ \A n \in (c + 1)..head : \A j \in 1..Len(h) : n <= h[j] => n \in Shown' \/ n \in ToSet(h)
  <2>1. skipped \subseteq 1..head
    BY DEF TypeOK
  <2>2. CASE h = <<>>
    <3>1. skipped' = skipped \ painted' /\ Len(h) = 0
      BY <2>2, <1>4, <1>6
    <3>2. skipped' \subseteq 1..head /\ painted' \cup skipped \subseteq Shown'
      BY <2>1, <3>1 DEF Shown
    <3> QED BY <3>1, <3>2
  <2>3. CASE h # <<>>
    <3>1. Last(h) \in 1..head /\ \A j \in 1..Len(h) : h[j] <= Last(h)
      <4>1. Len(h) \in 1..Len(h)
        BY <1>3, <1>4, <2>3
      <4> QED BY <4>1, <1>3, <1>4
    <3>2. \A n \in (c + 1)..head : \A j \in 1..Len(h) : n <= h[j] => n \in (c + 1)..Last(h)
      BY <3>1, <1>3, <1>1
    <3>3. (c + 1)..Last(h) \subseteq 1..head
      BY <3>1, <1>1
    <3>4. skipped' = (skipped \cup ((c + 1)..Last(h) \ ToSet(h))) \ painted'
      BY <2>3, <1>6
    <3> QED BY <2>1, <3>2, <3>3, <3>4 DEF Shown
  <2> QED BY <2>2, <2>3
<1>10. 1..c \subseteq Shown' /\ 1..rendered' \subseteq Shown'
  BY <1>9, <1>1
<1>11. \A j \in 1..Len(h) : 1..h[j] \subseteq Shown' \cup Upcoming(writes', Len(q) + j)
  <2> SUFFICES ASSUME NEW j \in 1..Len(h), NEW n \in 1..h[j], n \notin Shown'
               PROVE  n \in Upcoming(writes', Len(q) + j)
    OBVIOUS
  <2>1. n \in (c + 1)..head /\ n <= h[j]
    BY <1>1, <1>3, <1>10
  <2>2. PICK k \in 1..Len(h) : h[k] = n
    BY <2>1, <1>9, <1>4
  <2>3. k <= j
    BY <2>1, <2>2, <1>3
  <2>4. Len(q) + k \in 1..(Len(q) + j)
    BY <2>2, <2>3, <1>1, <1>3
  <2>5. writes'[Len(q) + k] = g[k]
    BY <2>2, <1>8
  <2>6. g[k].hi = n
    BY <2>2, <1>7
  <2> QED BY <2>4, <2>5, <2>6 DEF Upcoming
<1>12. \A i \in 1..Len(writes') :
         /\ writes'[i].hi <= head /\ writes'[i].lo = writes'[i].hi
         /\ writes'[i].kind = "live" \/ (writes'[i].kind = "pending" /\ recovery' = "pending")
         /\ 1..writes'[i].hi \subseteq Shown' \cup Upcoming(writes', i)
  <2> SUFFICES ASSUME NEW i \in 1..Len(writes')
               PROVE  /\ writes'[i].hi <= head /\ writes'[i].lo = writes'[i].hi
                      /\ writes'[i].kind = "live" \/ (writes'[i].kind = "pending" /\ recovery' = "pending")
                      /\ 1..writes'[i].hi \subseteq Shown' \cup Upcoming(writes', i)
    OBVIOUS
  <2>1. CASE i \in 1..Len(q)
    <3>1. writes'[i] = q[i] /\ \A k \in 1..i : writes'[k] = q[k]
      BY <2>1, <1>8, <1>1
    <3>2. Upcoming(writes', i) = Upcoming(q, i)
      BY <3>1 DEF Upcoming
    <3> QED BY <2>1, <3>1, <3>2, <1>9
  <2>2. CASE i \in (Len(q) + 1)..(Len(q) + Len(h))
    <3>1. PICK j \in 1..Len(h) : j = i - Len(q)
      BY <2>2, <1>8
    <3>2. i = Len(q) + j /\ writes'[i] = g[j] /\ g[j].hi = h[j] /\ g[j].lo = h[j] /\ g[j].kind = "pending"
      BY <3>1, <2>2, <1>7, <1>8, <1>1, <1>3, SMTT(20)
    <3>3. recovery' = "pending"
      BY <3>1, <1>3, <1>4, <1>6
    <3> QED BY <3>2, <3>3, <1>3, <1>11, <1>1
  <2> QED BY <2>1, <2>2, <1>8, <1>1, <1>3
<1>13. \A i \in 1..Len(pending) : 1..pending[i] \subseteq Shown' \cup Ends(writes')
  <2> SUFFICES ASSUME NEW i \in 1..Len(pending), NEW n \in 1..pending[i], n \notin Shown'
               PROVE  n \in Ends(writes')
    OBVIOUS
  <2>1. ~(pending[i] <= c)
    BY <1>10, <1>1
  <2>2. PICK j \in 1..Len(h) : h[j] = pending[i]
    BY <2>1, <1>3
  <2>3. PICK k \in 1..(Len(q) + j) : writes'[k].hi = n
    <3>1. n \in 1..h[j]
      BY <2>2
    <3>2. n \in Upcoming(writes', Len(q) + j)
      BY <3>1, <1>11
    <3> QED BY <3>2 DEF Upcoming
  <2>4. k \in 1..Len(writes')
    BY <1>1, <1>3, <1>8
  <2> QED BY <2>3, <2>4 DEF Ends
<1>14. /\ ui' \in {"loading", "ready"} /\ anchor' \in {None} \cup 0..head /\ anchor' <= rendered'
       /\ up' \in Seq(Message) /\ recovery' \in {"off", "decision", "pending"}
       /\ reconcileDue' \in BOOLEAN /\ queued' \in Reasons \cup {"none"}
       /\ Tokens(up', down', recovery') /\ Asked(up', down', At') /\ Bounded(up', down', head)
       /\ OnlyAsks /\ ToSet(up) \subseteq ToSet(up') /\ (reconcileDue => reconcileDue')
       /\ queued # "none" => \/ queued' # "none" \/ reconcileDue'
                             \/ \E p \in Nat : Requested(up', p) /\ 1..p \subseteq Shown'
  <2>1. CASE h = <<>>
    <3>1. anchor' = None /\ ui' = "ready" /\ NextRecovery
      BY <2>1, <1>6 DEF Done
    <3>2. PICK p \in 0..head : p = rendered'
      OBVIOUS
    <3>3. Position = p /\ At' = p
      BY <3>1, <3>2 DEF Position, At
    <3>4. Position \in 0..head
      BY <3>3
    <3> HIDE DEF Position
    <3>5. /\ up' \in Seq(Message) /\ recovery' \in {"off", "decision"} /\ reconcileDue' \in BOOLEAN
          /\ queued' = "none"
          /\ Tokens(up', down', recovery') /\ Asked(up', down', Position) /\ Bounded(up', down', head)
          /\ OnlyAsks /\ ToSet(up) \subseteq ToSet(up')
          /\ reconcileDue => reconcileDue'
          /\ queued # "none" => reconcileDue' \/ Requested(up', Position)
      BY <3>1, <3>4, NextRecoveryEffect
    <3>6. 1..p \subseteq Shown' /\ p \in Nat
      BY <3>2, <1>10, <1>1
    <3>7. anchor' <= rendered'
      BY <3>1 DEF None
    <3>8. queued # "none" => \/ queued' # "none" \/ reconcileDue'
                             \/ \E x \in Nat : Requested(up', x) /\ 1..x \subseteq Shown'
      BY <3>3, <3>5, <3>6
    <3>9. Asked(up', down', At')
      BY <3>3, <3>5
    <3>10. anchor' \in {None} /\ ui' \in {"ready"} /\ recovery' \in {"off", "decision", "pending"}
      BY <3>1, <3>5
    <3> QED BY <3>5, <3>7, <3>8, <3>9, <3>10
  <2>2. CASE h # <<>>
    <3>1. recovery' = "pending" /\ UNCHANGED <<anchor, ui, queued, reconcileDue, up>>
      BY <2>2, <1>6
    <3>2. Tokens(up', down', recovery') /\ Asked(up', down', At')
      BY <3>1, TokensNone, AskedNone
    <3>3. /\ reconcileDue \in BOOLEAN /\ queued \in Reasons \cup {"none"} /\ ui \in {"loading", "ready"}
          /\ anchor \in {None} \cup 0..head
      BY DEF TypeOK
    <3>4. queued # "none" => \/ queued' # "none" \/ reconcileDue'
                             \/ \E x \in Nat : Requested(up', x) /\ 1..x \subseteq Shown'
      BY <3>1
    <3>5. OnlyAsks /\ ToSet(up) \subseteq ToSet(up') /\ Bounded(up', down', head)
      BY <3>1 DEF OnlyAsks
    <3>6. up' \in Seq(Message) /\ anchor' <= rendered'
      BY <3>1, <1>1
    <3> QED BY <3>1, <3>2, <3>3, <3>4, <3>5, <3>6
  <2> QED BY <2>1, <2>2
<1>15. /\ pending' = <<>> /\ writes' \in Seq(Write)
       /\ \A i \in 1..Len(q) : i \in 1..Len(writes') /\ writes'[i] = q[i]
  BY <1>1, <1>3, <1>6, <1>8
<1> QED BY <1>9, <1>12, <1>13, <1>14, <1>15

\* The recovery is over, or goes on with the chunks held back.
LEMMA FlushSteps ==
  ASSUME IInv, NEW c \in 0..head, NEW q \in Seq(Write), FlushHeld(c, q),
         UNCHANGED <<head, bucket, subscribed, lease, connected, mounted, activation, reclaimDue>>,
         recovery # "off", NoToken(up, down'),
         down' = down \/ (down # <<>> /\ down[1].kind = "noop" /\ down' = Tail(down)),
         painted \subseteq painted', painted' \subseteq 1..head,
         rendered' \in 0..head, c <= rendered', rendered <= rendered',
         1..rendered' \subseteq painted' \cup skipped,
         \A i \in 1..Len(q) : /\ q[i].kind = "live" /\ q[i].lo = q[i].hi /\ q[i].hi <= head
                              /\ 1..q[i].hi \subseteq painted' \cup skipped \cup Upcoming(q, i),
         \A i \in 1..Len(writes) : \/ writes[i].lo..writes[i].hi \subseteq painted'
                                   \/ \E j \in 1..Len(q) : q[j] = writes[i],
         \/ UNCHANGED <<live, replayed, chunks>> /\ recovery = "pending"
         \/ live' = TRUE /\ replayed' = c /\ chunks' = <<>> /\ Upto(Seen, c)
  PROVE  IInv'
<1>0. /\ TypeOK /\ Bounded(up, down, head) /\ Claims /\ Queued /\ Continued /\ Positions
      /\ InOrder(pending, bucket, down) /\ Tokens(up, down, recovery) /\ Fresh(down, Known)
      /\ Accounted
  BY DEF IInv
<1>1. /\ head \in Nat /\ up \in Seq(Message) /\ down \in Seq(Message) /\ Len(writes) \in Nat
      /\ chunks \in Seq(1..head) /\ pending \in Seq(1..head) /\ Len(pending) \in Nat /\ replayed \in 0..head
      /\ bucket \in Seq(1..head) /\ rendered \in 0..head
      /\ \A i \in 1..Len(writes) : writes[i] \in Write
      /\ \A i \in 1..Len(pending) : pending[i] \in 1..head
      /\ \A i \in 1..Len(chunks) : chunks[i] \in 1..head
  BY <1>0, Sorts
<1>2. /\ Bounded(up, down', head) /\ InOrder(pending, bucket, down') /\ down' \in Seq(Message)
  <2>1. CASE down' = down
    BY <2>1, <1>0, <1>1
  <2>2. CASE down # <<>> /\ down' = Tail(down)
    <3>1. Tail(down) \in Seq(Message)
      BY <1>1, <2>2, Taken
    <3>2. Bounded(up, Tail(down), head) /\ InOrder(pending, bucket, Tail(down))
      BY <1>0, <1>1, <2>2, BoundedRead, OrderRead
    <3> QED BY <2>2, <3>1, <3>2
  <2> QED BY <2>1, <2>2
<1>3. anchor <= rendered' /\ \A i, j \in 1..Len(pending) : i < j => pending[i] < pending[j]
  <2>1. anchor \in {None} \cup 0..head /\ anchor <= rendered
    BY <1>0, Sorts DEF Positions
  <2> QED BY <2>1, <1>0, <1>1 DEF InOrder, None
<1>4. /\ pending' = <<>> /\ skipped' \subseteq 1..head /\ painted' \cup skipped \subseteq Shown'
      /\ ui' \in {"loading", "ready"} /\ anchor' \in {None} \cup 0..head /\ anchor' <= rendered'
      /\ up' \in Seq(Message) /\ recovery' \in {"off", "decision", "pending"}
      /\ reconcileDue' \in BOOLEAN /\ queued' \in Reasons \cup {"none"}
      /\ Tokens(up', down', recovery') /\ Asked(up', down', At') /\ Bounded(up', down', head)
      /\ queued # "none" => \/ queued' # "none" \/ reconcileDue'
                            \/ \E p \in Nat : Requested(up', p) /\ 1..p \subseteq Shown'
      /\ writes' \in Seq(Write)
      /\ \A i \in 1..Len(q) : i \in 1..Len(writes') /\ writes'[i] = q[i]
      /\ \A i \in 1..Len(writes') :
           /\ writes'[i].hi <= head /\ writes'[i].lo = writes'[i].hi
           /\ writes'[i].kind = "live" \/ (writes'[i].kind = "pending" /\ recovery' = "pending")
           /\ 1..writes'[i].hi \subseteq Shown' \cup Upcoming(writes', i)
      /\ \A i \in 1..Len(pending) : 1..pending[i] \subseteq Shown' \cup Ends(writes')
  BY <1>0, <1>2, <1>3, FlushEffect
<1>5. OnlyAsks /\ ToSet(up) \subseteq ToSet(up') /\ (reconcileDue => reconcileDue')
  BY <1>0, <1>2, <1>3, FlushEffect
<1>6. 1..rendered' \subseteq Shown' /\ Shown \subseteq Shown' /\ 1..c \subseteq Shown'
  <2>1. painted' \cup skipped \subseteq Shown'
    BY <1>4
  <2>2. 1..rendered' \subseteq Shown' /\ painted \cup skipped \subseteq Shown'
    BY <2>1
  <2>3. 1..c \subseteq 1..rendered'
    BY <1>1
  <2> QED BY <2>2, <2>3 DEF Shown
<1>7. \A i \in 1..Len(writes) : \/ writes[i].lo..writes[i].hi \subseteq Shown'
                                \/ \E j \in 1..Len(writes') : writes'[j] = writes[i]
  BY <1>4
<1>8. chunks' \in Seq(1..head) /\ replayed' \in 0..head /\ live' \in BOOLEAN
  <2>1. live \in BOOLEAN
    BY <1>0 DEF TypeOK
  <2> QED BY <2>1, <1>1, EmptySeq
<1>9. TypeOK'
  <2>1. <<>> \in Seq(1..head)
    BY EmptySeq
  <2>2. recovery' \in RecoveryPCs
    BY <1>4 DEF RecoveryPCs
  <2> QED BY <2>1, <2>2, <1>0, <1>2, <1>4, <1>8 DEF TypeOK
<1>10. InOrder(pending', bucket', down') /\ Fresh(down', Known')
  BY <1>2, <1>4, OrderReleased, FreshNone
<1>11. Queued' /\ Positions'
  <2>1. Queued'
    BY <1>4 DEF Queued
  <2> QED BY <2>1, <1>4 DEF Positions
<1>12. Continued'
  <2>1. ASSUME UNCHANGED <<live, replayed, chunks>>, recovery = "pending"
        PROVE  /\ \A i \in 1..Len(chunks') :
                    1..chunks'[i] \subseteq Shown' \cup Ends(writes') \cup {chunks'[j] : j \in 1..i}
               /\ live' => 1..replayed' \subseteq Shown' \cup Ends(writes') \cup ToSet(chunks')
    <3>1. Ends(writes) \subseteq Shown' \cup Ends(writes')
      <4> SUFFICES ASSUME NEW x \in Ends(writes) PROVE x \in Shown' \cup Ends(writes')
        OBVIOUS
      <4>0. PICK i \in 1..Len(writes) : x = writes[i].hi
        BY DEF Ends
      <4>1. writes[i].lo = writes[i].hi /\ writes[i].hi \in Nat
        <5>1. writes[i].kind # "baseline"
          BY <1>0, <2>1 DEF Queued, Baseline
        <5> QED BY <5>1, <1>0, <1>1, WriteSorts DEF Queued
      <4>2. CASE writes[i].lo..writes[i].hi \subseteq Shown'
        BY <4>0, <4>1, <4>2
      <4>3. CASE \E j \in 1..Len(writes') : writes'[j] = writes[i]
        BY <4>0, <4>3 DEF Ends
      <4> QED BY <4>2, <4>3, <1>7
    <3>2. /\ \A i \in 1..Len(chunks) :
               1..chunks[i] \subseteq Shown \cup Ends(writes) \cup {chunks[j] : j \in 1..i}
          /\ live /\ pending = <<>> => 1..replayed \subseteq Shown \cup Ends(writes) \cup ToSet(chunks)
          /\ live => \A i \in 1..Len(pending) : pending[i] > replayed + 1
      BY <1>0, <2>1 DEF Continued
    <3>3. live => 1..replayed \subseteq Shown' \cup Ends(writes') \cup ToSet(chunks)
      <4>1. CASE pending = <<>>
        BY <4>1, <3>1, <3>2, <1>6
      <4>2. CASE live /\ pending # <<>>
        <5>1. 1 \in 1..Len(pending)
          BY <4>2, <1>1, EmptySeq
        <5>2. pending[1] > replayed + 1 /\ pending[1] \in 1..head /\ replayed \in 0..head /\ head \in Nat
          BY <5>1, <4>2, <3>2, <1>1
        <5>3. 1..replayed \subseteq 1..pending[1]
          BY <5>2
        <5>4. 1..pending[1] \subseteq Shown' \cup Ends(writes')
          BY <5>1, <1>4
        <5> QED BY <5>3, <5>4
      <4> QED BY <4>1, <4>2
    <3> QED BY <3>1, <3>2, <3>3, <2>1, <1>6
  <2>2. ASSUME live' = TRUE, replayed' = c, chunks' = <<>>
        PROVE  /\ \A i \in 1..Len(chunks') :
                    1..chunks'[i] \subseteq Shown' \cup Ends(writes') \cup {chunks'[j] : j \in 1..i}
               /\ live' => 1..replayed' \subseteq Shown' \cup Ends(writes') \cup ToSet(chunks')
    BY <2>2, <1>6, EmptySeq
  <2>3. Len(pending') = 0
    BY <1>4, EmptySeq
  <2>4. \A i \in 1..Len(writes') : 1..writes'[i].hi \subseteq Shown' \cup Upcoming(writes', i)
    BY <1>4
  <2>5. /\ \A i \in 1..Len(chunks') :
             1..chunks'[i] \subseteq Shown' \cup Ends(writes') \cup {chunks'[j] : j \in 1..i}
        /\ live' => 1..replayed' \subseteq Shown' \cup Ends(writes') \cup ToSet(chunks')
    BY <2>1, <2>2
  <2>6. live' => \A i \in 1..Len(pending') : pending'[i] > replayed' + 1
    BY <2>3
  <2>7. recovery' # "baseline" /\ 1..rendered' \subseteq Shown'
    BY <1>4, <1>6
  <2> QED BY <2>4, <2>5, <2>6, <2>7 DEF Continued
<1>13. Claims'
  <2>1. UNCHANGED <<subscribed, lease, connected, bucket>> /\ UNCHANGED <<activation, reclaimDue>>
    OBVIOUS
  <2>2. down' = down \/ (down # <<>> /\ down' = Tail(down))
    OBVIOUS
  <2> QED BY <2>1, <2>2, <1>0, <1>5, ClaimsKept
<1>14. Accounted'
  <2>1. CASE queued # "none"
    BY <2>1, <1>4, <1>1, AccountedAnew
  <2>2. CASE queued = "none"
    <3> SUFFICES ASSUME NEW n \in 1..head PROVE Resting(n)' \/ Later(n)' \/ Fetched(n)'
      BY <1>0, AccountedParts DEF Accounted, Resting, Later
    <3>1. CASE Resting(n)
      <4>1. CASE n \in painted \cup skipped
        BY <4>1, <1>6 DEF Shown, Resting
      <4>2. CASE n \in ToSet(chunks)
        <5>1. CASE chunks' = chunks
          BY <4>2, <5>1 DEF Resting
        <5>2. CASE Upto(Seen, c)
          <6>1. n \in 1..c
            BY <4>2, <5>2 DEF Upto, Seen
          <6> QED BY <6>1, <1>6 DEF Shown, Resting
        <5> QED BY <5>1, <5>2
      <4>3. ASSUME NEW i \in 1..Len(writes), n \in writes[i].lo..writes[i].hi PROVE Resting(n)'
        BY <4>3, <1>7 DEF Shown, Resting
      <4> QED BY <3>1, <4>1, <4>2, <4>3 DEF Resting
    <3>2. CASE Later(n)
      <4>1. CASE \E x \in ToSet(pending) : x >= n
        <5>1. PICK i \in 1..Len(pending) : pending[i] >= n
          BY <4>1, <1>1, Elements, SMTT(20)
        <5>2. n \in Shown' \cup Ends(writes')
          <6>1. pending[i] \in 1..head
            BY <1>1
          <6>2. n \in 1..pending[i]
            BY <5>1, <6>1, <1>1
          <6> QED BY <6>2, <1>4
        <5>3. n \in Ends(writes') => \E i1 \in 1..Len(writes') : n \in writes'[i1].lo..writes'[i1].hi
          BY <1>4 DEF Ends
        <5> QED BY <5>2, <5>3 DEF Shown, Resting
      <4>2. CASE \E x \in ToSet(bucket) : x >= n
        BY <4>2 DEF Later, LaterFrames
      <4>3. ASSUME NEW m \in ToSet(up) \cup ToSet(down), m.kind = "output", m.at >= n PROVE Later(n)'
        <5>1. m \in ToSet(up') \cup ToSet(down')
          <6>1. CASE m \in ToSet(up)
            BY <6>1, <1>5
          <6>2. CASE m \in ToSet(down) /\ down' = Tail(down) /\ down # <<>> /\ down[1].kind = "noop"
            <7>1. ToSet(down) = {down[1]} \cup ToSet(Tail(down))
              BY <6>2, <1>1, SetTaken
            <7> QED BY <6>2, <7>1, <4>3
          <6>3. CASE m \in ToSet(down) /\ down' = down
            BY <6>3
          <6> QED BY <6>1, <6>2, <6>3
        <5> QED BY <5>1, <4>3 DEF Later, LaterFrames, OnItsWay
      <4> QED BY <3>2, <4>1, <4>2, <4>3 DEF Later, LaterFrames, OnItsWay
    <3>3. CASE Fetched(n)
      <4>1. CASE down' = down
        <5>1. PICK m0 : m0 = [kind |-> "noop"]
          OBVIOUS
        <5>2. ToSet(up) \subseteq ToSet(up') \cup {m0} /\ ToSet(down) \subseteq ToSet(down') \cup {m0}
          BY <4>1, <1>5
        <5>3. Fetched(n)' \/ FetchedBy(m0, n)
          BY <5>2, <1>5, <3>3, <2>2, FetchedStays
        <5> QED BY <5>1, <5>3 DEF FetchedBy
      <4>2. CASE down # <<>> /\ down[1].kind = "noop" /\ down' = Tail(down)
        <5>1. ToSet(down) = {down[1]} \cup ToSet(Tail(down))
          BY <4>2, <1>1, SetTaken
        <5>2. PICK m0 : m0 = down[1]
          OBVIOUS
        <5>3. ToSet(up) \subseteq ToSet(up') \cup {m0} /\ ToSet(down) \subseteq ToSet(down') \cup {m0}
          BY <4>2, <5>1, <5>2, <1>5
        <5>4. Fetched(n)' \/ FetchedBy(m0, n)
          BY <5>3, <1>5, <3>3, <2>2, FetchedStays
        <5> QED BY <4>2, <5>2, <5>4 DEF FetchedBy
      <4> QED BY <4>1, <4>2
    <3> QED BY <3>1, <3>2, <3>3, <1>0, AccountedParts
  <2> QED BY <2>1, <2>2
<1> QED BY <1>2, <1>4, <1>9, <1>10, <1>11, <1>12, <1>13, <1>14 DEF IInv

LEMMA NoopSteps ==
  ASSUME IInv, down # <<>>, down' = Tail(down), down[1].kind = "noop", UNCHANGED painted,
         NEW c, c = down[1].at, FinishBaseline(c, writes),
         UNCHANGED <<head, bucket, subscribed, lease, connected, mounted, activation, reclaimDue>>
  PROVE  IInv'
<1>0. /\ TypeOK /\ Queued /\ Continued /\ Positions /\ Tokens(up, down, recovery) /\ Fresh(down, Known)
  BY DEF IInv
<1>1. /\ down \in Seq(Message) /\ 1 \in 1..Len(down) /\ down[1] \in Message /\ head \in Nat
      /\ writes \in Seq(Write) /\ rendered \in 0..head /\ anchor \in {None} \cup 0..head
  BY <1>0, Sorts, Taken
<1>2. c \in Nat /\ c <= At
  BY <1>0, <1>1, Messages DEF Positions, Asked
<1>3. c <= rendered /\ c \in 0..head
  BY <1>0, <1>1, <1>2 DEF Positions, At
<1>4. recovery = "decision" /\ NoToken(up, Tail(down))
  <2>1. down[1].kind \in Decisions /\ down[1].kind \in Replies
    BY DEF Decisions, Replies
  <2> QED BY <2>1, <1>0, <1>1, NoTokenRead DEF Tokens
<1>5. /\ replayed' = c /\ rendered' = rendered /\ live' = TRUE /\ chunks' = <<>>
      /\ FlushHeld(c, writes)
  BY <1>1, <1>3 DEF FinishBaseline, Larger
<1>6. Upto(Seen, c)
  <2>1. Upto(Known, c)
    BY <1>0, <1>1 DEF Fresh, Answers
  <2> QED BY <2>1 DEF Upto, Known
<1>7. /\ painted \subseteq painted' /\ painted' \subseteq 1..head
      /\ 1..rendered' \subseteq painted' \cup skipped
  BY <1>0, <1>4, <1>5 DEF Continued, Shown, TypeOK
<1>8. \A i \in 1..Len(writes) :
        /\ writes[i].kind = "live" /\ writes[i].lo = writes[i].hi /\ writes[i].hi <= head
        /\ 1..writes[i].hi \subseteq painted' \cup skipped \cup Upcoming(writes, i)
  <2> SUFFICES ASSUME NEW i \in 1..Len(writes)
               PROVE  /\ writes[i].kind = "live" /\ writes[i].lo = writes[i].hi /\ writes[i].hi <= head
                      /\ 1..writes[i].hi \subseteq painted' \cup skipped \cup Upcoming(writes, i)
    OBVIOUS
  <2>1. writes[i].kind \in {"live", "baseline", "pending"}
    BY <1>0, Sorts, WriteSorts
  <2>2. writes[i].kind = "live" /\ writes[i].lo = writes[i].hi /\ writes[i].hi <= head
    BY <2>1, <1>0, <1>4 DEF Queued, Baseline
  <2>3. 1..writes[i].hi \subseteq Shown \cup Upcoming(writes, i)
    BY <1>0, <1>4 DEF Continued
  <2> QED BY <2>2, <2>3 DEF Shown
<1>9. rendered' \in 0..head /\ c <= rendered' /\ rendered <= rendered'
  BY <1>1, <1>3, <1>5
<1>10. \A i \in 1..Len(writes) : \/ writes[i].lo..writes[i].hi \subseteq painted'
                                 \/ \E j \in 1..Len(writes) : writes[j] = writes[i]
  OBVIOUS
<1>11. PICK q \in Seq(Write) : q = writes
  BY <1>1
<1> QED BY <1>0, <1>3, <1>4, <1>5, <1>6, <1>7, <1>8, <1>9, <1>10, <1>11, FlushSteps

----------------------------------------------------------------------------
(* xterm parses a write                                                    *)

\* The first write is painted: all up to its end is shown, and what waits behind it
\* continues the screen.
LEMMA FirstWrite ==
  ASSUME IInv, NEW w \in Write, writes # <<>>, w = Head(writes), painted' = painted \cup w.lo..w.hi
  PROVE  /\ w = writes[1] /\ w.hi \in Nat /\ w.hi <= head /\ w.lo \in Nat \ {0}
         /\ w.kind # "baseline" => w.lo = w.hi
         /\ Tail(writes) \in Seq(Write) /\ Len(Tail(writes)) \in Nat
         /\ Len(Tail(writes)) = Len(writes) - 1
         /\ \A i \in 1..Len(Tail(writes)) : i + 1 \in 1..Len(writes) /\ Tail(writes)[i] = writes[i + 1]
         /\ \A i \in 2..Len(writes) : i - 1 \in 1..Len(Tail(writes)) /\ Tail(writes)[i - 1] = writes[i]
         /\ painted \subseteq painted' /\ painted' \subseteq 1..head
         /\ recovery = "baseline" \/ w.kind # "baseline"
         /\ w.kind = "baseline" \/ recovery # "baseline" => 1..w.hi \subseteq painted' \cup skipped
         /\ recovery # "baseline" =>
              \A i \in 1..Len(Tail(writes)) :
                1..Tail(writes)[i].hi \subseteq painted' \cup skipped \cup Upcoming(Tail(writes), i)
<1>0. /\ TypeOK /\ Queued /\ Continued
  BY DEF IInv
<1>1. /\ w = writes[1] /\ 1 \in 1..Len(writes) /\ Len(writes) \in Nat
      /\ Tail(writes) \in Seq(Write) /\ Len(Tail(writes)) \in Nat
      /\ Len(Tail(writes)) = Len(writes) - 1
      /\ \A i \in 1..Len(Tail(writes)) : i + 1 \in 1..Len(writes) /\ Tail(writes)[i] = writes[i + 1]
      /\ \A i \in 2..Len(writes) : i - 1 \in 1..Len(Tail(writes)) /\ Tail(writes)[i - 1] = writes[i]
  <2>1. writes \in Seq(Write)
    BY <1>0, Sorts
  <2> QED BY <2>1, Taken
<1>2. w.hi \in Nat /\ w.hi <= head /\ w.lo \in Nat \ {0} /\ (w.kind # "baseline" => w.lo = w.hi)
  BY <1>0, <1>1, WriteSorts DEF Queued
<1>3. painted \subseteq painted' /\ painted' \subseteq 1..head
  <2>1. painted \subseteq 1..head /\ head \in Nat
    BY <1>0, Sorts DEF TypeOK
  <2>2. w.lo..w.hi \subseteq 1..head
    BY <2>1, <1>2
  <2> QED BY <2>1, <2>2
<1>4. recovery = "baseline" \/ w.kind # "baseline"
  BY <1>0, <1>1 DEF Queued, Baseline
<1>5. ASSUME recovery # "baseline", NEW i \in 1..Len(writes)
      PROVE  1..writes[i].hi \subseteq painted \cup skipped \cup Upcoming(writes, i)
  BY <1>0, <1>5 DEF Continued, Shown
<1>6. w.lo = w.hi => w.hi \in painted'
  BY <1>2
<1>7. ASSUME w.kind = "baseline" \/ recovery # "baseline" PROVE 1..w.hi \subseteq painted' \cup skipped
  <2>1. CASE w.kind = "baseline"
    <3>1. 1..(w.lo - 1) \subseteq painted \cup skipped
      BY <2>1, <1>0, <1>1 DEF Queued, Baseline, Shown
    <3>2. 1..w.hi \subseteq 1..(w.lo - 1) \cup w.lo..w.hi
      BY <1>2
    <3> QED BY <3>1, <3>2
  <2>2. CASE w.kind # "baseline"
    <3>1. 1..w.hi \subseteq painted \cup skipped \cup Upcoming(writes, 1)
      BY <2>2, <1>7, <1>1, <1>5
    <3>2. Upcoming(writes, 1) \subseteq {w.hi}
      BY <1>1 DEF Upcoming
    <3> QED BY <3>1, <3>2, <2>2, <1>2, <1>3, <1>6
  <2> QED BY <2>1, <2>2
<1>8. ASSUME recovery # "baseline", NEW i \in 1..Len(Tail(writes))
      PROVE  1..Tail(writes)[i].hi \subseteq painted' \cup skipped \cup Upcoming(Tail(writes), i)
  <2>1. 1..writes[i + 1].hi \subseteq painted \cup skipped \cup Upcoming(writes, i + 1)
    BY <1>8, <1>1, <1>5
  <2>2. Upcoming(writes, i + 1) \subseteq {w.hi} \cup Upcoming(Tail(writes), i)
    <3> SUFFICES ASSUME NEW j \in 1..(i + 1) PROVE writes[j].hi = w.hi \/ writes[j].hi \in Upcoming(Tail(writes), i)
      BY DEF Upcoming
    <3>1. CASE j = 1
      BY <3>1, <1>1
    <3>2. CASE j # 1
      <4>1. j \in 2..Len(writes) /\ j - 1 \in 1..i
        BY <3>2, <1>1
      <4> QED BY <4>1, <1>1 DEF Upcoming
    <3> QED BY <3>1, <3>2
  <2>3. w.hi \in painted'
    BY <1>8, <1>2, <1>4, <1>6
  <2> QED BY <2>1, <2>2, <2>3, <1>1, <1>3
<1> QED BY <1>1, <1>2, <1>3, <1>4, <1>7, <1>8

\* The baseline, or the last of the chunks held back, is written.
LEMMA BatchSteps ==
  ASSUME IInv, NEW w \in Write, NEW q \in Seq(Write), writes # <<>>, w = Head(writes), q = Tail(writes),
         painted' = painted \cup w.lo..w.hi,
         \/ w.kind = "baseline" /\ FinishBaseline(w.hi, q)
         \/ /\ w.kind = "pending" /\ \A i \in 1..Len(q) : q[i].kind # "pending"
            /\ rendered' = Larger(rendered, w.hi)
            /\ FlushHeld(w.hi, q)
            /\ UNCHANGED <<live, replayed, chunks>>,
         UNCHANGED <<server, connected, down, reclaimDue, activation, mounted>>
  PROVE  IInv'
<1>0. /\ TypeOK /\ Queued /\ Continued /\ Tokens(up, down, recovery)
  BY DEF IInv
<1>1. /\ w = writes[1] /\ w.hi \in Nat /\ w.hi <= head /\ w.lo \in Nat \ {0} /\ Len(q) \in Nat
      /\ \A i \in 1..Len(q) : i + 1 \in 1..Len(writes) /\ q[i] = writes[i + 1]
      /\ \A i \in 2..Len(writes) : i - 1 \in 1..Len(q) /\ q[i - 1] = writes[i]
      /\ painted \subseteq painted' /\ painted' \subseteq 1..head
      /\ recovery = "baseline" \/ w.kind # "baseline"
      /\ w.kind = "baseline" \/ recovery # "baseline" => 1..w.hi \subseteq painted' \cup skipped
      /\ recovery # "baseline" =>
           \A i \in 1..Len(q) : 1..q[i].hi \subseteq painted' \cup skipped \cup Upcoming(q, i)
  BY FirstWrite
<1>2. /\ head \in Nat /\ rendered \in 0..head /\ 1 \in 1..Len(writes)
      /\ \A i \in 1..Len(q) : q[i].kind \in {"live", "baseline", "pending"}
      /\ \A i \in 1..Len(q) : q[i].hi \in Nat
  <2>1. head \in Nat /\ rendered \in 0..head /\ writes \in Seq(Write)
    BY <1>0, Sorts
  <2>2. \A i \in 1..Len(q) : q[i] \in Write
    BY Elements
  <2> QED BY <2>1, <2>2, WriteSorts, Taken
<1>3. /\ FlushHeld(w.hi, q) /\ rendered' \in 0..head /\ w.hi <= rendered' /\ rendered <= rendered'
      /\ rendered' = w.hi \/ rendered' = rendered
  BY <1>1, <1>2 DEF FinishBaseline, Larger
<1>4. ASSUME w.kind = "baseline"
      PROVE  /\ recovery = "baseline" /\ Upto(Seen, w.hi)
             /\ live' = TRUE /\ replayed' = w.hi /\ chunks' = <<>>
             /\ 1..rendered' \subseteq painted' \cup skipped
             /\ \A i \in 1..Len(q) : /\ q[i].kind = "live" /\ q[i].lo = q[i].hi /\ q[i].hi <= head
                                     /\ 1..q[i].hi \subseteq painted' \cup skipped \cup Upcoming(q, i)
  <2>1. /\ recovery = "baseline" /\ Upto(Seen, w.hi)
        /\ \A j \in 1..Len(writes) : writes[j].kind = "baseline" => 1 = j
    BY <1>4, <1>0, <1>1, <1>2 DEF Queued, Baseline
  <2>2. live' = TRUE /\ replayed' = w.hi /\ chunks' = <<>>
    BY <1>4 DEF FinishBaseline
  <2>3. 1..w.hi \subseteq painted' \cup skipped
    BY <1>4, <1>1
  <2>4. rendered' = w.hi
    <3>1. rendered <= w.hi
      BY <2>1 DEF Upto, Seen
    <3> QED BY <3>1, <1>1, <1>2, <1>3
  <2>5. ASSUME NEW i \in 1..Len(q)
        PROVE  /\ q[i].kind = "live" /\ q[i].lo = q[i].hi /\ q[i].hi <= head
               /\ 1..q[i].hi \subseteq painted' \cup skipped \cup Upcoming(q, i)
    <3>1. i + 1 \in 1..Len(writes) /\ q[i] = writes[i + 1] /\ 1 # i + 1
      BY <1>1
    <3>2. q[i].kind # "baseline" /\ q[i].kind # "pending"
      BY <3>1, <2>1, <1>0 DEF Queued
    <3>3. q[i].kind = "live" /\ q[i].lo = q[i].hi /\ q[i].hi <= head
      BY <3>1, <3>2, <1>0, <1>2 DEF Queued
    <3>4. q[i].hi \in Seen
      BY <3>1 DEF Seen, Ends
    <3>5. q[i].hi <= w.hi
      BY <3>4, <2>1 DEF Upto
    <3>6. 1..q[i].hi \subseteq 1..w.hi
      BY <3>5, <1>1, <1>2, SMTT(20)
    <3> QED BY <3>3, <3>6, <2>3
  <2> QED BY <2>1, <2>2, <2>3, <2>4, <2>5
<1>5. ASSUME w.kind = "pending"
      PROVE  /\ recovery = "pending" /\ UNCHANGED <<live, replayed, chunks>>
             /\ 1..rendered' \subseteq painted' \cup skipped
             /\ \A i \in 1..Len(q) : /\ q[i].kind = "live" /\ q[i].lo = q[i].hi /\ q[i].hi <= head
                                     /\ 1..q[i].hi \subseteq painted' \cup skipped \cup Upcoming(q, i)
  <2>1. recovery = "pending" /\ UNCHANGED <<live, replayed, chunks>>
    BY <1>5, <1>0, <1>1, <1>2 DEF Queued
  <2>2. 1..rendered \subseteq painted' \cup skipped
    BY <2>1, <1>0, <1>1 DEF Continued, Shown
  <2>3. 1..rendered' \subseteq painted' \cup skipped
    BY <2>1, <2>2, <1>1, <1>3
  <2>4. ASSUME NEW i \in 1..Len(q)
        PROVE  /\ q[i].kind = "live" /\ q[i].lo = q[i].hi /\ q[i].hi <= head
               /\ 1..q[i].hi \subseteq painted' \cup skipped \cup Upcoming(q, i)
    <3>1. i + 1 \in 1..Len(writes) /\ q[i] = writes[i + 1]
      BY <1>1
    <3>2. q[i].kind # "baseline" /\ q[i].kind # "pending"
      BY <3>1, <2>1, <1>0, <1>5 DEF Queued, Baseline
    <3> QED BY <3>1, <3>2, <2>1, <1>0, <1>1, <1>2 DEF Queued
  <2> QED BY <2>1, <2>3, <2>4
<1>6. \A i \in 1..Len(writes) : \/ writes[i].lo..writes[i].hi \subseteq painted'
                                \/ \E j \in 1..Len(q) : q[j] = writes[i]
  <2> SUFFICES ASSUME NEW i \in 1..Len(writes), i # 1 PROVE \E j \in 1..Len(q) : q[j] = writes[i]
    BY <1>1
  <2>1. i \in 2..Len(writes)
    OBVIOUS
  <2> QED BY <2>1, <1>1
<1>7. PICK c \in 0..head : c = w.hi
  BY <1>1, <1>2
<1>8. recovery # "off" /\ NoToken(up, down') /\ down' = down
  <2>1. recovery \in {"baseline", "pending"} /\ down' = down
    BY <1>4, <1>5
  <2> QED BY <2>1, <1>0, NoTokenIdle
<1>9. UNCHANGED <<head, bucket, subscribed, lease, connected, mounted, activation, reclaimDue>>
  BY DEF server
<1>10. /\ FlushHeld(c, q) /\ c <= rendered'
       /\ 1..rendered' \subseteq painted' \cup skipped
       /\ \A i \in 1..Len(q) : /\ q[i].kind = "live" /\ q[i].lo = q[i].hi /\ q[i].hi <= head
                               /\ 1..q[i].hi \subseteq painted' \cup skipped \cup Upcoming(q, i)
       /\ \/ UNCHANGED <<live, replayed, chunks>> /\ recovery = "pending"
          \/ live' = TRUE /\ replayed' = c /\ chunks' = <<>> /\ Upto(Seen, c)
  BY <1>3, <1>4, <1>5, <1>7
<1> QED BY <1>1, <1>3, <1>6, <1>8, <1>9, <1>10, FlushSteps

\* No recovery waits for the write.
LEMMA WrittenSteps ==
  ASSUME IInv, NEW w \in Write, NEW q \in Seq(Write), writes # <<>>, w = Head(writes), q = Tail(writes),
         painted' = painted \cup w.lo..w.hi, w.kind # "baseline",
         rendered' = Larger(rendered, w.hi), writes' = q, skipped' = skipped \ painted',
         UNCHANGED <<live, replayed, anchor, pending, chunks, ui, recovery, queued, reconcileDue, up,
                     server, connected, down, reclaimDue, activation, mounted>>
  PROVE  IInv'
<1>0. /\ TypeOK /\ Bounded(up, down, head) /\ Claims /\ Queued /\ Continued /\ Positions
      /\ InOrder(pending, bucket, down) /\ Tokens(up, down, recovery) /\ Fresh(down, Known)
      /\ Accounted
  BY DEF IInv
<1> USE DEF server
<1>1. /\ w = writes[1] /\ w.hi \in Nat /\ w.hi <= head /\ w.lo = w.hi /\ Len(q) \in Nat
      /\ \A i \in 1..Len(q) : i + 1 \in 1..Len(writes) /\ q[i] = writes[i + 1]
      /\ \A i \in 2..Len(writes) : i - 1 \in 1..Len(q) /\ q[i - 1] = writes[i]
      /\ painted \subseteq painted' /\ painted' \subseteq 1..head
      /\ recovery # "baseline" =>
           /\ 1..w.hi \subseteq painted' \cup skipped
           /\ \A i \in 1..Len(q) : 1..q[i].hi \subseteq painted' \cup skipped \cup Upcoming(q, i)
  BY FirstWrite
<1>2. head \in Nat /\ rendered \in 0..head /\ anchor \in {None} \cup 0..head /\ 1 \in 1..Len(writes)
      /\ up \in Seq(Message) /\ down \in Seq(Message)
  <2>1. writes \in Seq(Write)
    BY <1>0, Sorts
  <2> QED BY <2>1, <1>0, Sorts, Taken
<1>3. rendered' \in 0..head /\ rendered <= rendered' /\ (rendered' = w.hi \/ rendered' = rendered)
  BY <1>1, <1>2 DEF Larger
<1>4. Shown' = painted' \cup skipped /\ Shown \subseteq Shown' /\ skipped' \subseteq skipped
      /\ w.hi \in Shown' /\ painted' = painted \cup {w.hi}
  BY <1>1 DEF Shown
<1>5. Ends(writes) \subseteq {w.hi} \cup Ends(q) /\ Ends(q) \subseteq Ends(writes) /\ w.hi \in Ends(writes)
  <2>1. \A i \in 1..Len(writes) : i = 1 \/ i \in 2..Len(writes)
    OBVIOUS
  <2>2. \A i \in 1..Len(writes) : writes[i].hi = w.hi \/ \E j \in 1..Len(q) : q[j].hi = writes[i].hi
    BY <2>1, <1>1
  <2>3. Ends(writes) \subseteq {w.hi} \cup Ends(q)
    BY <2>2 DEF Ends
  <2>4. \A i \in 1..Len(q) : q[i].hi \in Ends(writes)
    BY <1>1 DEF Ends
  <2>5. Ends(q) \subseteq Ends(writes)
    BY <2>4 DEF Ends
  <2>6. w.hi \in Ends(writes)
    BY <1>1, <1>2 DEF Ends
  <2> QED BY <2>3, <2>5, <2>6
<1>6. Seen' \subseteq Seen /\ Known' \subseteq Known
  BY <1>3, <1>4, <1>5 DEF Seen, Known, Shown, Ends
<1>7. TypeOK'
  BY <1>0, <1>1, <1>3, <1>4 DEF TypeOK
<1>8. Fresh(down', Known')
  BY <1>0, <1>6, FreshLess
<1>9. Queued'
  <2> SUFFICES ASSUME NEW i \in 1..Len(q)
               PROVE  /\ q[i].hi <= head
                      /\ q[i].kind # "baseline" => q[i].lo = q[i].hi
                      /\ q[i].kind = "pending" => recovery = "pending"
                      /\ q[i].kind = "baseline" => Baseline(writes, i)'
    BY DEF Queued
  <2>1. i + 1 \in 1..Len(writes) /\ q[i] = writes[i + 1]
    BY <1>1
  <2>2. /\ q[i].hi <= head
        /\ q[i].kind # "baseline" => q[i].lo = q[i].hi
        /\ q[i].kind = "pending" => recovery = "pending"
        /\ q[i].kind = "baseline" => Baseline(writes, i + 1)
    BY <2>1, <1>0 DEF Queued
  <2>3. ASSUME Baseline(writes, i + 1) PROVE Baseline(writes, i)'
    <3>1. /\ recovery = "baseline" /\ ~live /\ Upto(Seen, q[i].hi) /\ 1..(q[i].lo - 1) \subseteq Shown
          /\ \A j \in 1..Len(writes) : writes[j].kind = "baseline" => i + 1 = j
      BY <2>1, <2>3 DEF Baseline
    <3>2. Upto(Seen', q[i].hi) /\ 1..(q[i].lo - 1) \subseteq Shown'
      BY <3>1, <1>4, <1>6 DEF Upto
    <3>3. \A j \in 1..Len(q) : q[j].kind = "baseline" => i = j
      <4> SUFFICES ASSUME NEW j \in 1..Len(q), q[j].kind = "baseline" PROVE i = j
        OBVIOUS
      <4>1. j + 1 \in 1..Len(writes) /\ writes[j + 1].kind = "baseline"
        BY <1>1
      <4> QED BY <4>1, <3>1
    <3> QED BY <3>1, <3>2, <3>3 DEF Baseline
  <2> QED BY <2>2, <2>3
<1>10. Positions'
  <2>1. At <= At' /\ At \in Int /\ At' \in Int /\ anchor' <= rendered'
    BY <1>0, <1>2, <1>3 DEF At, Positions, None
  <2>2. Asked(up, down, At)
    BY <1>0 DEF Positions
  <2>3. PICK p \in Int, r \in Int : p = At /\ r = At'
    BY <2>1
  <2>4. Asked(up, down, r)
    BY <2>1, <2>2, <2>3, <1>2, AskedLater
  <2> QED BY <2>1, <2>3, <2>4, <1>0 DEF Positions
<1>11. Continued'
  <2>0. recovery = "baseline" => ~live
    BY <1>0 DEF Continued
  <2> SUFFICES ASSUME recovery # "baseline"
               PROVE  /\ 1..rendered' \subseteq Shown'
                      /\ \A i \in 1..Len(q) : 1..q[i].hi \subseteq Shown' \cup Upcoming(q, i)
                      /\ \A i \in 1..Len(chunks) :
                           1..chunks[i] \subseteq Shown' \cup Ends(q) \cup {chunks[j] : j \in 1..i}
                      /\ live /\ pending = <<>> => 1..replayed \subseteq Shown' \cup Ends(q) \cup ToSet(chunks)
                      /\ live => \A i \in 1..Len(pending) : pending[i] > replayed + 1
    BY <2>0 DEF Continued
  <2>1. /\ 1..rendered \subseteq Shown
        /\ \A i \in 1..Len(chunks) :
             1..chunks[i] \subseteq Shown \cup Ends(writes) \cup {chunks[j] : j \in 1..i}
        /\ live /\ pending = <<>> => 1..replayed \subseteq Shown \cup Ends(writes) \cup ToSet(chunks)
        /\ live => \A i \in 1..Len(pending) : pending[i] > replayed + 1
    BY <1>0 DEF Continued
  <2>2. Shown \cup Ends(writes) \subseteq Shown' \cup Ends(q)
    BY <1>4, <1>5
  <2>3. 1..rendered' \subseteq Shown'
    BY <2>1, <1>1, <1>3, <1>4
  <2>4. \A i \in 1..Len(q) : 1..q[i].hi \subseteq Shown' \cup Upcoming(q, i)
    BY <1>1, <1>4
  <2> QED BY <2>1, <2>2, <2>3, <2>4
<1>12. Claims'
  BY <1>0 DEF Claims, Opening, Subscribes
<1>13. Accounted'
  <2> SUFFICES ASSUME NEW n \in 1..head PROVE Resting(n)' \/ Later(n)' \/ Fetched(n)'
    BY AccountedParts DEF Accounted, Resting, Later
  <2>1. CASE Resting(n)
    <3>1. ASSUME NEW i \in 1..Len(writes), n \in writes[i].lo..writes[i].hi PROVE Resting(n)'
      <4>1. CASE i = 1
        BY <4>1, <3>1, <1>1 DEF Resting
      <4>2. CASE i # 1
        <5>1. i \in 2..Len(writes)
          BY <4>2
        <5> QED BY <5>1, <3>1, <1>1 DEF Resting
      <4> QED BY <4>1, <4>2
    <3> QED BY <2>1, <3>1, <1>4 DEF Resting, Shown
  <2>2. CASE Later(n)
    BY <2>2 DEF Later, LaterFrames, OnItsWay
  <2>3. CASE Fetched(n)
    BY <2>3 DEF Fetched, OnItsWay
  <2> QED BY <2>1, <2>2, <2>3, <1>0, AccountedParts
<1> QED BY <1>0, <1>7, <1>8, <1>9, <1>10, <1>11, <1>12, <1>13 DEF IInv

LEMMA ParseSteps ==
  ASSUME IInv, Parse
  PROVE  IInv'
<1>1. writes \in Seq(Write) /\ writes # <<>>
  BY Sorts DEF IInv, Parse
<1>2. PICK w \in Write, q \in Seq(Write) : w = Head(writes) /\ q = Tail(writes)
  BY <1>1, Taken
<1>3. /\ painted' = painted \cup w.lo..w.hi
      /\ \/ w.kind = "baseline" /\ FinishBaseline(w.hi, q)
         \/ /\ w.kind = "pending" /\ \A i \in 1..Len(q) : q[i].kind # "pending"
            /\ rendered' = Larger(rendered, w.hi)
            /\ FlushHeld(w.hi, q)
            /\ UNCHANGED <<live, replayed, chunks>>
         \/ /\ w.kind \in {"live", "pending"}
            /\ rendered' = Larger(rendered, w.hi)
            /\ writes' = q /\ skipped' = skipped \ painted'
            /\ UNCHANGED <<live, replayed, anchor, pending, chunks, ui, recovery, queued,
                           reconcileDue, up>>
      /\ UNCHANGED <<server, connected, down, reclaimDue, activation, mounted>>
  BY <1>2 DEF Parse
<1>4. CASE w.kind = "baseline" /\ FinishBaseline(w.hi, q)
  BY <1>1, <1>2, <1>3, <1>4, BatchSteps
<1>5. CASE /\ w.kind = "pending" /\ \A i \in 1..Len(q) : q[i].kind # "pending"
           /\ rendered' = Larger(rendered, w.hi)
           /\ FlushHeld(w.hi, q)
           /\ UNCHANGED <<live, replayed, chunks>>
  BY <1>1, <1>2, <1>3, <1>5, BatchSteps
<1>6. CASE /\ w.kind \in {"live", "pending"}
           /\ rendered' = Larger(rendered, w.hi)
           /\ writes' = q /\ skipped' = skipped \ painted'
           /\ UNCHANGED <<live, replayed, anchor, pending, chunks, ui, recovery, queued,
                          reconcileDue, up>>
  BY <1>1, <1>2, <1>3, <1>6, WrittenSteps
<1> QED BY <1>3, <1>4, <1>5, <1>6

----------------------------------------------------------------------------
(* A recovery asks for data and gets it                                    *)

LEMMA DataSteps ==
  ASSUME IInv, down # <<>>, down' = Tail(down), NEW kind, NEW at, Request(kind, at),
         \/ down[1].kind = "useReplay" /\ kind = "replay" /\ at = down[1].at
         \/ down[1].kind \in {"useSnapshot", "too_old"} /\ kind = "snapshot" /\ at = 0,
         UNCHANGED <<live, replayed, pending, chunks, writes, screen>>,
         UNCHANGED <<rendered, reclaimDue, activation, server, connected, mounted>>
  PROVE  IInv'
<1>0. /\ TypeOK /\ Bounded(up, down, head) /\ Claims /\ Queued /\ Continued /\ Positions
      /\ InOrder(pending, bucket, down) /\ Tokens(up, down, recovery) /\ Fresh(down, Known)
      /\ Accounted
  BY DEF IInv
<1> USE DEF server, screen
<1>1. /\ up \in Seq(Message) /\ down \in Seq(Message) /\ Len(up) \in Nat /\ Len(down) \in Nat
      /\ At \in 0..head /\ head \in Nat /\ rendered \in 0..head
      /\ down[1] \in Message /\ 1 \in 1..Len(down)
  BY <1>0, Sorts, Taken
<1>2. recovery \in {"decision", "data"} /\ down[1].kind \in Replies /\ down[1].kind # "output"
  <2>1. down[1].kind \in Decisions \/ down[1].kind \in Deliveries
    BY DEF Decisions, Deliveries
  <2>2. down[1].kind \in Replies /\ down[1].kind # "output"
    BY <2>1 DEF Replies, Decisions, Deliveries
  <2> QED BY <2>1, <2>2, <1>0, <1>1 DEF Tokens
<1>3. /\ Bounded(up, down', head) /\ InOrder(pending, bucket, down') /\ down' \in Seq(Message)
      /\ NoToken(up, down') /\ Fresh(down', Known)
      /\ ToSet(down) \subseteq ToSet(down') \cup {down[1]}
  <2>1. Tail(down) \in Seq(Message) /\ ToSet(down) = {down[1]} \cup ToSet(Tail(down))
    BY <1>1, Taken, SetTaken
  <2>2. Bounded(up, Tail(down), head) /\ InOrder(pending, bucket, Tail(down))
    BY <1>0, <1>1, BoundedRead, OrderRead
  <2>3. NoToken(up, Tail(down)) /\ Fresh(Tail(down), Known)
    BY <1>0, <1>1, <1>2, NoTokenRead, FreshNone
  <2> QED BY <2>1, <2>2, <2>3
<1>4. /\ kind \in {"replay", "snapshot"} /\ at \in 0..head /\ (kind = "replay" => at <= At)
  <2>1. down[1].at \in Nat /\ down[1].at <= head
    BY <1>0, <1>1, Messages DEF Bounded
  <2>2. down[1].kind = "useReplay" => down[1].at <= At
    BY <1>0, <1>1 DEF Positions, Asked
  <2> QED BY <2>1, <2>2, <1>1
<1>5. /\ up' \in Seq(Message) /\ recovery' = "data" /\ queued' = queued
      /\ reconcileDue' = reconcileDue
      /\ anchor' \in 0..head /\ anchor' <= rendered /\ ui' = "loading" /\ At' = At
      /\ Tokens(up', down', recovery') /\ Asked(up', down', At') /\ Bounded(up', down', head)
      /\ \E m \in Message : m.kind = kind /\ m.at = at /\ up' = Append(up, m)
                            /\ ToSet(up') = ToSet(up) \cup {m}
  <2>1. anchor <= rendered
    BY <1>0 DEF Positions
  <2>2. rendered' = rendered
    OBVIOUS
  <2> QED BY <2>1, <2>2, <1>0, <1>3, <1>4, RequestEffect
<1>6. PICK m \in Message : /\ m.kind = kind /\ m.at = at /\ up' = Append(up, m)
                           /\ ToSet(up') = ToSet(up) \cup {m}
  BY <1>5
<1>7. Queued' /\ Continued' /\ Known' = Known
  <2>1. recovery' = recovery \/ {recovery, recovery'} \subseteq Calm
    BY <1>2, <1>5 DEF Calm
  <2> QED BY <2>1, <1>0, ScreenStays
<1>8. TypeOK'
  BY <1>0, <1>3, <1>5 DEF TypeOK, RecoveryPCs
<1>9. Positions'
  BY <1>1, <1>5 DEF Positions, None
<1>10. Claims'
  <2>1. /\ Len(up') = Len(up) + 1 /\ \A i \in 1..Len(up) : up'[i] = up[i]
        /\ up'[Len(up) + 1] = m
    BY <1>1, <1>6, Added
  <2>2. m.kind # "claim"
    BY <1>4, <1>6
  <2>3. \A i \in 1..Len(down') : \E j \in 1..Len(down) : down'[i] = down[j]
    BY <1>1, Taken
  <2>4. /\ connected
        /\ ~(connected /\ ~subscribed /\ activation = "active")
    BY <1>0, <1>1 DEF Claims, Opening
  <2>5. /\ activation # "active" => reclaimDue
        /\ activation = "active" => lease /\ connected
        /\ \A i \in 1..Len(down') : down'[i].kind = "claimed" => lease /\ subscribed
    BY <2>3, <1>0 DEF Claims
  <2>6. \A i \in 1..Len(up') :
          up'[i].kind = "claim" => subscribed \/ \E j \in 1..(i - 1) : up'[j].kind = "subscribe"
    <3> SUFFICES ASSUME NEW i \in 1..Len(up'), up'[i].kind = "claim", ~subscribed
                 PROVE  \E j \in 1..(i - 1) : up'[j].kind = "subscribe"
      OBVIOUS
    <3>1. i \in 1..Len(up) /\ up[i].kind = "claim"
      BY <2>1, <2>2, <1>1
    <3>2. PICK j \in 1..(i - 1) : up[j].kind = "subscribe"
      BY <3>1, <1>0 DEF Claims
    <3>3. up'[j].kind = "subscribe"
      BY <3>1, <3>2, <2>1, <1>1
    <3> QED BY <3>3
  <2>7. connected /\ ~subscribed => Subscribes(up')
    <3> SUFFICES ASSUME connected, ~subscribed PROVE Subscribes(up')
      OBVIOUS
    <3>1. PICK i \in 1..Len(up) : up[i].kind = "subscribe"
      BY <1>0 DEF Claims, Subscribes
    <3>2. i \in 1..Len(up') /\ up'[i].kind = "subscribe"
      BY <3>1, <2>1, <1>1
    <3> QED BY <3>2 DEF Subscribes
  <2> QED BY <2>4, <2>5, <2>6, <2>7 DEF Claims
<1>11. Accounted'
  <2> SUFFICES ASSUME NEW n \in 1..head PROVE Resting(n)' \/ Later(n)' \/ Fetched(n)'
    BY AccountedParts DEF Accounted, Resting, Later
  <2>0. PICK m0 : m0 = down[1]
    OBVIOUS
  <2>1. /\ ToSet(up) \subseteq ToSet(up') \cup {m0} /\ ToSet(down) \subseteq ToSet(down') \cup {m0}
        /\ m \in ToSet(up') \cup ToSet(down')
    BY <2>0, <1>3, <1>6
  <2>2. CASE Resting(n)
    BY <2>2 DEF Resting
  <2>3. CASE Later(n)
    <3>1. ToSet(bucket) \subseteq ToSet(bucket') /\ ToSet(pending) \subseteq ToSet(pending') /\ m0.kind # "output"
      BY <2>0, <1>2
    <3> QED BY <2>1, <2>3, <3>1, LaterStays
  <2>4. CASE Fetched(n)
    <3>1. Fetched(n)' \/ FetchedBy(m0, n)
      <4>1. /\ (~mounted => ~mounted') /\ (~connected => ~connected')
            /\ (reconcileDue => reconcileDue') /\ (reclaimDue => reclaimDue')
            /\ queued # "none" => queued' # "none"
        BY <1>5
      <4> QED BY <4>1, <2>1, <2>4, <1>5, FetchedStays
    <3>2. ASSUME FetchedBy(m0, n) PROVE FetchedBy(m, n)
      BY <3>2, <2>0, <1>6 DEF FetchedBy
    <3> QED BY <3>1, <3>2, <2>1, FetchedWhen
  <2> QED BY <2>2, <2>3, <2>4, <1>0, AccountedParts
<1> QED BY <1>0, <1>3, <1>5, <1>7, <1>8, <1>9, <1>10, <1>11 DEF IInv

LEMMA BaselineSteps ==
  ASSUME IInv, down # <<>>, down' = Tail(down), NEW from, NEW to, NEW reset \in BOOLEAN,
         WriteBaseline(from, to, reset), to = down[1].at,
         \/ down[1].kind = "replayed" /\ from = down[1].from /\ (reset => anchor = 0)
         \/ down[1].kind = "snapshotted" /\ from = 0,
         UNCHANGED <<reclaimDue, activation, server, connected, mounted>>
  PROVE  IInv'
<1>0. /\ TypeOK /\ Bounded(up, down, head) /\ Claims /\ Queued /\ Continued /\ Positions
      /\ InOrder(pending, bucket, down) /\ Tokens(up, down, recovery) /\ Fresh(down, Known)
      /\ Accounted
  BY DEF IInv
<1> USE DEF server, screen
<1>1. /\ up \in Seq(Message) /\ down \in Seq(Message) /\ head \in Nat /\ rendered \in 0..head
      /\ down[1] \in Message /\ 1 \in 1..Len(down) /\ writes \in Seq(Write) /\ Len(writes) \in Nat
      /\ head <= MaxOut /\ MaxOut \in Nat /\ anchor \in {None} \cup 0..head
      /\ \A i \in 1..Len(writes) : writes[i] \in Write
  BY <1>0, Sorts, Taken
<1>2. recovery = "data" /\ down[1].kind \in Replies /\ down[1].kind # "output" /\ down[1].kind \in Answers
  <2>1. down[1].kind \in Deliveries
    BY DEF Deliveries
  <2>2. down[1].kind \in Replies /\ down[1].kind # "output" /\ down[1].kind \in Answers
    BY <2>1 DEF Replies, Deliveries, Answers
  <2> QED BY <2>1, <2>2, <1>0, <1>1 DEF Tokens
<1>3. /\ Bounded(up, down', head) /\ InOrder(pending, bucket, down') /\ down' \in Seq(Message)
      /\ NoToken(up, down')
      /\ ToSet(down) \subseteq ToSet(down') \cup {down[1]}
  <2>1. Tail(down) \in Seq(Message) /\ ToSet(down) = {down[1]} \cup ToSet(Tail(down))
    BY <1>1, Taken, SetTaken
  <2>2. Bounded(up, Tail(down), head) /\ InOrder(pending, bucket, Tail(down))
    BY <1>0, <1>1, BoundedRead, OrderRead
  <2>3. NoToken(up, Tail(down))
    BY <1>0, <1>1, <1>2, NoTokenRead
  <2> QED BY <2>1, <2>2, <2>3
<1>4. /\ live' = FALSE /\ ui' = "ready" /\ recovery' = "baseline"
      /\ UNCHANGED <<replayed, rendered, anchor, pending, chunks, queued, reconcileDue, up>>
      /\ reset => painted' = {} /\ skipped' = {}
      /\ ~reset => painted' = painted /\ skipped' = skipped
  BY DEF WriteBaseline
<1>5. from \in 0..head /\ to \in 0..head /\ 1..from \subseteq Shown'
  <2>1. to \in 0..head
    BY <1>0, <1>1, Messages DEF Bounded
  <2>2. CASE from = 0
    BY <2>1, <2>2, <1>1
  <2>3. CASE down[1].kind = "replayed" /\ from = down[1].from /\ (reset => anchor = 0)
    <3>1. anchor \in 0..head /\ anchor <= rendered /\ from <= anchor /\ from \in Nat
      BY <2>3, <1>0, <1>1, <1>2, Messages DEF Positions, Asked, At
    <3>2. CASE reset
      <4>1. from = 0
        BY <3>1, <3>2, <2>3
      <4> QED BY <4>1, <2>1, <1>1
    <3>3. CASE ~reset
      <4>1. 1..rendered \subseteq Shown
        BY <1>0, <1>2 DEF Continued
      <4>2. 1..from \subseteq 1..rendered
        BY <3>1, <1>1
      <4>3. Shown' = Shown
        BY <3>3, <1>4 DEF Shown
      <4> QED BY <2>1, <3>1, <4>1, <4>2, <4>3, <1>1
    <3> QED BY <3>2, <3>3
  <2> QED BY <2>2, <2>3
<1>6. PICK w \in Write : w.lo = from + 1 /\ w.hi = to /\ w.kind = "baseline" /\ writes' = Append(writes, w)
  <2>1. [lo |-> from + 1, hi |-> to, kind |-> "baseline"] \in Write
    BY <1>1, <1>5 DEF Write, Seqs
  <2>2. PICK w \in Write : w = [lo |-> from + 1, hi |-> to, kind |-> "baseline"]
    BY <2>1
  <2>3. w.lo = from + 1 /\ w.hi = to /\ w.kind = "baseline"
    BY <2>2
  <2>4. writes' = Append(writes, w)
    BY <2>2 DEF WriteBaseline
  <2> QED BY <2>3, <2>4
<1>7. /\ writes' \in Seq(Write) /\ Len(writes') = Len(writes) + 1
      /\ \A i \in 1..Len(writes) : writes'[i] = writes[i]
      /\ writes'[Len(writes) + 1] = w
  BY <1>1, <1>6, Added
<1>8. Upto(Known, to) /\ Upto(Seen, to)
  <2>1. Upto(Known, to)
    BY <1>0, <1>1, <1>2 DEF Fresh
  <2> QED BY <2>1 DEF Upto, Known
<1>9. Upto(Seen, to)'
  <2>1. Ends(writes') \subseteq Ends(writes) \cup {to}
    <3>1. \A i \in 1..Len(writes') : writes'[i].hi = to \/ \E j \in 1..Len(writes) : writes'[i].hi = writes[j].hi
      BY <1>6, <1>7, <1>1
    <3> QED BY <3>1 DEF Ends
  <2>2. Shown' \subseteq Shown
    BY <1>4 DEF Shown
  <2>3. Seen' \subseteq Seen \cup {to}
    BY <2>1, <2>2, <1>4 DEF Seen
  <2> QED BY <2>3, <1>5, <1>8 DEF Upto
<1>10. \A i \in 1..Len(writes) : /\ writes[i].kind = "live" /\ writes[i].lo = writes[i].hi
                                 /\ writes[i].hi <= head /\ writes[i].hi <= to
  <2> SUFFICES ASSUME NEW i \in 1..Len(writes)
               PROVE  /\ writes[i].kind = "live" /\ writes[i].lo = writes[i].hi
                      /\ writes[i].hi <= head /\ writes[i].hi <= to
    OBVIOUS
  <2>1. writes[i].kind \in {"live", "baseline", "pending"}
    BY <1>1, WriteSorts
  <2>2. writes[i].kind = "live" /\ writes[i].lo = writes[i].hi /\ writes[i].hi <= head
    BY <2>1, <1>0, <1>2 DEF Queued, Baseline
  <2>3. writes[i].hi <= to
    BY <1>8 DEF Upto, Seen, Ends
  <2> QED BY <2>2, <2>3
<1>11. TypeOK'
  BY <1>0, <1>3, <1>4, <1>7 DEF TypeOK, RecoveryPCs
<1>12. Queued'
  <2> SUFFICES ASSUME NEW i \in 1..Len(writes')
               PROVE  /\ writes'[i].hi <= head
                      /\ writes'[i].kind # "baseline" => writes'[i].lo = writes'[i].hi
                      /\ writes'[i].kind = "pending" => recovery' = "pending"
                      /\ writes'[i].kind = "baseline" => Baseline(writes, i)'
    BY DEF Queued
  <2>1. CASE i \in 1..Len(writes)
    BY <2>1, <1>7, <1>10
  <2>2. CASE i = Len(writes) + 1
    <3>1. writes'[i] = w /\ w.hi <= head
      BY <2>2, <1>5, <1>6, <1>7
    <3>2. \A j \in 1..Len(writes') : writes'[j].kind = "baseline" => i = j
      BY <2>2, <1>1, <1>7, <1>10
    <3>3. 1..(w.lo - 1) \subseteq Shown'
      BY <1>5, <1>6
    <3> QED BY <3>1, <3>2, <3>3, <1>4, <1>6, <1>9 DEF Baseline
  <2> QED BY <2>1, <2>2, <1>1, <1>7
<1>13. Positions'
  <2>1. Asked(up', down', At')
    BY <1>3, <1>4, AskedNone
  <2> QED BY <2>1, <1>0, <1>4 DEF Positions
<1>14. Continued'
  BY <1>4 DEF Continued
<1>15. Claims'
  <2>1. OnlyAsks /\ recovery # "off"
    BY <1>2, <1>4 DEF OnlyAsks
  <2> QED BY <2>1, <1>0, ClaimsKept
<1>16. Accounted'
  <2> SUFFICES ASSUME NEW n \in 1..head PROVE Resting(n)' \/ Later(n)' \/ Fetched(n)'
    BY AccountedParts DEF Accounted, Resting, Later
  <2>0. PICK m0 : m0 = down[1]
    OBVIOUS
  <2>1. CASE n <= to
    <3>1. CASE n <= from
      BY <3>1, <1>5 DEF Resting, Shown
    <3>2. CASE from < n
      <4>1. Len(writes) + 1 \in 1..Len(writes') /\ n \in writes'[Len(writes) + 1].lo..writes'[Len(writes) + 1].hi
        BY <2>1, <3>2, <1>1, <1>5, <1>6, <1>7
      <4> QED BY <4>1 DEF Resting
    <3> QED BY <3>1, <3>2, <1>5
  <2>2. CASE ~(n <= to)
    <3>1. ~Resting(n)
      <4>1. n \notin painted \cup skipped \cup ToSet(chunks)
        BY <2>2, <1>8 DEF Upto, Seen, Shown
      <4>2. ~\E i \in 1..Len(writes) : n \in writes[i].lo..writes[i].hi
        BY <2>2, <1>1, <1>5, <1>10, WriteSorts
      <4> QED BY <4>1, <4>2 DEF Resting
    <3>2. /\ ToSet(up) \subseteq ToSet(up') \cup {m0} /\ ToSet(down) \subseteq ToSet(down') \cup {m0}
      BY <2>0, <1>3, <1>4
    <3>3. CASE Later(n)
      <4>1. ToSet(bucket) \subseteq ToSet(bucket') /\ ToSet(pending) \subseteq ToSet(pending') /\ m0.kind # "output"
        BY <2>0, <1>2, <1>4
      <4> QED BY <3>2, <3>3, <4>1, LaterStays
    <3>4. CASE Fetched(n)
      <4>1. /\ (~mounted => ~mounted') /\ (~connected => ~connected')
            /\ (reconcileDue => reconcileDue') /\ (reclaimDue => reclaimDue')
            /\ queued # "none" => queued' # "none"
        BY <1>4
      <4>2. Fetched(n)' \/ FetchedBy(m0, n)
        BY <4>1, <3>2, <3>4, <1>4, FetchedStays
      <4>3. ~FetchedBy(m0, n)
        <5>1. m0.kind \in {"replayed", "snapshotted"} /\ m0.at = to /\ m0.from \in Nat
          BY <2>0, <1>1, Messages
        <5> QED BY <5>1, <2>2, <1>5 DEF FetchedBy
      <4> QED BY <4>2, <4>3
    <3> QED BY <3>1, <3>3, <3>4, <1>0, AccountedParts
  <2> QED BY <2>1, <2>2
<1>17. Tokens(up', down', recovery') /\ Fresh(down', Known')
  BY <1>3, <1>4, TokensNone, FreshNone
<1> QED BY <1>3, <1>4, <1>11, <1>12, <1>13, <1>14, <1>15, <1>16, <1>17 DEF IInv

----------------------------------------------------------------------------
(* The browser reads a message                                             *)

LEMMA Reading ==
  ASSUME IInv, down # <<>>
  PROVE  /\ down[1] \in Message /\ 1 \in 1..Len(down) /\ connected
         /\ down[1].at \in Nat /\ down[1].at <= head
         /\ down[1].kind = "output" => down[1].at \in 1..head
         /\ Tail(down) \in Seq(Message) /\ ToSet(down) = {down[1]} \cup ToSet(Tail(down))
         /\ Bounded(up, Tail(down), head) /\ Tokens(up, Tail(down), recovery)
         /\ Asked(up, Tail(down), At) /\ InOrder(pending, bucket, Tail(down)) /\ Fresh(Tail(down), Known)
<1>0. /\ TypeOK /\ Bounded(up, down, head) /\ Claims /\ Positions
      /\ InOrder(pending, bucket, down) /\ Tokens(up, down, recovery) /\ Fresh(down, Known)
  BY DEF IInv
<1>1. down \in Seq(Message) /\ head \in Nat /\ Len(down) \in Nat
  BY <1>0, Sorts
<1>2. /\ down[1] \in Message /\ 1 \in 1..Len(down) /\ Tail(down) \in Seq(Message)
      /\ ToSet(down) = {down[1]} \cup ToSet(Tail(down))
  BY <1>1, Taken, SetTaken
<1>3. down[1].at \in Nat /\ down[1].at <= head /\ (down[1].kind = "output" => down[1].at \in 1..head)
  BY <1>0, <1>1, <1>2, Messages DEF Bounded
<1>4. connected
  BY <1>0, <1>1, <1>2 DEF Claims
<1>5. Bounded(up, Tail(down), head) /\ Tokens(up, Tail(down), recovery) /\ Asked(up, Tail(down), At)
  BY <1>0, <1>1, BoundedRead, TokensRead, AskedRead DEF Positions
<1>6. InOrder(pending, bucket, Tail(down)) /\ Fresh(Tail(down), Known)
  BY <1>0, <1>1, OrderRead, FreshRead
<1> QED BY <1>2, <1>3, <1>4, <1>5, <1>6

\* No baseline waits while output is painted as it arrives: what xterm was given is there.
LEMMA Given ==
  ASSUME IInv, live
  PROVE  /\ recovery # "baseline"
         /\ \A i \in 1..Len(writes) : writes[i].kind # "baseline"
         /\ \A n \in Shown \cup Ends(writes) \cup ToSet(chunks) : Resting(n)
         /\ pending = <<>> => \A n \in 1..replayed : Resting(n)
<1>0. TypeOK /\ Queued /\ Continued
  BY DEF IInv
<1>1. recovery # "baseline" /\ \A i \in 1..Len(writes) : writes[i].kind # "baseline"
  BY <1>0 DEF Continued, Queued, Baseline
<1>2. \A i \in 1..Len(writes) : writes[i].lo = writes[i].hi /\ writes[i].hi \in Nat
  BY <1>0, <1>1, Sorts, WriteSorts DEF Queued
<1>3. \A n \in Ends(writes) : \E i \in 1..Len(writes) : n \in writes[i].lo..writes[i].hi
  BY <1>2 DEF Ends
<1>4. \A n \in Shown \cup Ends(writes) \cup ToSet(chunks) : Resting(n)
  BY <1>3 DEF Resting, Shown
<1>5. pending = <<>> => 1..replayed \subseteq Shown \cup Ends(writes) \cup ToSet(chunks)
  BY <1>0, <1>1 DEF Continued
<1> QED BY <1>1, <1>4, <1>5

\* A message that changes nothing: the second half of a claim, or output accepted before.
LEMMA IgnoredSteps ==
  ASSUME IInv, down # <<>>, down' = Tail(down),
         down[1].kind = "claimed" \/ (down[1].kind = "output" /\ live /\ down[1].at <= replayed),
         UNCHANGED <<server, connected, up, coordinator, host, screen>>
  PROVE  IInv'
<1>0. /\ TypeOK /\ Claims /\ Queued /\ Continued /\ Positions /\ Accounted
  BY DEF IInv
<1> USE DEF server, coordinator, host, screen
<1>1. /\ down' \in Seq(Message) /\ ToSet(down) = {down[1]} \cup ToSet(down')
      /\ Bounded(up, down', head) /\ Tokens(up, down', recovery)
      /\ Asked(up, down', At) /\ InOrder(pending, bucket, down') /\ Fresh(down', Known)
      /\ down[1].at \in Nat
  BY Reading
<1>2. TypeOK'
  BY <1>0, <1>1 DEF TypeOK
<1>3. Queued' /\ Continued' /\ Known' = Known
  BY <1>0, ScreenStays
<1>4. Positions'
  BY <1>0, <1>1 DEF Positions, At
<1>5. Claims'
  <2>1. OnlyAsks
    BY DEF OnlyAsks
  <2> QED BY <2>1, <1>0, ClaimsKept
<1>6. Accounted'
  <2> SUFFICES ASSUME NEW n \in 1..head PROVE Resting(n)' \/ Later(n)' \/ Fetched(n)'
    BY AccountedParts DEF Accounted, Resting, Later
  <2>0. PICK m0 : m0 = down[1]
    OBVIOUS
  <2>1. /\ ToSet(up) \subseteq ToSet(up') \cup {m0} /\ ToSet(down) \subseteq ToSet(down') \cup {m0}
    BY <2>0, <1>1
  <2>2. Resting(n) => Resting(n)'
    BY DEF Resting
  <2>3. CASE Later(n)
    <3>1. CASE \E x \in ToSet(bucket) \cup ToSet(pending) : x >= n
      BY <3>1 DEF Later, LaterFrames
    <3>2. ASSUME NEW m \in ToSet(up) \cup ToSet(down), m.kind = "output", m.at >= n, m # m0
          PROVE  Later(n)'
      <4>1. m \in ToSet(up') \cup ToSet(down')
        BY <3>2, <2>1
      <4> QED BY <4>1, <3>2 DEF Later, LaterFrames, OnItsWay
    <3>3. CASE m0.kind = "output" /\ m0.at >= n
      <4>1. live /\ n \in 1..replayed
        <5>1. replayed \in Nat /\ n \in Nat
          BY <1>0, Sorts
        <5> QED BY <5>1, <3>3, <2>0, <1>1
      <4>2. CASE pending = <<>>
        BY <4>1, <4>2, <2>2, Given
      <4>3. CASE pending # <<>>
        <5>1. 1 \in 1..Len(pending) /\ pending[1] \in ToSet(pending) /\ replayed \in Nat /\ pending[1] \in Nat
          <6>1. pending \in Seq(1..head) /\ replayed \in Nat
            BY <1>0, Sorts
          <6>2. Len(pending) \in Nat \ {0} /\ pending[1] \in 1..head
            BY <6>1, <4>3, Taken
          <6>3. 1 \in 1..Len(pending) /\ pending[1] \in Nat
            BY <6>2
          <6>4. pending[1] \in ToSet(pending)
            BY <6>1, <6>3, Elements
          <6> QED BY <6>1, <6>3, <6>4
        <5>2. pending[1] > replayed + 1
          BY <5>1, <4>1, <1>0, Given DEF Continued
        <5>3. pending[1] >= n
          BY <5>1, <5>2, <4>1
        <5> QED BY <5>1, <5>3 DEF Later, LaterFrames
      <4> QED BY <4>2, <4>3
    <3> QED BY <2>3, <3>1, <3>2, <3>3 DEF Later, LaterFrames, OnItsWay
  <2>4. CASE Fetched(n)
    <3>1. Fetched(n)' \/ FetchedBy(m0, n)
      BY <2>1, <2>4, FetchedStays
    <3> QED BY <3>1, <2>0 DEF FetchedBy
  <2> QED BY <2>2, <2>3, <2>4, <1>0, AccountedParts
<1> QED BY <1>1, <1>2, <1>3, <1>4, <1>5, <1>6 DEF IInv

\* Output is held back while a recovery writes its data.
LEMMA HeldBackSteps ==
  ASSUME IInv, down # <<>>, down' = Tail(down), NEW n, n = down[1].at, down[1].kind = "output", ~live,
         pending' = Append(pending, n),
         UNCHANGED <<server, connected, up, coordinator, live, replayed, rendered, anchor, chunks,
                     writes, ui, mounted, screen>>
  PROVE  IInv'
<1>0. /\ TypeOK /\ Claims /\ Queued /\ Continued /\ Positions /\ Accounted
      /\ InOrder(pending, bucket, down) /\ Fresh(down, Known)
  BY DEF IInv
<1> USE DEF server, coordinator, screen
<1>1. /\ down' \in Seq(Message) /\ ToSet(down) = {down[1]} \cup ToSet(down')
      /\ Bounded(up, down', head) /\ Tokens(up, down', recovery)
      /\ Asked(up, down', At) /\ n \in 1..head
  BY Reading
<1>2. down \in Seq(Message) /\ pending \in Seq(1..head)
  BY <1>0, Sorts
<1>3. pending' \in Seq(1..head) /\ ToSet(pending') = ToSet(pending) \cup {n}
  <2>1. PICK S : S = 1..head
    OBVIOUS
  <2>2. pending \in Seq(S) /\ n \in S
    BY <1>1, <1>2, <2>1
  <2>3. Append(pending, n) \in Seq(S) /\ ToSet(Append(pending, n)) = ToSet(pending) \cup {n}
    BY <2>2, Added, SetAdded
  <2> QED BY <2>1, <2>3
<1>4. InOrder(pending', bucket', down')
  BY <1>0, <1>1, <1>2, OrderHeldBack
<1>5. Seen' = Seen /\ Shown' = Shown /\ Known' = Known \cup {n}
  BY <1>3 DEF Seen, Shown, Known, Ends
<1>6. Fresh(down', Known')
  BY <1>0, <1>2, <1>5, FreshReceived
<1>7. TypeOK'
  BY <1>0, <1>1, <1>3 DEF TypeOK
<1>8. Queued'
  <2>1. \A i \in 1..Len(writes) : Baseline(writes, i) => Baseline(writes, i)'
    BY <1>5 DEF Baseline
  <2> QED BY <2>1, <1>0 DEF Queued
<1>9. Continued' /\ Positions'
  <2>1. Ends(writes)' = Ends(writes) /\ \A i \in 1..Len(writes) : Upcoming(writes, i)' = Upcoming(writes, i)
    BY DEF Ends, Upcoming
  <2>2. Continued'
    BY <2>1, <1>0, <1>5, SMTT(20) DEF Continued
  <2>3. At' = At
    BY DEF At
  <2>4. Positions'
    BY <2>3, <1>0, <1>1 DEF Positions
  <2> QED BY <2>2, <2>4
<1>10. Claims'
  <2>1. OnlyAsks
    BY DEF OnlyAsks
  <2> QED BY <2>1, <1>0, ClaimsKept
<1>11. Accounted'
  <2> SUFFICES ASSUME NEW x \in 1..head PROVE Resting(x)' \/ Later(x)' \/ Fetched(x)'
    BY AccountedParts DEF Accounted, Resting, Later
  <2>0. PICK m0 : m0 = down[1]
    OBVIOUS
  <2>1. /\ ToSet(up) \subseteq ToSet(up') \cup {m0} /\ ToSet(down) \subseteq ToSet(down') \cup {m0}
    BY <2>0, <1>1
  <2>2. Resting(x) => Resting(x)'
    BY DEF Resting
  <2>3. CASE Later(x)
    <3>1. CASE \E y \in ToSet(bucket) \cup ToSet(pending) : y >= x
      BY <3>1, <1>3 DEF Later, LaterFrames
    <3>2. ASSUME NEW m \in ToSet(up) \cup ToSet(down), m.kind = "output", m.at >= x, m # m0
          PROVE  Later(x)'
      <4>1. m \in ToSet(up') \cup ToSet(down')
        BY <3>2, <2>1
      <4> QED BY <4>1, <3>2 DEF Later, LaterFrames, OnItsWay
    <3>3. CASE m0.at >= x
      <4>1. n >= x /\ n \in ToSet(pending')
        BY <3>3, <2>0, <1>3
      <4> QED BY <4>1 DEF Later, LaterFrames
    <3> QED BY <2>3, <3>1, <3>2, <3>3 DEF Later, LaterFrames, OnItsWay
  <2>4. CASE Fetched(x)
    <3>1. Fetched(x)' \/ FetchedBy(m0, x)
      BY <2>1, <2>4, FetchedStays
    <3> QED BY <3>1, <2>0 DEF FetchedBy
  <2> QED BY <2>2, <2>3, <2>4, <1>0, AccountedParts
<1> QED BY <1>1, <1>4, <1>6, <1>7, <1>8, <1>9, <1>10, <1>11 DEF IInv

\* Output that continues what was accepted.
LEMMA AcceptedSteps ==
  ASSUME IInv, down # <<>>, down' = Tail(down), NEW n, n = down[1].at, down[1].kind = "output", live,
         n = replayed + 1, chunks' = Append(chunks, n), replayed' = n,
         UNCHANGED <<server, connected, up, coordinator, live, rendered, anchor, pending,
                     writes, ui, mounted, screen>>
  PROVE  IInv'
<1>0. /\ TypeOK /\ Claims /\ Queued /\ Continued /\ Positions /\ Accounted
      /\ InOrder(pending, bucket, down) /\ Fresh(down, Known)
  BY DEF IInv
<1> USE DEF server, coordinator, screen
<1>1. /\ down' \in Seq(Message) /\ ToSet(down) = {down[1]} \cup ToSet(down') /\ 1 \in 1..Len(down)
      /\ Bounded(up, down', head) /\ Tokens(up, down', recovery)
      /\ Asked(up, down', At) /\ InOrder(pending, bucket, down') /\ n \in 1..head
  BY Reading
<1>2. /\ down \in Seq(Message) /\ chunks \in Seq(1..head) /\ replayed \in Nat /\ Len(chunks) \in Nat
      /\ pending \in Seq(1..head) /\ \A i \in 1..Len(pending) : pending[i] \in 1..head
      /\ head \in Nat
  BY <1>0, Sorts
<1>3. /\ chunks' \in Seq(1..head) /\ ToSet(chunks') = ToSet(chunks) \cup {n}
      /\ Len(chunks') = Len(chunks) + 1 /\ chunks'[Len(chunks) + 1] = n
      /\ \A i \in 1..Len(chunks) : chunks'[i] = chunks[i]
  <2>1. PICK S : S = 1..head
    OBVIOUS
  <2>2. chunks \in Seq(S) /\ n \in S
    BY <1>1, <1>2, <2>1
  <2>3. /\ Append(chunks, n) \in Seq(S) /\ ToSet(Append(chunks, n)) = ToSet(chunks) \cup {n}
        /\ Len(Append(chunks, n)) = Len(chunks) + 1 /\ Append(chunks, n)[Len(chunks) + 1] = n
        /\ \A i \in 1..Len(chunks) : Append(chunks, n)[i] = chunks[i]
    BY <2>2, Added, SetAdded
  <2> QED BY <2>1, <2>3
<1>4. /\ recovery # "baseline" /\ \A i \in 1..Len(writes) : writes[i].kind # "baseline"
      /\ \A x \in Shown \cup Ends(writes) \cup ToSet(chunks) : Resting(x)
      /\ pending = <<>> => \A x \in 1..replayed : Resting(x)
  BY Given
<1>5. pending = <<>>
  <2> SUFFICES ASSUME pending # <<>> PROVE FALSE
    OBVIOUS
  <2>1. 1 \in 1..Len(pending)
    <3>1. Len(pending) \in Nat \ {0}
      BY <1>2, Taken
    <3> QED BY <3>1
  <2>2. pending[1] > replayed + 1
    BY <2>1, <1>0, <1>4 DEF Continued
  <2>3. pending[1] < n
    BY <2>1, <1>0, <1>1 DEF InOrder
  <2> QED BY <2>1, <2>2, <2>3, <1>2
<1>6. Known' \subseteq Known \cup {n} /\ Shown' = Shown
  BY <1>3 DEF Seen, Shown, Known, Ends
<1>7. Fresh(down', Known')
  <2>1. Fresh(down', Known \cup {n})
    BY <1>0, <1>2, FreshReceived
  <2> QED BY <2>1, <1>6, FreshLess
<1>8. TypeOK'
  BY <1>0, <1>1, <1>3 DEF TypeOK
<1>9. Queued' /\ Positions'
  BY <1>0, <1>1, <1>4 DEF Queued, Positions, At
<1>10. Continued'
  <2>1. /\ 1..rendered \subseteq Shown
        /\ \A i \in 1..Len(writes) : 1..writes[i].hi \subseteq Shown \cup Upcoming(writes, i)
        /\ \A i \in 1..Len(chunks) :
             1..chunks[i] \subseteq Shown \cup Ends(writes) \cup {chunks[j] : j \in 1..i}
        /\ 1..replayed \subseteq Shown \cup Ends(writes) \cup ToSet(chunks)
    BY <1>0, <1>4, <1>5 DEF Continued
  <2>2. 1..n \subseteq Shown \cup Ends(writes) \cup ToSet(chunks')
    BY <2>1, <1>2, <1>3
  <2>3. ASSUME NEW i \in 1..Len(chunks')
        PROVE  1..chunks'[i] \subseteq Shown \cup Ends(writes) \cup {chunks'[j] : j \in 1..i}
    <3>1. CASE i \in 1..Len(chunks)
      <4>1. \A j \in 1..i : chunks'[j] = chunks[j]
        BY <3>1, <1>2, <1>3
      <4>2. {chunks'[j] : j \in 1..i} = {chunks[j] : j \in 1..i}
        BY <4>1
      <4> QED BY <3>1, <4>2, <2>1, <1>3
    <3>2. CASE i = Len(chunks) + 1
      <4>1. ToSet(chunks') = {chunks'[j] : j \in 1..Len(chunks')}
        BY <1>3, Elements
      <4>2. chunks'[i] = n /\ i = Len(chunks')
        BY <3>2, <1>3
      <4> QED BY <4>1, <4>2, <2>2
    <3>3. i \in 1..Len(chunks) \/ i = Len(chunks) + 1
      BY <1>2, <1>3
    <3> QED BY <3>1, <3>2, <3>3
  <2>4. Ends(writes)' = Ends(writes) /\ \A i \in 1..Len(writes) : Upcoming(writes, i)' = Upcoming(writes, i)
    BY DEF Ends, Upcoming
  <2>5. Len(pending') = 0
    BY <1>5, EmptySeq
  <2> QED BY <2>1, <2>2, <2>3, <2>4, <2>5, <1>4, <1>6 DEF Continued
<1>11. Claims'
  <2>1. OnlyAsks
    BY DEF OnlyAsks
  <2> QED BY <2>1, <1>0, ClaimsKept
<1>12. Accounted'
  <2> SUFFICES ASSUME NEW x \in 1..head PROVE Resting(x)' \/ Later(x)' \/ Fetched(x)'
    BY AccountedParts DEF Accounted, Resting, Later
  <2>0. PICK m0 : m0 = down[1]
    OBVIOUS
  <2>1. /\ ToSet(up) \subseteq ToSet(up') \cup {m0} /\ ToSet(down) \subseteq ToSet(down') \cup {m0}
    BY <2>0, <1>1
  <2>2. Resting(x) => Resting(x)'
    BY <1>3 DEF Resting
  <2>3. CASE Later(x)
    <3>1. CASE \E y \in ToSet(bucket) : y >= x
      BY <3>1 DEF Later, LaterFrames
    <3>2. ASSUME NEW m \in ToSet(up) \cup ToSet(down), m.kind = "output", m.at >= x, m # m0
          PROVE  Later(x)'
      <4>1. m \in ToSet(up') \cup ToSet(down')
        BY <3>2, <2>1
      <4> QED BY <4>1, <3>2 DEF Later, LaterFrames, OnItsWay
    <3>3. CASE m0.at >= x
      <4>1. x \in 1..replayed \/ x = n
        <5>1. n >= x
          BY <3>3, <2>0
        <5>2. n = replayed + 1 /\ x \in Nat \ {0} /\ replayed \in Nat
          BY <1>2
        <5> QED BY <5>1, <5>2
      <4>2. x = n => Resting(x)'
        BY <1>3 DEF Resting
      <4> QED BY <4>1, <4>2, <2>2, <1>4, <1>5
    <3>4. ToSet(pending) = {}
      <4>1. Len(pending) = 0
        BY <1>5, EmptySeq
      <4>2. ToSet(pending) = {pending[i] : i \in 1..Len(pending)}
        BY <1>2, Elements
      <4> QED BY <4>1, <4>2
    <3> QED BY <2>3, <3>1, <3>2, <3>3, <3>4 DEF Later, LaterFrames, OnItsWay
  <2>4. CASE Fetched(x)
    <3>1. Fetched(x)' \/ FetchedBy(m0, x)
      BY <2>1, <2>4, FetchedStays
    <3> QED BY <3>1, <2>0 DEF FetchedBy
  <2> QED BY <2>2, <2>3, <2>4, <1>0, AccountedParts
<1> QED BY <1>1, <1>5, <1>7, <1>8, <1>9, <1>10, <1>11, <1>12 DEF IInv

\* Output that does not continue what was accepted: the host asks for the rest.
LEMMA GapSteps ==
  ASSUME IInv, down # <<>>, down' = Tail(down), NEW n, n = down[1].at, down[1].kind = "output", live,
         n > replayed + 1, pending' = Append(pending, n), chunks' = <<>>, Queue("seq_gap"),
         UNCHANGED <<server, connected, reclaimDue, activation, live, replayed, rendered, anchor,
                     writes, ui, mounted, screen>>
  PROVE  IInv'
<1>0. /\ TypeOK /\ Claims /\ Queued /\ Continued /\ Positions
      /\ InOrder(pending, bucket, down) /\ Fresh(down, Known)
  BY DEF IInv
<1> USE DEF server, screen
<1>1. /\ down' \in Seq(Message) /\ n \in 1..head /\ connected
      /\ Bounded(up, down', head) /\ Tokens(up, down', recovery) /\ Asked(up, down', At)
  BY Reading
<1>2. /\ down \in Seq(Message) /\ replayed \in Nat /\ head \in Nat /\ At \in 0..head
      /\ pending \in Seq(1..head) /\ Len(pending) \in Nat /\ rendered \in 0..head
      /\ anchor \in {None} \cup 0..head
  BY <1>0, Sorts
<1>3. /\ pending' \in Seq(1..head) /\ ToSet(pending') = ToSet(pending) \cup {n}
      /\ Len(pending') = Len(pending) + 1 /\ pending'[Len(pending) + 1] = n
      /\ \A i \in 1..Len(pending) : pending'[i] = pending[i]
  <2>1. PICK S : S = 1..head
    OBVIOUS
  <2>2. pending \in Seq(S) /\ n \in S
    BY <1>1, <1>2, <2>1
  <2>3. /\ Append(pending, n) \in Seq(S) /\ ToSet(Append(pending, n)) = ToSet(pending) \cup {n}
        /\ Len(Append(pending, n)) = Len(pending) + 1 /\ Append(pending, n)[Len(pending) + 1] = n
        /\ \A i \in 1..Len(pending) : Append(pending, n)[i] = pending[i]
    BY <2>2, Added, SetAdded
  <2> QED BY <2>1, <2>3
<1>4. /\ up' \in Seq(Message) /\ recovery' \in RecoveryPCs /\ reconcileDue' \in BOOLEAN
      /\ queued' \in Reasons \cup {"none"}
      /\ Tokens(up', down', recovery') /\ Asked(up', down', At) /\ Bounded(up', down', head)
      /\ OnlyAsks
      /\ queued' # "none" \/ reconcileDue' \/ Requested(up', At)
      /\ recovery # "off" => recovery' = recovery /\ queued' # "none"
      /\ recovery = "off" => recovery' \in {"off", "decision"}
      /\ connected /\ recovery = "off" => up' # up
  <2>1. "seq_gap" \in Reasons /\ UNCHANGED <<anchor, rendered>>
    BY DEF Reasons
  <2> QED BY <2>1, <1>0, <1>1, QueueEffect
<1>5. recovery # "baseline" /\ recovery' # "baseline" /\ \A i \in 1..Len(writes) : writes[i].kind # "baseline"
  <2>1. recovery # "baseline" /\ \A i \in 1..Len(writes) : writes[i].kind # "baseline"
    BY Given
  <2> QED BY <2>1, <1>4
<1>6. InOrder(pending', bucket', down')
  BY <1>0, <1>1, <1>2, OrderHeldBack
<1>7. Fresh(down', Known')
  <2>1. Fresh(down', Known \cup {n})
    BY <1>0, <1>2, FreshReceived
  <2>2. ToSet(chunks') = {}
    BY EmptySeq DEF ToSet
  <2>3. Known' \subseteq Known \cup {n}
    BY <2>2, <1>3 DEF Known, Seen, Shown, Ends
  <2> QED BY <2>1, <2>3, FreshLess
<1>8. TypeOK'
  <2>1. chunks' \in Seq(1..head)
    BY EmptySeq
  <2> QED BY <2>1, <1>0, <1>1, <1>3, <1>4 DEF TypeOK
<1>9. Queued'
  <2>1. \A i \in 1..Len(writes) : writes[i].kind = "pending" => recovery' = "pending"
    BY <1>0, <1>4 DEF Queued
  <2> QED BY <2>1, <1>0, <1>5 DEF Queued
<1>10. Positions'
  <2>1. At' = At
    BY DEF At
  <2>2. recovery' = "data" => recovery = "data"
    BY <1>4
  <2> QED BY <2>1, <2>2, <1>0, <1>4 DEF Positions
<1>11. Continued'
  <2>1. /\ 1..rendered \subseteq Shown
        /\ \A i \in 1..Len(writes) : 1..writes[i].hi \subseteq Shown \cup Upcoming(writes, i)
        /\ \A i \in 1..Len(pending) : pending[i] > replayed + 1
    BY <1>0, <1>5 DEF Continued
  <2>2. Shown' = Shown /\ \A i \in 1..Len(writes) : Upcoming(writes, i)' = Upcoming(writes, i)
    BY DEF Shown, Upcoming
  <2>3. Len(chunks') = 0
    BY EmptySeq
  <2>4. pending' # <<>>
    BY <1>2, <1>3, EmptySeq
  <2>5. \A i \in 1..Len(pending') : pending'[i] > replayed + 1
    <3>1. \A i \in 1..Len(pending') : i \in 1..Len(pending) \/ i = Len(pending) + 1
      BY <1>2, <1>3
    <3> QED BY <3>1, <2>1, <1>3
  <2> QED BY <2>1, <2>2, <2>3, <2>4, <2>5, <1>5 DEF Continued
<1>12. Claims'
  <2>1. connected /\ up' = up /\ recovery = "off" => mounted' = mounted /\ recovery' = "off"
    BY <1>4
  <2> QED BY <2>1, <1>0, <1>4, ClaimsKept
<1>13. Accounted'
  <2>1. CASE queued' # "none" \/ reconcileDue'
    BY <2>1, <1>2, AccountedAnew
  <2>2. CASE Requested(up', At) /\ recovery = "off"
    <3>1. At <= rendered /\ 1..rendered \subseteq Shown /\ At \in Nat
      BY <2>2, <1>0, <1>2 DEF Positions, Continued, At
    <3>2. 1..At \subseteq Shown'
      BY <3>1, <1>2 DEF Shown
    <3> QED BY <2>2, <3>1, <3>2, <1>2, AccountedAnew
  <2> QED BY <2>1, <2>2, <1>4
<1> QED BY <1>1, <1>4, <1>6, <1>7, <1>8, <1>9, <1>10, <1>11, <1>12, <1>13 DEF IInv

\* The lease is with another page: the recovery ends, and the page asks again later.
LEMMA RequiredSteps ==
  ASSUME IInv, down # <<>>, down' = Tail(down), down[1].kind = "activation_required",
         reclaimDue' = TRUE, NextRecovery,
         UNCHANGED <<server, connected, activation, host, screen>>
  PROVE  IInv'
<1>0. /\ TypeOK /\ Claims /\ Queued /\ Continued /\ Positions /\ Tokens(up, down, recovery)
  BY DEF IInv
<1> USE DEF server, host, screen
<1>1. /\ down' \in Seq(Message) /\ 1 \in 1..Len(down)
      /\ Bounded(up, down', head) /\ InOrder(pending, bucket, down') /\ Fresh(down', Known)
  BY Reading
<1>2. head \in Nat /\ At \in 0..head /\ down \in Seq(Message)
  BY <1>0, Sorts
<1>3. recovery \in {"decision", "data"} /\ NoToken(up, down')
  <2>1. down[1].kind \in Replies
    BY DEF Replies
  <2> QED BY <2>1, <1>0, <1>1, <1>2, NoTokenRead DEF Tokens
<1>4. Position = At /\ At' = At
  BY DEF Position, At
<1>5. Position \in 0..head
  BY <1>2, <1>4
<1> HIDE DEF Position
<1>6. /\ up' \in Seq(Message) /\ recovery' \in {"off", "decision"} /\ reconcileDue' \in BOOLEAN
      /\ queued' = "none"
      /\ Tokens(up', down', recovery') /\ Asked(up', down', Position) /\ Bounded(up', down', head)
      /\ OnlyAsks
  BY <1>0, <1>1, <1>3, <1>5, NextRecoveryEffect
<1>7. Queued' /\ Continued' /\ Known' = Known
  <2>1. recovery' = recovery \/ {recovery, recovery'} \subseteq Calm
    BY <1>3, <1>6 DEF Calm
  <2> QED BY <2>1, <1>0, ScreenStays
<1>8. TypeOK'
  BY <1>0, <1>1, <1>6 DEF TypeOK, RecoveryPCs
<1>9. Positions'
  BY <1>0, <1>4, <1>6 DEF Positions
<1>10. Claims'
  <2>1. recovery # "off" /\ activation' = activation /\ reclaimDue'
    BY <1>3
  <2> QED BY <2>1, <1>0, <1>6, ClaimsKept
<1>11. Accounted'
  BY <1>2, AccountedAnew
<1> QED BY <1>1, <1>6, <1>7, <1>8, <1>9, <1>10, <1>11 DEF IInv

LEMMA ClientReceivesSteps ==
  ASSUME IInv, ClientReceives
  PROVE  IInv'
<1>1. /\ down # <<>> /\ down' = Tail(down) /\ down \in Seq(Message) /\ Head(down) = down[1]
      /\ UNCHANGED <<server, connected, mounted, limits>>
  BY Sorts, Taken DEF ClientReceives, IInv
<1>2. PICK m : m = Head(down)
  OBVIOUS
<1>3. m = down[1] /\ m.at \in 0..head
  <2>1. head \in Nat
    BY Sorts DEF IInv
  <2> QED BY <2>1, <1>1, <1>2, Reading
<1>4. CASE m.kind = "output" /\ UNCHANGED <<rendered, anchor, reclaimDue, activation>> /\ OutputArrives(m.at)
  <2>1. /\ m.at \in Nat /\ replayed \in Nat
    BY <1>3, Sorts DEF IInv
  <2>2. UNCHANGED <<live, writes, ui, screen>>
    BY <1>4 DEF OutputArrives
  <2>3. CASE ~live
    <3>1. /\ pending' = Append(pending, m.at)
          /\ UNCHANGED <<replayed, chunks, recovery, queued, reconcileDue, up>>
      BY <1>4, <2>3 DEF OutputArrives
    <3> QED BY <2>2, <2>3, <3>1, <1>1, <1>3, <1>4, HeldBackSteps DEF coordinator
  <2>4. CASE live /\ m.at <= replayed
    <3>1. UNCHANGED <<pending, replayed, chunks, recovery, queued, reconcileDue, up>>
      BY <1>4, <2>4 DEF OutputArrives
    <3> QED BY <2>2, <2>4, <3>1, <1>1, <1>3, <1>4, IgnoredSteps DEF coordinator, host
  <2>5. CASE live /\ m.at > replayed /\ m.at - 1 > replayed
    <3>1. /\ pending' = Append(pending, m.at) /\ chunks' = <<>> /\ Queue("seq_gap") /\ replayed' = replayed
          /\ m.at > replayed + 1
      BY <1>4, <2>1, <2>5 DEF OutputArrives
    <3> QED BY <2>2, <2>5, <3>1, <1>1, <1>3, <1>4, GapSteps
  <2>6. CASE live /\ m.at > replayed /\ ~(m.at - 1 > replayed)
    <3>1. /\ chunks' = Append(chunks, m.at) /\ replayed' = m.at
          /\ UNCHANGED <<pending, recovery, queued, reconcileDue, up>>
          /\ m.at = replayed + 1
      BY <1>4, <2>1, <2>6 DEF OutputArrives
    <3> QED BY <2>2, <2>6, <3>1, <1>1, <1>3, <1>4, AcceptedSteps DEF coordinator
  <2> QED BY <2>1, <2>3, <2>4, <2>5, <2>6
<1>5. CASE /\ m.kind = "continuity_lost" /\ UNCHANGED <<rendered, anchor, ui>> /\ Queue("seq_gap")
           /\ HostKept /\ UNCHANGED <<reclaimDue, activation>>
  <2>1. "seq_gap" \in Reasons /\ mounted' \in BOOLEAN /\ reclaimDue' \in BOOLEAN
    BY <1>1, <1>5 DEF IInv, TypeOK, Reasons
  <2> QED BY <2>1, <1>1, <1>5, QueueSteps DEF HostKept, server, screen
<1>6. CASE /\ m.kind = "claimed" /\ activation' = "active" /\ UNCHANGED <<rendered, anchor, ui>>
           /\ Claimed /\ HostKept
  <2>1. Claims /\ 1 \in 1..Len(down)
    BY <1>1, Reading DEF IInv
  <2>2. lease /\ subscribed /\ connected /\ (activation # "active" => reclaimDue)
    BY <2>1, <1>3, <1>6 DEF Claims
  <2>3. CASE reclaimDue
    <3>1. /\ "socket_reconnected" \in Reasons /\ mounted' \in BOOLEAN /\ reclaimDue' \in BOOLEAN
          /\ Queue("socket_reconnected")
      BY <1>1, <1>6, <2>3 DEF Claimed, IInv, TypeOK, Reasons
    <3> QED BY <2>2, <3>1, <1>1, <1>6, QueueSteps DEF HostKept, server, screen
  <2>4. CASE ~reclaimDue
    <3>1. UNCHANGED <<recovery, queued, reconcileDue, up, activation>> /\ reclaimDue' = reclaimDue
      <4>1. reclaimDue \in BOOLEAN
        BY DEF IInv, TypeOK
      <4> QED BY <4>1, <2>2, <2>4, <1>6 DEF Claimed
    <3> QED BY <3>1, <1>1, <1>3, <1>6, IgnoredSteps DEF HostKept, coordinator, host
  <2> QED BY <2>3, <2>4
<1>7. CASE /\ m.kind = "activation_required" /\ reclaimDue' = TRUE /\ UNCHANGED <<rendered, anchor, ui>>
           /\ NextRecovery /\ HostKept /\ UNCHANGED activation
  BY <1>1, <1>3, <1>7, RequiredSteps DEF HostKept, host
<1>8. CASE /\ m.kind = "noop" /\ UNCHANGED painted /\ FinishBaseline(m.at, writes)
           /\ UNCHANGED <<reclaimDue, activation>>
  BY <1>1, <1>3, <1>8, NoopSteps DEF server
<1>9. CASE /\ m.kind = "useReplay" /\ Request("replay", m.at)
           /\ HostKept /\ UNCHANGED <<rendered, reclaimDue, activation>>
  BY <1>1, <1>3, <1>9, DataSteps DEF HostKept
<1>10. CASE /\ m.kind \in {"useSnapshot", "too_old"} /\ Request("snapshot", 0)
            /\ HostKept /\ UNCHANGED <<rendered, reclaimDue, activation>>
  BY <1>1, <1>3, <1>10, DataSteps DEF HostKept
<1>11. CASE /\ m.kind = "replayed" /\ WriteBaseline(m.from, m.at, anchor = 0)
            /\ UNCHANGED <<reclaimDue, activation>>
  <2>1. PICK r \in BOOLEAN : r = (anchor = 0)
    OBVIOUS
  <2>2. WriteBaseline(m.from, m.at, r)
    BY <2>1, <1>11
  <2> QED BY <2>1, <2>2, <1>1, <1>3, <1>11, BaselineSteps
<1>12. CASE /\ m.kind = "snapshotted" /\ WriteBaseline(0, m.at, TRUE)
            /\ UNCHANGED <<reclaimDue, activation>>
  BY <1>1, <1>3, <1>12, BaselineSteps
<1> QED BY <1>2, <1>4, <1>5, <1>6, <1>7, <1>8, <1>9, <1>10, <1>11, <1>12 DEF ClientReceives

----------------------------------------------------------------------------
(* The host, the page and its connection                                   *)

LEMMA WriteLiveSteps ==
  ASSUME IInv, WriteLive
  PROVE  IInv'
<1>0. /\ TypeOK /\ Bounded(up, down, head) /\ Claims /\ Queued /\ Continued /\ Positions
      /\ InOrder(pending, bucket, down) /\ Tokens(up, down, recovery) /\ Fresh(down, Known)
      /\ Accounted
  BY DEF IInv
<1>1. PICK g : g = [i \in 1..Len(chunks) |-> [lo |-> chunks[i], hi |-> chunks[i], kind |-> "live"]]
  OBVIOUS
<1>2. /\ chunks' = <<>> /\ writes' = writes \o g
      /\ UNCHANGED <<head, bucket, subscribed, lease, connected, up, down>>
      /\ UNCHANGED <<recovery, queued, reconcileDue, reclaimDue, activation>>
      /\ UNCHANGED <<live, replayed, rendered, anchor, pending, ui, mounted, painted, skipped>>
  BY <1>1 DEF WriteLive, server, socket, coordinator, screen
<1>3. /\ head \in Nat /\ head <= MaxOut /\ MaxOut \in Nat /\ writes \in Seq(Write) /\ Len(writes) \in Nat
      /\ chunks \in Seq(1..head) /\ Len(chunks) \in Nat /\ \A i \in 1..Len(chunks) : chunks[i] \in 1..head
      /\ up \in Seq(Message) /\ down \in Seq(Message)
  BY <1>0, Sorts
<1>4. g \in Seq(Write) /\ Len(g) = Len(chunks)
      /\ \A i \in 1..Len(chunks) : g[i].lo = chunks[i] /\ g[i].hi = chunks[i] /\ g[i].kind = "live"
  <2>1. \A i \in 1..Len(chunks) : [lo |-> chunks[i], hi |-> chunks[i], kind |-> "live"] \in Write
    BY <1>3 DEF Write, Seqs
  <2>2. PICK k \in Nat : k = Len(chunks)
    BY <1>3
  <2>4. g \in [1..k -> Write]
    BY <1>1, <2>1, <2>2
  <2>5. g \in Seq(Write)
    BY <2>4, IsASeq
  <2>6. Len(g) = k
    BY <2>4, <2>5, LenProperties
  <2>3. g \in Seq(Write) /\ Len(g) = Len(chunks)
    BY <2>2, <2>5, <2>6
  <2> QED BY <2>3, <1>1
<1>5. /\ writes' \in Seq(Write) /\ Len(writes') = Len(writes) + Len(chunks)
      /\ \A i \in 1..Len(writes) : writes'[i] = writes[i]
      /\ \A i \in 1..Len(chunks) : writes'[Len(writes) + i] = g[i]
      /\ \A i \in (Len(writes) + 1)..(Len(writes) + Len(chunks)) :
           i - Len(writes) \in 1..Len(chunks) /\ writes'[i] = g[i - Len(writes)]
  <2>1. /\ writes \o g \in Seq(Write) /\ Len(writes \o g) = Len(writes) + Len(g)
        /\ \A i \in 1..Len(writes) : (writes \o g)[i] = writes[i]
        /\ \A i \in 1..Len(g) : (writes \o g)[Len(writes) + i] = g[i]
        /\ \A i \in (Len(writes) + 1)..(Len(writes) + Len(g)) :
             i - Len(writes) \in 1..Len(g) /\ (writes \o g)[i] = g[i - Len(writes)]
    <3>1. g \in Seq(Write) /\ writes \in Seq(Write)
      BY <1>3, <1>4
    <3> QED BY <3>1, Joined
  <2> QED BY <2>1, <1>2, <1>4
<1>6. \A i \in 1..Len(writes') :
        \/ i \in 1..Len(writes) /\ writes'[i] = writes[i]
        \/ \E k \in 1..Len(chunks) : /\ i = Len(writes) + k /\ writes'[i].lo = chunks[k]
                                     /\ writes'[i].hi = chunks[k] /\ writes'[i].kind = "live"
  <2> SUFFICES ASSUME NEW i \in 1..Len(writes')
               PROVE  \/ i \in 1..Len(writes) /\ writes'[i] = writes[i]
                      \/ \E k \in 1..Len(chunks) : /\ i = Len(writes) + k /\ writes'[i].lo = chunks[k]
                                                   /\ writes'[i].hi = chunks[k] /\ writes'[i].kind = "live"
    OBVIOUS
  <2>1. CASE i \in 1..Len(writes)
    BY <2>1, <1>5
  <2>2. CASE i \in (Len(writes) + 1)..(Len(writes) + Len(chunks))
    <3>1. PICK k \in 1..Len(chunks) : k = i - Len(writes) /\ writes'[i] = g[k]
      BY <2>2, <1>5
    <3>2. i = Len(writes) + k
      BY <3>1, <2>2, <1>3
    <3> QED BY <3>1, <3>2, <1>4
  <2> QED BY <2>1, <2>2, <1>3, <1>5
<1>7. ToSet(chunks) = {chunks[i] : i \in 1..Len(chunks)} /\ ToSet(chunks') = {} /\ Len(chunks') = 0
  <2>1. ToSet(chunks) = {chunks[i] : i \in 1..Len(chunks)}
    BY <1>3, Elements
  <2> QED BY <2>1, <1>2, EmptySeq DEF ToSet
<1>8. Ends(writes') = Ends(writes) \cup ToSet(chunks)
  <2>1. \A i \in 1..Len(writes) : i \in 1..Len(writes') /\ writes'[i].hi = writes[i].hi
    BY <1>3, <1>5
  <2>2. \A k \in 1..Len(chunks) : Len(writes) + k \in 1..Len(writes') /\ writes'[Len(writes) + k].hi = chunks[k]
    <3> SUFFICES ASSUME NEW k \in 1..Len(chunks)
                 PROVE  Len(writes) + k \in 1..Len(writes') /\ writes'[Len(writes) + k].hi = chunks[k]
      OBVIOUS
    <3>1. writes'[Len(writes) + k] = g[k]
      BY <1>5
    <3>2. g[k].hi = chunks[k]
      BY <1>4
    <3>3. Len(writes) + k \in 1..Len(writes')
      BY <1>3, <1>5
    <3> QED BY <3>1, <3>2, <3>3
  <2>3. Ends(writes) \cup ToSet(chunks) \subseteq Ends(writes')
    BY <2>1, <2>2, <1>7 DEF Ends
  <2>4. Ends(writes') \subseteq Ends(writes) \cup ToSet(chunks)
    <3>1. \A i \in 1..Len(writes') : writes'[i].hi \in Ends(writes) \cup ToSet(chunks)
      BY <1>6, <1>7 DEF Ends
    <3> QED BY <3>1 DEF Ends
  <2> QED BY <2>3, <2>4
<1>9. Shown' = Shown /\ Seen' = Seen /\ Known' = Known
  <2>1. Shown' = Shown
    BY <1>2 DEF Shown
  <2>2. Seen' = Seen
    BY <2>1, <1>2, <1>7, <1>8 DEF Seen
  <2> QED BY <2>1, <2>2, <1>2 DEF Known
<1>10. TypeOK'
  <2>1. chunks' \in Seq(1..head)
    BY <1>2, EmptySeq
  <2> QED BY <2>1, <1>0, <1>2, <1>5 DEF TypeOK
<1>11. Queued'
  <2> SUFFICES ASSUME NEW i \in 1..Len(writes')
               PROVE  /\ writes'[i].hi <= head
                      /\ writes'[i].kind # "baseline" => writes'[i].lo = writes'[i].hi
                      /\ writes'[i].kind = "pending" => recovery = "pending"
                      /\ writes'[i].kind = "baseline" => Baseline(writes, i)'
    BY <1>2 DEF Queued
  <2>1. CASE i \in 1..Len(writes) /\ writes'[i] = writes[i]
    <3>1. ASSUME Baseline(writes, i) PROVE Baseline(writes, i)'
      <4>1. /\ recovery = "baseline" /\ ~live /\ Upto(Seen, writes[i].hi)
            /\ 1..(writes[i].lo - 1) \subseteq Shown
            /\ \A j \in 1..Len(writes) : writes[j].kind = "baseline" => i = j
        BY <3>1 DEF Baseline
      <4>2. \A j \in 1..Len(writes') : writes'[j].kind = "baseline" => i = j
        BY <4>1, <1>6
      <4> QED BY <4>1, <4>2, <2>1, <1>2, <1>9 DEF Baseline
    <3> QED BY <2>1, <3>1, <1>0 DEF Queued
  <2>2. CASE \E k \in 1..Len(chunks) : /\ i = Len(writes) + k /\ writes'[i].lo = chunks[k]
                                       /\ writes'[i].hi = chunks[k] /\ writes'[i].kind = "live"
    BY <2>2, <1>3
  <2> QED BY <2>1, <2>2, <1>6
<1>12. Continued'
  <2>0. recovery = "baseline" => ~live
    BY <1>0 DEF Continued
  <2> SUFFICES ASSUME recovery # "baseline"
               PROVE  /\ 1..rendered \subseteq Shown
                      /\ \A i \in 1..Len(writes') : 1..writes'[i].hi \subseteq Shown \cup Upcoming(writes', i)
                      /\ live /\ pending = <<>> => 1..replayed \subseteq Shown \cup Ends(writes')
                      /\ live => \A i \in 1..Len(pending) : pending[i] > replayed + 1
    BY <2>0, <1>2, <1>7, <1>9 DEF Continued
  <2>1. /\ 1..rendered \subseteq Shown
        /\ \A i \in 1..Len(writes) : 1..writes[i].hi \subseteq Shown \cup Upcoming(writes, i)
        /\ \A i \in 1..Len(chunks) :
             1..chunks[i] \subseteq Shown \cup Ends(writes) \cup {chunks[j] : j \in 1..i}
        /\ live /\ pending = <<>> => 1..replayed \subseteq Shown \cup Ends(writes) \cup ToSet(chunks)
        /\ live => \A i \in 1..Len(pending) : pending[i] > replayed + 1
    BY <1>0 DEF Continued
  <2>2. ASSUME NEW i \in 1..Len(writes') PROVE 1..writes'[i].hi \subseteq Shown \cup Upcoming(writes', i)
    <3>1. CASE i \in 1..Len(writes) /\ writes'[i] = writes[i]
      <4>1. \A j \in 1..i : writes'[j] = writes[j]
        <5>1. \A j \in 1..i : j \in 1..Len(writes)
          BY <3>1, <1>3
        <5> QED BY <5>1, <1>5
      <4>2. Upcoming(writes', i) = Upcoming(writes, i)
        BY <4>1 DEF Upcoming
      <4> QED BY <4>2, <3>1, <2>1
    <3>2. CASE \E k \in 1..Len(chunks) : /\ i = Len(writes) + k /\ writes'[i].lo = chunks[k]
                                         /\ writes'[i].hi = chunks[k] /\ writes'[i].kind = "live"
      <4>1. PICK k \in 1..Len(chunks) : i = Len(writes) + k /\ writes'[i].hi = chunks[k]
        BY <3>2
      <4>2. 1..chunks[k] \subseteq Shown \cup Ends(writes) \cup {chunks[j] : j \in 1..k}
        BY <2>1
      <4>3. Ends(writes) \subseteq Upcoming(writes', i)
        <5>1. \A j \in 1..Len(writes) : j \in 1..i /\ writes'[j].hi = writes[j].hi
          BY <4>1, <1>3, <1>5
        <5> QED BY <5>1 DEF Ends, Upcoming
      <4>4. {chunks[j] : j \in 1..k} \subseteq Upcoming(writes', i)
        <5>1. \A j \in 1..k : Len(writes) + j \in 1..i /\ writes'[Len(writes) + j].hi = chunks[j]
          <6> SUFFICES ASSUME NEW j \in 1..k
                       PROVE  Len(writes) + j \in 1..i /\ writes'[Len(writes) + j].hi = chunks[j]
            OBVIOUS
          <6>1. j \in 1..Len(chunks) /\ Len(writes) + j \in 1..i
            BY <4>1, <1>3
          <6>2. writes'[Len(writes) + j] = g[j]
            BY <6>1, <1>5
          <6>3. g[j].hi = chunks[j]
            BY <6>1, <1>4
          <6> QED BY <6>1, <6>2, <6>3
        <5> QED BY <5>1 DEF Upcoming
      <4> QED BY <4>1, <4>2, <4>3, <4>4
    <3> QED BY <3>1, <3>2, <1>6
  <2> QED BY <2>1, <2>2, <1>8
<1>13. Positions' /\ Claims'
  BY <1>0, <1>2 DEF Positions, At, Claims, Opening, Subscribes
<1>14. Accounted'
  <2> SUFFICES ASSUME NEW n \in 1..head PROVE Resting(n)' \/ Later(n)' \/ Fetched(n)'
    BY <1>2, AccountedParts DEF Accounted, Resting, Later
  <2>1. CASE Resting(n)
    <3>1. CASE n \in painted \cup skipped
      BY <3>1, <1>2 DEF Resting
    <3>2. ASSUME NEW k \in 1..Len(chunks), n = chunks[k] PROVE Resting(n)'
      <4>1. Len(writes) + k \in 1..Len(writes')
        BY <1>3, <1>5
      <4>2. writes'[Len(writes) + k].lo = n /\ writes'[Len(writes) + k].hi = n
        BY <3>2, <1>4, <1>5
      <4> QED BY <4>1, <4>2 DEF Resting
    <3>3. ASSUME NEW i \in 1..Len(writes), n \in writes[i].lo..writes[i].hi PROVE Resting(n)'
      <4>1. i \in 1..Len(writes') /\ writes'[i] = writes[i]
        BY <1>3, <1>5
      <4> QED BY <3>3, <4>1 DEF Resting
    <3> QED BY <2>1, <3>1, <3>2, <3>3, <1>7 DEF Resting
  <2>2. CASE Later(n)
    BY <2>2, <1>2 DEF Later, LaterFrames, OnItsWay
  <2>3. CASE Fetched(n)
    BY <2>3, <1>2 DEF Fetched, OnItsWay
  <2> QED BY <2>1, <2>2, <2>3, <1>0, AccountedParts
<1> QED BY <1>0, <1>2, <1>9, <1>10, <1>11, <1>12, <1>13, <1>14 DEF IInv

LEMMA DisconnectSteps ==
  ASSUME IInv, Disconnect
  PROVE  IInv'
<1>0. /\ TypeOK /\ Claims /\ Queued /\ Continued /\ Positions /\ InOrder(pending, bucket, down)
  BY DEF IInv
<1>1. /\ connected' = FALSE /\ subscribed' = FALSE /\ lease' = FALSE
      /\ up' = <<>> /\ down' = <<>> /\ bucket' = <<>> /\ reconcileDue' = TRUE
      /\ reclaimDue' = (reclaimDue \/ activation = "active") /\ activation' = "idle"
      /\ UNCHANGED <<head, live, replayed, rendered, anchor, pending, chunks, writes, ui, mounted>>
      /\ UNCHANGED <<painted, skipped>>
  BY DEF Disconnect, host, screen
<1>2. IF recovery \in {"decision", "data"} THEN recovery' = "off" /\ queued' = "none"
      ELSE recovery' = recovery /\ queued' = queued
  BY DEF Disconnect
<1>3. Len(up') = 0 /\ Len(down') = 0 /\ Len(bucket') = 0 /\ head \in Nat
  BY <1>0, <1>1, Sorts, EmptySeq
<1>4. TypeOK'
  <2>1. up' \in Seq(Message) /\ down' \in Seq(Message) /\ bucket' \in Seq(1..head)
    BY <1>1, EmptySeq
  <2>2. /\ recovery' \in RecoveryPCs /\ queued' \in Reasons \cup {"none"}
        /\ {connected', subscribed', lease', reconcileDue', reclaimDue'} \subseteq BOOLEAN
    BY <1>0, <1>1, <1>2 DEF TypeOK, RecoveryPCs
  <2>3. 0 <= BucketCap
    BY StreamAssumption
  <2> QED BY <2>1, <2>2, <2>3, <1>0, <1>1, <1>3 DEF TypeOK
<1>5. NoToken(up', down')
  BY <1>3 DEF NoToken
<1>6. /\ Bounded(up', down', head) /\ Tokens(up', down', recovery') /\ Fresh(down', Known')
      /\ Asked(up', down', At')
  BY <1>3, <1>5, TokensNone, FreshNone, AskedNone DEF Bounded
<1>7. InOrder(pending', bucket', down')
  BY <1>0, <1>1, <1>3 DEF InOrder
<1>8. Queued' /\ Continued'
  <2>1. recovery' = recovery \/ {recovery, recovery'} \subseteq Calm
    BY <1>2 DEF Calm
  <2> QED BY <2>1, <1>0, <1>1, ScreenStays
<1>9. Positions'
  <2>1. recovery' # "data"
    BY <1>2
  <2> QED BY <2>1, <1>0, <1>1, <1>6 DEF Positions
<1>10. Claims'
  <2>1. reclaimDue'
    BY <1>0, <1>1 DEF Claims
  <2>2. ~connected' /\ activation' # "active"
    BY <1>1
  <2> QED BY <2>1, <2>2, <1>3 DEF Claims
<1>11. Accounted'
  BY <1>1, <1>3, AccountedAnew
<1> QED BY <1>1, <1>4, <1>6, <1>7, <1>8, <1>9, <1>10, <1>11 DEF IInv

LEMMA ReconnectSteps ==
  ASSUME IInv, Reconnect
  PROVE  IInv'
<1>0. /\ TypeOK /\ Bounded(up, down, head) /\ Claims /\ Queued /\ Continued /\ Positions
      /\ InOrder(pending, bucket, down) /\ Tokens(up, down, recovery) /\ Fresh(down, Known)
  BY DEF IInv
<1>1. /\ ~connected /\ connected' = TRUE /\ reconcileDue' = FALSE
      /\ UNCHANGED <<head, bucket, subscribed, lease, down, reclaimDue, activation>>
      /\ UNCHANGED <<live, replayed, rendered, anchor, pending, chunks, writes, ui, mounted>>
      /\ UNCHANGED <<painted, skipped>>
  BY DEF Reconnect, server, host, screen
<1>2. /\ Len(up) = 0 /\ Len(down) = 0 /\ activation # "active" /\ reclaimDue
  BY <1>0, <1>1 DEF Claims
<1>3. head \in Nat /\ At \in 0..head /\ down \in Seq(Message) /\ head <= MaxOut
  BY <1>0, Sorts
<1>4. PICK s : s = Msg("subscribe", 0)
  OBVIOUS
<1>5. s \in Message /\ s.kind = "subscribe" /\ s.at = 0
  <2>1. "subscribe" \in ToServer \cup ToBrowser /\ 0 \in Seqs
    BY StreamAssumption DEF ToServer, Seqs
  <2> QED BY <2>1, <1>4, MakesMessage
<1>6. PICK r : r = [Msg("reconcile", At) EXCEPT !.reason = "socket_reconnected"]
  OBVIOUS
<1>7. r \in Message /\ r.kind = "reconcile" /\ r.at = At
  <2>1. At \in Seqs /\ 0 \in Seqs
    BY <1>3, StreamAssumption DEF Seqs
  <2> HIDE DEF At
  <2> QED BY <2>1, <1>6 DEF Msg, Message, ToServer, Reasons
<1>8. \/ recovery = "off" /\ recovery' = "decision" /\ queued' = queued /\ up' = <<r, s>>
      \/ recovery # "off" /\ recovery' = recovery /\ queued' = Merged("socket_reconnected") /\ up' = <<s>>
  BY <1>4, <1>6 DEF Reconnect, At
<1>9. /\ up' \in Seq(Message)
      /\ \A i \in 1..Len(up') : up'[i] = s \/ (up'[i] = r /\ i = 1 /\ recovery' = "decision")
      /\ Subscribes(up')
  <2>1. CASE up' = <<r, s>> /\ recovery' = "decision"
    <3>1. up' \in Seq(Message) /\ Len(up') = 2 /\ up'[1] = r /\ up'[2] = s
      BY <2>1, <1>5, <1>7
    <3>2. 2 \in 1..Len(up') /\ up'[2].kind = "subscribe"
      BY <3>1, <1>5
    <3> QED BY <2>1, <3>1, <3>2 DEF Subscribes
  <2>2. CASE up' = <<s>>
    <3>1. up' \in Seq(Message) /\ Len(up') = 1 /\ up'[1] = s
      BY <2>2, <1>5
    <3>2. 1 \in 1..Len(up') /\ up'[1].kind = "subscribe"
      BY <3>1, <1>5
    <3> QED BY <3>1, <3>2 DEF Subscribes
  <2> QED BY <2>1, <2>2, <1>8
<1>10. TypeOK'
  <2>1. queued' \in Reasons \cup {"none"} /\ recovery' \in RecoveryPCs
    BY <1>0, <1>8 DEF TypeOK, RecoveryPCs, Merged, Reasons
  <2> QED BY <2>1, <1>0, <1>1, <1>9 DEF TypeOK
<1>11. Bounded(up', down', head)
  <2>1. s.kind \in ToServer /\ r.kind \in ToServer /\ s.at <= head /\ r.at <= head
    BY <1>3, <1>5, <1>7 DEF ToServer
  <2> QED BY <2>1, <1>1, <1>2, <1>9 DEF Bounded
<1>12. Tokens(up', down', recovery')
  <2>1. \A i \in 1..Len(up') : up'[i].kind \in Commands => i = 1 /\ up'[i].kind = "reconcile" /\ recovery' = "decision"
    BY <1>5, <1>7, <1>9 DEF Commands
  <2> QED BY <2>1, <1>1, <1>2, <1>5, <1>7, <1>9 DEF Tokens, Commands
<1>13. Asked(up', down', At') /\ At' = At
  <2>1. At' = At
    BY <1>1 DEF At
  <2>2. \A i \in 1..Len(up') : up'[i].kind \in {"reconcile", "replay"} => up'[i].at <= At
    BY <1>3, <1>5, <1>7, <1>9
  <2> QED BY <2>1, <2>2, <1>1, <1>2 DEF Asked
<1>14. Queued' /\ Continued' /\ Known' = Known
  <2>1. recovery' = recovery \/ {recovery, recovery'} \subseteq Calm
    BY <1>8 DEF Calm
  <2> QED BY <2>1, <1>0, <1>1, ScreenStays
<1>15. Positions'
  <2>1. recovery' = "data" => recovery = "data"
    BY <1>8
  <2> QED BY <2>1, <1>0, <1>1, <1>13 DEF Positions
<1>16. Claims'
  <2>1. \A i \in 1..Len(up') : up'[i].kind # "claim"
    BY <1>5, <1>7, <1>9
  <2> QED BY <2>1, <1>0, <1>1, <1>2, <1>9 DEF Claims
<1>17. Accounted'
  BY <1>1, <1>2, <1>3, AccountedAnew
<1> QED BY <1>0, <1>1, <1>9, <1>10, <1>11, <1>12, <1>13, <1>14, <1>15, <1>16, <1>17 DEF IInv

LEMMA ClaimSteps ==
  ASSUME IInv, Claim
  PROVE  IInv'
<1>0. /\ TypeOK /\ Bounded(up, down, head) /\ Claims /\ Queued /\ Continued /\ Positions
      /\ InOrder(pending, bucket, down) /\ Tokens(up, down, recovery) /\ Fresh(down, Known)
  BY DEF IInv
<1>1. /\ connected /\ activation = "idle" /\ activation' = "claiming"
      /\ UNCHANGED <<head, bucket, subscribed, lease, connected, down, recovery, queued>>
      /\ UNCHANGED <<reconcileDue, reclaimDue>>
      /\ UNCHANGED <<live, replayed, rendered, anchor, pending, chunks, writes, ui, mounted>>
      /\ UNCHANGED <<painted, skipped>>
  BY DEF Claim, server, host, screen
<1>2. up \in Seq(Message) /\ down \in Seq(Message) /\ head \in Nat /\ Len(up) \in Nat
  BY <1>0, Sorts
<1>3. PICK m \in Message : m.kind = "claim" /\ m.at = 0 /\ up' = Append(up, m)
  <2>1. "claim" \in ToServer \cup ToBrowser /\ 0 \in Seqs
    BY StreamAssumption DEF ToServer, Seqs
  <2> QED BY <2>1, MakesMessage DEF Claim
<1>4. /\ up' \in Seq(Message) /\ Len(up') = Len(up) + 1
      /\ \A i \in 1..Len(up) : up'[i] = up[i]
      /\ up'[Len(up) + 1] = m
  BY <1>2, <1>3, Added
<1>5. Bounded(up', down', head) /\ Tokens(up', down', recovery') /\ Asked(up', down', At')
  <2>1. Bounded(Append(up, m), down, head)
    <3>1. m.kind \in ToServer /\ m.at <= head
      BY <1>2, <1>3 DEF ToServer
    <3> QED BY <3>1, <1>0, <1>2, BoundedAsked
  <2>2. Tokens(Append(up, m), down, recovery)
    <3>1. m.kind \notin Commands
      BY <1>3 DEF Commands
    <3> QED BY <3>1, <1>0, <1>2, TokensOther
  <2>3. Asked(Append(up, m), down, At)
    <3>1. m.kind \notin {"reconcile", "replay"} /\ Asked(up, down, At)
      BY <1>0, <1>3 DEF Positions
    <3> QED BY <3>1, <1>2, AskedMore
  <2>4. At' = At
    BY <1>1 DEF At
  <2> QED BY <2>1, <2>2, <2>3, <2>4, <1>1, <1>3
<1>6. TypeOK'
  BY <1>0, <1>1, <1>4 DEF TypeOK
<1>7. Queued' /\ Continued' /\ Known' = Known
  BY <1>0, <1>1, ScreenStays
<1>8. Positions'
  BY <1>0, <1>1, <1>5 DEF Positions
<1>9. Claims' /\ reclaimDue'
  <2>1. reclaimDue' /\ (subscribed \/ Subscribes(up))
    BY <1>0, <1>1 DEF Claims
  <2>2. Subscribes(up) => \E j \in 1..Len(up) : up'[j].kind = "subscribe"
    BY <1>4 DEF Subscribes
  <2>3. \A i \in 1..Len(up') :
          up'[i].kind = "claim" => subscribed \/ \E j \in 1..(i - 1) : up'[j].kind = "subscribe"
    <3> SUFFICES ASSUME NEW i \in 1..Len(up'), up'[i].kind = "claim", ~subscribed
                 PROVE  \E j \in 1..(i - 1) : up'[j].kind = "subscribe"
      OBVIOUS
    <3>1. CASE i \in 1..Len(up)
      <4>1. PICK j \in 1..(i - 1) : up[j].kind = "subscribe"
        BY <3>1, <1>0, <1>4 DEF Claims
      <4>2. j \in 1..Len(up)
        BY <3>1, <4>1, <1>2
      <4> QED BY <4>1, <4>2, <1>4
    <3>2. CASE i = Len(up) + 1
      <4>1. i - 1 = Len(up)
        BY <3>2, <1>2
      <4> QED BY <4>1, <2>1, <2>2
    <3> QED BY <3>1, <3>2, <1>2, <1>4
  <2>4. Subscribes(up) => Subscribes(up')
    <3>1. 1..Len(up) \subseteq 1..Len(up')
      BY <1>2, <1>4
    <3> QED BY <3>1, <2>2 DEF Subscribes
  <2> QED BY <2>1, <2>3, <2>4, <1>0, <1>1 DEF Claims
<1>10. Accounted'
  BY <1>1, <1>2, <1>9, AccountedAnew
<1> QED BY <1>0, <1>1, <1>4, <1>5, <1>6, <1>7, <1>8, <1>9, <1>10 DEF IInv

LEMMA InitIInv == Init => IInv
<1> SUFFICES ASSUME Init PROVE IInv
  OBVIOUS
<1>1. PICK s : s = Msg("subscribe", 0)
  OBVIOUS
<1>2. s \in Message /\ s.kind = "subscribe" /\ s.at = 0
  <2>1. "subscribe" \in ToServer \cup ToBrowser /\ 0 \in Seqs
    BY StreamAssumption DEF ToServer, Seqs
  <2> QED BY <2>1, <1>1, MakesMessage
<1>3. up = <<s>> /\ up \in Seq(Message) /\ Len(up) = 1 /\ up[1] = s
  BY <1>1, <1>2 DEF Init
<1>4. /\ Len(down) = 0 /\ Len(bucket) = 0 /\ Len(pending) = 0 /\ Len(chunks) = 0 /\ Len(writes) = 0
      /\ head \in Nat /\ head \in Seqs
  BY EmptySeq DEF Init
<1>5. TypeOK
  <2>1. /\ bucket \in Seq(1..head) /\ pending \in Seq(1..head) /\ chunks \in Seq(1..head)
        /\ writes \in Seq(Write) /\ down \in Seq(Message)
    BY EmptySeq DEF Init
  <2>2. 0 <= BucketCap
    BY StreamAssumption
  <2>3. {connected, subscribed, lease, live, mounted, reconcileDue, reclaimDue} \subseteq BOOLEAN
    BY DEF Init
  <2>4. /\ recovery \in RecoveryPCs /\ queued \in Reasons \cup {"none"}
        /\ activation \in {"idle", "claiming", "active"} /\ ui \in {"loading", "ready"}
    BY DEF Init, RecoveryPCs
  <2>5. /\ {replayed, rendered} \subseteq 0..head /\ anchor \in {None} \cup 0..head
        /\ {painted, skipped} \subseteq SUBSET (1..head)
    BY <1>4 DEF Init
  <2> QED BY <2>1, <2>2, <2>3, <2>4, <2>5, <1>3, <1>4 DEF TypeOK
<1>6. Bounded(up, down, head) /\ InOrder(pending, bucket, down)
  <2>1. s.kind \in ToServer /\ s.at <= head
    BY <1>2, <1>4 DEF ToServer
  <2>2. \A i \in 1..Len(up) : up[i] = s
    BY <1>3
  <2> QED BY <2>1, <2>2, <1>4 DEF Bounded, InOrder
<1>7. NoToken(up, down)
  BY <1>2, <1>3, <1>4 DEF NoToken, Commands
<1>8. Tokens(up, down, recovery) /\ Fresh(down, Known) /\ Asked(up, down, At)
  BY <1>7, TokensNone, FreshNone, AskedNone
<1>9. Queued /\ Positions /\ Continued
  BY <1>4, <1>8 DEF Init, Queued, Positions, Continued, None
<1>10. Claims
  <2>1. 1 \in 1..Len(up) /\ up[1].kind = "subscribe"
    BY <1>2, <1>3
  <2>2. \A i \in 1..Len(up) : up[i].kind # "claim"
    BY <1>2, <1>3
  <2> QED BY <2>1, <2>2, <1>4 DEF Init, Claims, Opening, Subscribes
<1>11. Accounted
  BY DEF Init, Accounted, Fetched
<1> QED BY <1>5, <1>6, <1>8, <1>9, <1>10, <1>11 DEF IInv

----------------------------------------------------------------------------
(* The server handles a message                                            *)

\* An answer is as new as the terminal, replays from where it was asked to, and makes the
\* browser fetch what the command would have.
LEMMA Answering ==
  ASSUME IInv, up # <<>>, NEW m \in Message, m = up[1], m.kind \in Commands
  PROVE  \E a \in Message :
           /\ a = Answer(m) /\ a.kind \in Replies /\ a.at <= head
           /\ a.kind \in Answers => a.at = head
           /\ a.kind \in {"noop", "useReplay"} => a.at <= At
           /\ a.kind = "replayed" => a.from <= At
           /\ a.kind \in Decisions => recovery = "decision"
           /\ a.kind \in Deliveries => recovery = "data"
           /\ lease => \A n \in 1..head : FetchedBy(m, n) => FetchedBy(a, n)
<1>0. TypeOK /\ Bounded(up, down, head) /\ Positions /\ Tokens(up, down, recovery)
  BY DEF IInv
<1>1. head \in Nat /\ head \in Seqs /\ 0 \in Seqs /\ At \in 0..head /\ up \in Seq(Message)
  BY <1>0, Sorts, StreamAssumption DEF Seqs
<1>2. 1 \in 1..Len(up)
  <2>1. Len(up) \in Nat \ {0}
    BY <1>1, Taken
  <2> QED BY <2>1
<1>3. /\ m.at \in Nat /\ m.at <= head /\ m.at \in Seqs
      /\ m.kind \in {"reconcile", "replay"} => m.at <= At
      /\ m.kind = "reconcile" => recovery = "decision"
      /\ m.kind \in {"replay", "snapshot"} => recovery = "data"
  BY <1>0, <1>2, Messages DEF Bounded, Positions, Asked, Tokens
<1>4. ASSUME NEW kind \in Replies, NEW at \in Seqs
      PROVE  /\ Msg(kind, at) \in Message /\ Msg(kind, at).kind = kind /\ Msg(kind, at).at = at
             /\ Msg(kind, at).from = 0
  <2>1. kind \in ToServer \cup ToBrowser
    BY DEF Replies, Decisions, Deliveries, ToBrowser
  <2> QED BY <2>1, MakesMessage
<1> USE DEF Replies, Decisions, Deliveries, Answers, Commands
<1>5. CASE ~lease
  <2>1. Answer(m) = Msg("activation_required", 0)
    BY <1>5 DEF Answer
  <2>2. PICK a \in Message : a = Msg("activation_required", 0) /\ a.kind = "activation_required" /\ a.at = 0
    BY <1>1, <1>4
  <2> QED BY <2>1, <2>2, <1>1, <1>5
<1>6. CASE lease /\ m.kind = "reconcile"
  <2>1. Answer(m) = Decision(m)
    BY <1>6 DEF Answer
  <2>2. CASE m.at = head
    <3>1. PICK a \in Message : a = Msg("noop", head) /\ a.kind = "noop" /\ a.at = head
      BY <1>1, <1>4
    <3>2. Answer(m) = a
      BY <3>1, <2>1, <2>2 DEF Decision
    <3>3. \A n \in 1..head : ~FetchedBy(m, n)
      BY <1>1, <1>6, <2>2 DEF FetchedBy
    <3> QED BY <3>1, <3>2, <3>3, <2>2, <1>1, <1>3, <1>6
  <2>3. CASE m.at # head /\ m.reason # "initial_mount" /\ Retained(m.at)
    <3>1. PICK a \in Message : a = Msg("useReplay", m.at) /\ a.kind = "useReplay" /\ a.at = m.at
      BY <1>3, <1>4
    <3>2. Answer(m) = a
      BY <3>1, <2>1, <2>3 DEF Decision
    <3>3. \A n \in 1..head : FetchedBy(m, n) => FetchedBy(a, n)
      BY <3>1, <1>6 DEF FetchedBy
    <3> QED BY <3>1, <3>2, <3>3, <1>3, <1>6
  <2>4. CASE m.at # head /\ ~(m.reason # "initial_mount" /\ Retained(m.at))
    <3>1. PICK a \in Message : a = Msg("useSnapshot", head) /\ a.kind = "useSnapshot" /\ a.at = head
      BY <1>1, <1>4
    <3>2. Answer(m) = a
      BY <3>1, <2>1, <2>4 DEF Decision
    <3>3. \A n \in 1..head : FetchedBy(a, n)
      BY <3>1 DEF FetchedBy
    <3> QED BY <3>1, <3>2, <3>3, <1>1, <1>3, <1>6
  <2> QED BY <2>2, <2>3, <2>4
<1>7. CASE lease /\ m.kind = "replay"
  <2>1. Answer(m) = Replay(m.at)
    BY <1>7 DEF Answer
  <2>2. CASE Retained(m.at)
    <3>1. PICK b \in Message : b = Msg("replayed", head) /\ b.kind = "replayed" /\ b.at = head
      BY <1>1, <1>4
    <3>2. PICK a : a = [b EXCEPT !.from = m.at]
      OBVIOUS
    <3>3. a \in Message /\ a.kind = "replayed" /\ a.at = head /\ a.from = m.at
      BY <3>1, <3>2, <1>3 DEF Message
    <3>4. Answer(m) = a
      BY <3>1, <3>2, <2>1, <2>2 DEF Replay
    <3>5. \A n \in 1..head : FetchedBy(m, n) => FetchedBy(a, n)
      BY <3>3, <1>1, <1>3, <1>7 DEF FetchedBy
    <3> QED BY <3>3, <3>4, <3>5, <1>1, <1>3, <1>7
  <2>3. CASE ~Retained(m.at)
    <3>1. PICK a \in Message : a = Msg("too_old", 0) /\ a.kind = "too_old" /\ a.at = 0
      BY <1>1, <1>4
    <3>2. Answer(m) = a
      BY <3>1, <2>1, <2>3 DEF Replay
    <3>3. \A n \in 1..head : FetchedBy(a, n)
      BY <3>1 DEF FetchedBy
    <3> QED BY <3>1, <3>2, <3>3, <1>1, <1>3, <1>7
  <2> QED BY <2>2, <2>3
<1>8. CASE lease /\ m.kind = "snapshot"
  <2>1. Answer(m) = Msg("snapshotted", head)
    BY <1>8 DEF Answer, Snapshot
  <2>2. PICK a \in Message : /\ a = Msg("snapshotted", head) /\ a.kind = "snapshotted" /\ a.at = head
                             /\ a.from = 0
    BY <1>1, <1>4
  <2>3. \A n \in 1..head : FetchedBy(a, n)
    BY <2>2, <1>1 DEF FetchedBy
  <2> QED BY <2>1, <2>2, <2>3, <1>1, <1>3, <1>8
<1> QED BY <1>5, <1>6, <1>7, <1>8

LEMMA ClaimsTaken ==
  ASSUME TypeOK, Claims, up # <<>>, up' = Tail(up), NEW m \in Message, m = up[1],
         UNCHANGED <<bucket, connected, activation, reclaimDue, recovery, mounted>>,
         subscribed' = (subscribed \/ m.kind = "subscribe"), lease' = (lease \/ m.kind = "claim"),
         \/ m.kind = "subscribe" /\ down' = down
         \/ /\ m.kind # "subscribe"
            /\ \E a \in Message : /\ a.kind = "claimed" => m.kind = "claim"
                                  /\ down' = Append(down, a)
  PROVE  Claims'
<1>1. up \in Seq(Message) /\ down \in Seq(Message) /\ Len(down) \in Nat
  BY Sorts
<1>2. /\ Len(up) \in Nat \ {0} /\ Len(up') = Len(up) - 1
      /\ \A i \in 1..Len(up') : i + 1 \in 1..Len(up) /\ up'[i] = up[i + 1]
      /\ \A i \in 2..Len(up) : i - 1 \in 1..Len(up') /\ up'[i - 1] = up[i]
  BY <1>1, Taken
<1>3. connected /\ 1 \in 1..Len(up)
  BY <1>2 DEF Claims
<1>4. CASE m.kind = "subscribe"
  <2>1. subscribed' /\ down' = down /\ (lease => lease')
    BY <1>4
  <2> QED BY <2>1, <1>3 DEF Claims
<1>5. CASE m.kind # "subscribe"
  <2>1. PICK a \in Message : (a.kind = "claimed" => m.kind = "claim") /\ down' = Append(down, a)
    BY <1>5
  <2>2. \A i \in 1..Len(down') : (i \in 1..Len(down) /\ down'[i] = down[i]) \/ down'[i] = a
    <3>1. /\ Len(down') = Len(down) + 1 /\ down'[Len(down) + 1] = a
          /\ \A i \in 1..Len(down) : down'[i] = down[i]
      BY <2>1, <1>1, Added
    <3> QED BY <3>1, <1>1
  <2>3. (subscribed' <=> subscribed) /\ (lease => lease')
    BY <1>5
  <2>4. m.kind = "claim" => lease' /\ subscribed
    <3>1. m.kind = "claim" => lease'
      OBVIOUS
    <3>2. \A j \in 1..(1 - 1) : FALSE
      OBVIOUS
    <3>3. m.kind = "claim" => subscribed \/ \E j \in 1..(1 - 1) : up[j].kind = "subscribe"
      BY <1>3 DEF Claims
    <3> QED BY <3>1, <3>2, <3>3
  <2>5. \A i \in 1..Len(down') : down'[i].kind = "claimed" => lease' /\ subscribed'
    BY <2>1, <2>2, <2>3, <2>4 DEF Claims
  <2>6. \A i \in 1..Len(up') :
          up'[i].kind = "claim" => subscribed' \/ \E j \in 1..(i - 1) : up'[j].kind = "subscribe"
    <3> SUFFICES ASSUME NEW i \in 1..Len(up'), up'[i].kind = "claim", ~subscribed
                 PROVE  \E j \in 1..(i - 1) : up'[j].kind = "subscribe"
      BY <2>3
    <3>1. PICK j \in 1..i : up[j].kind = "subscribe"
      <4>1. i + 1 \in 1..Len(up) /\ up[i + 1].kind = "claim" /\ (i + 1) - 1 = i
        BY <1>2
      <4> QED BY <4>1 DEF Claims
    <3>2. j \in 2..Len(up) /\ j - 1 \in 1..(i - 1)
      BY <3>1, <1>2, <1>5
    <3> QED BY <3>1, <3>2, <1>2
  <2>7. ~subscribed => Subscribes(up')
    <3> SUFFICES ASSUME ~subscribed PROVE Subscribes(up')
      OBVIOUS
    <3>1. PICK j \in 1..Len(up) : up[j].kind = "subscribe"
      BY <1>3 DEF Claims, Subscribes
    <3>2. j \in 2..Len(up)
      BY <3>1, <1>2, <1>5
    <3> QED BY <3>1, <3>2, <1>2 DEF Subscribes
  <2>8. ~subscribed => activation # "active"
    BY <1>3, <1>5 DEF Claims, Opening
  <2> QED BY <2>3, <2>5, <2>6, <2>7, <2>8, <1>3 DEF Claims
<1> QED BY <1>4, <1>5

LEMMA ServerReceivesSteps ==
  ASSUME IInv, ServerReceives
  PROVE  IInv'
<1>0. /\ TypeOK /\ Bounded(up, down, head) /\ Claims /\ Queued /\ Continued /\ Positions
      /\ InOrder(pending, bucket, down) /\ Tokens(up, down, recovery) /\ Fresh(down, Known)
      /\ Accounted
  BY DEF IInv
<1>1. up # <<>> /\ up' = Tail(up) /\ up \in Seq(Message) /\ down \in Seq(Message) /\ head \in Nat
      /\ Len(down) \in Nat /\ \A i \in 1..Len(down) : down[i] \in Message
  BY <1>0, Sorts DEF ServerReceives
<1>2. PICK m \in Message : m = up[1] /\ m = Head(up)
  BY <1>1, Taken
<1>3. /\ subscribed' = (subscribed \/ m.kind = "subscribe")
      /\ lease' = (lease \/ m.kind = "claim")
      /\ down' = CASE m.kind = "subscribe" -> down
                   [] m.kind = "claim"     -> Append(down, Msg("claimed", 0))
                   [] OTHER                -> Append(down, Answer(m))
      /\ UNCHANGED <<head, bucket, connected, recovery, queued, reconcileDue, reclaimDue, activation>>
      /\ UNCHANGED <<live, replayed, rendered, anchor, pending, chunks, writes, ui, mounted>>
      /\ UNCHANGED <<painted, skipped>>
  BY <1>2 DEF ServerReceives, coordinator, host, screen
<1>4. /\ up' \in Seq(Message) /\ ToSet(up) \subseteq ToSet(up') \cup {m} /\ m.kind \in ToServer
      /\ Bounded(up', down, head) /\ Tokens(up', down, recovery) /\ Asked(up', down, At)
  <2>1. Tail(up) \in Seq(Message) /\ ToSet(up) = {up[1]} \cup ToSet(Tail(up)) /\ 1 \in 1..Len(up)
    <3>1. Len(up) \in Nat \ {0}
      BY <1>1, Taken
    <3> QED BY <3>1, <1>1, Taken, SetTaken
  <2>2. Bounded(Tail(up), down, head) /\ Tokens(Tail(up), down, recovery) /\ Asked(Tail(up), down, At)
    BY <1>0, <1>1, BoundedTaken, TokensUnread, AskedTaken DEF Positions
  <2>3. m.kind \in ToServer
    BY <2>1, <1>0, <1>2 DEF Bounded
  <2> QED BY <2>1, <2>2, <2>3, <1>1, <1>2
<1>5. Queued' /\ Continued' /\ Known' = Known
  BY <1>0, <1>3, ScreenStays
<1>6. subscribed' \in BOOLEAN /\ lease' \in BOOLEAN
  BY <1>3
<1>7. At' = At
  BY <1>3 DEF At
<1>8. CASE m.kind = "subscribe"
  <2>1. down' = down
    BY <1>3, <1>8
  <2>2. TypeOK'
    BY <2>1, <1>0, <1>3, <1>4, <1>6 DEF TypeOK
  <2>3. Claims'
    BY <2>1, <1>0, <1>1, <1>2, <1>3, <1>8, ClaimsTaken
  <2>4. Positions'
    BY <2>1, <1>0, <1>3, <1>4, <1>7 DEF Positions
  <2>5. Accounted'
    <3> SUFFICES ASSUME NEW n \in 1..head PROVE Resting(n)' \/ Later(n)' \/ Fetched(n)'
      BY <1>3, AccountedParts DEF Accounted, Resting, Later
    <3>1. ToSet(up) \subseteq ToSet(up') \cup {m} /\ ToSet(down) \subseteq ToSet(down') \cup {m}
      BY <2>1, <1>4
    <3>2. Resting(n) => Resting(n)'
      BY <1>3 DEF Resting
    <3>3. Later(n) => Later(n)'
      <4>1. ToSet(bucket) \subseteq ToSet(bucket') /\ ToSet(pending) \subseteq ToSet(pending') /\ m.kind # "output"
        BY <1>3, <1>8
      <4> QED BY <3>1, <4>1, LaterStays
    <3>4. Fetched(n) => Fetched(n)' \/ FetchedBy(m, n)
      BY <3>1, <1>3, FetchedStays
    <3>5. ~FetchedBy(m, n)
      BY <1>8 DEF FetchedBy
    <3> QED BY <3>2, <3>3, <3>4, <3>5, <1>0, AccountedParts
  <2>6. /\ Bounded(up', down', head') /\ Tokens(up', down', recovery') /\ Fresh(down', Known')
        /\ InOrder(pending', bucket', down')
    BY <2>1, <1>0, <1>3, <1>4, <1>5
  <2> QED BY <2>2, <2>3, <2>4, <2>5, <2>6, <1>5 DEF IInv
<1>9. CASE m.kind # "subscribe"
  <2>1. \E a \in Message :
          /\ down' = Append(down, a) /\ a.kind \in ToBrowser /\ a.kind # "output" /\ a.at <= head
          /\ a.kind = "claimed" => m.kind = "claim"
          /\ a.kind \in Answers => a.at = head
          /\ a.kind \in {"noop", "useReplay"} => a.at <= At
          /\ a.kind = "replayed" => a.from <= At
          /\ Tokens(up', Append(down, a), recovery)
          /\ ~reclaimDue => \A n \in 1..head : FetchedBy(m, n) => FetchedBy(a, n)
    <3>1. CASE m.kind = "claim"
      <4>1. "claimed" \in ToServer \cup ToBrowser /\ 0 \in Seqs
        BY StreamAssumption DEF ToBrowser, Seqs
      <4>2. PICK a \in Message : a = Msg("claimed", 0) /\ a.kind = "claimed" /\ a.at = 0
        BY <4>1, MakesMessage
      <4>3. down' = Append(down, a)
        BY <4>2, <3>1, <1>3
      <4>4. a.kind \notin Replies
        BY <4>2 DEF Replies, Decisions, Deliveries
      <4>5. Tokens(up', Append(down, a), recovery)
        BY <4>4, <1>1, <1>4, TokensSent
      <4>6. a.kind \in ToBrowser /\ a.kind \notin Answers
        BY <4>2 DEF ToBrowser, Answers
      <4>7. \A n \in 1..head : ~FetchedBy(m, n)
        BY <3>1 DEF FetchedBy
      <4> QED BY <4>2, <4>3, <4>5, <4>6, <4>7, <3>1, <1>1
    <3>2. CASE m.kind # "claim"
      <4>1. m.kind \in Commands
        BY <3>2, <1>4, <1>9 DEF ToServer, Commands
      <4>2. PICK a \in Message :
              /\ a = Answer(m) /\ a.kind \in Replies /\ a.at <= head
              /\ a.kind \in Answers => a.at = head
              /\ a.kind \in {"noop", "useReplay"} => a.at <= At
              /\ a.kind = "replayed" => a.from <= At
              /\ a.kind \in Decisions => recovery = "decision"
              /\ a.kind \in Deliveries => recovery = "data"
              /\ lease => \A n \in 1..head : FetchedBy(m, n) => FetchedBy(a, n)
        BY <4>1, <1>1, <1>2, Answering
      <4>3. down' = Append(down, a)
        BY <4>2, <3>2, <1>3, <1>9
      <4>4. Tokens(up', Append(down, a), recovery)
        <5>1. up[1].kind \in Commands
          BY <4>1, <1>2
        <5>2. Tokens(Tail(up), Append(down, a), recovery)
          BY <5>1, <4>2, <1>0, <1>1, TokensAnswered
        <5> QED BY <5>2, <1>1
      <4>5. a.kind \in ToBrowser /\ a.kind # "output" /\ a.kind # "claimed"
        BY <4>2 DEF Replies, Decisions, Deliveries, ToBrowser
      <4>6. ~reclaimDue => lease
        BY <1>0 DEF Claims
      <4> QED BY <4>2, <4>3, <4>4, <4>5, <4>6
    <3> QED BY <3>1, <3>2
  <2>2. PICK a \in Message :
          /\ down' = Append(down, a) /\ a.kind \in ToBrowser /\ a.kind # "output" /\ a.at <= head
          /\ a.kind = "claimed" => m.kind = "claim"
          /\ a.kind \in Answers => a.at = head
          /\ a.kind \in {"noop", "useReplay"} => a.at <= At
          /\ a.kind = "replayed" => a.from <= At
          /\ Tokens(up', Append(down, a), recovery)
          /\ ~reclaimDue => \A n \in 1..head : FetchedBy(m, n) => FetchedBy(a, n)
    BY <2>1
  <2>3. down' \in Seq(Message) /\ ToSet(down') = ToSet(down) \cup {a}
    BY <2>2, <1>1, Added, SetAdded
  <2>4. Bounded(up', down', head) /\ InOrder(pending, bucket, down') /\ Asked(up', down', At)
    BY <2>2, <1>0, <1>1, <1>4, BoundedSent, OrderSent, AskedSent
  <2>5. Fresh(down', Known)
    <3>1. CASE a.kind \in Answers
      <4>1. Upto(Known, a.at)
        BY <3>1, <2>2, <1>0, KnownBelow
      <4>2. \A i \in 1..Len(down) : down[i].at <= a.at
        BY <3>1, <2>2, <1>0 DEF Bounded
      <4> QED BY <4>1, <4>2, <2>2, <1>0, <1>1, FreshSent
    <3>2. CASE a.kind \notin Answers
      BY <3>2, <2>2, <1>0, <1>1, FreshOther
    <3> QED BY <3>1, <3>2
  <2>6. TypeOK'
    BY <2>3, <1>0, <1>3, <1>4, <1>6 DEF TypeOK
  <2>7. Claims'
    BY <2>2, <1>0, <1>1, <1>2, <1>3, <1>9, ClaimsTaken
  <2>8. Positions'
    BY <2>4, <1>0, <1>3, <1>7 DEF Positions
  <2>9. Accounted'
    <3>1. CASE reclaimDue
      BY <3>1, <1>1, <1>3, AccountedAnew
    <3>2. CASE ~reclaimDue
      <4> SUFFICES ASSUME NEW n \in 1..head PROVE Resting(n)' \/ Later(n)' \/ Fetched(n)'
        BY <1>3, AccountedParts DEF Accounted, Resting, Later
      <4>1. /\ ToSet(up) \subseteq ToSet(up') \cup {m} /\ ToSet(down) \subseteq ToSet(down') \cup {m}
            /\ a \in ToSet(up') \cup ToSet(down')
        BY <2>3, <1>4
      <4>2. Resting(n) => Resting(n)'
        BY <1>3 DEF Resting
      <4>3. Later(n) => Later(n)'
        <5>1. /\ ToSet(bucket) \subseteq ToSet(bucket') /\ ToSet(pending) \subseteq ToSet(pending')
              /\ m.kind # "output"
          BY <1>3, <1>4 DEF ToServer
        <5> QED BY <4>1, <5>1, LaterStays
      <4>4. Fetched(n) => Fetched(n)' \/ FetchedBy(m, n)
        BY <4>1, <1>3, FetchedStays
      <4>5. FetchedBy(m, n) => Fetched(n)'
        BY <4>1, <3>2, <2>2, FetchedWhen
      <4> QED BY <4>2, <4>3, <4>4, <4>5, <1>0, AccountedParts
    <3> QED BY <3>1, <3>2
  <2>10. /\ Bounded(up', down', head') /\ Tokens(up', down', recovery') /\ Fresh(down', Known')
         /\ InOrder(pending', bucket', down')
    BY <2>2, <2>4, <2>5, <1>3, <1>5
  <2> QED BY <2>6, <2>7, <2>8, <2>9, <2>10, <1>5 DEF IInv
<1> QED BY <1>8, <1>9

----------------------------------------------------------------------------
(* The terminal writes, and its frames are sent or dropped                 *)

\* The frames F of the terminal are put on the socket as news or into the bucket b.
Streamed(news, b, F) ==
  /\ \A i \in 1..Len(news) : \/ news[i].kind = "output" /\ news[i].at \in F
                             \/ news[i].kind = "continuity_lost" /\ news[i].at = 0
  /\ \A i, j \in 1..Len(news) :
       i < j /\ news[i].kind = "output" /\ news[j].kind = "output" => news[i].at < news[j].at
  /\ \A i, j \in 1..Len(b) : i < j => b[i] < b[j]
  /\ \A i \in 1..Len(news), j \in 1..Len(b) : news[i].kind = "output" => news[i].at < b[j]

\* A frame that is in neither was reported as lost.
Delivered(news, b, F) ==
  \A x \in F : \/ \E i \in 1..Len(b) : b[i] = x
               \/ \E i \in 1..Len(news) : news[i].kind = "output" /\ news[i].at = x
               \/ \E i \in 1..Len(news) : news[i].kind = "continuity_lost"

LEMMA Wider ==
  ASSUME NEW S, NEW T, S \subseteq T, NEW s \in Seq(S)
  PROVE  s \in Seq(T)
<1>1. Len(s) \in Nat /\ s \in [1..Len(s) -> S]
  BY LenProperties
<1>2. s \in [1..Len(s) -> T]
  BY <1>1
<1> QED BY <1>1, <1>2, SeqDef

LEMMA EitherOne ==
  ASSUME NEW S, NEW s \in Seq(S), NEW t \in Seq(S)
  PROVE  /\ Len(s) \in Nat /\ Len(t) \in Nat
         /\ \A i \in 1..Len(s \o t) : i \in Int /\
              \/ i \in 1..Len(s) /\ (s \o t)[i] = s[i]
              \/ i > Len(s) /\ i - Len(s) \in 1..Len(t) /\ (s \o t)[i] = t[i - Len(s)]
  BY Joined

LEMMA BoundedJoined ==
  ASSUME NEW u \in Seq(Message), NEW d \in Seq(Message), NEW e \in Seq(Message), NEW h \in Nat, NEW k \in Nat,
         h <= k, Bounded(u, d, h), NEW b, Streamed(e, b, 1..k)
  PROVE  Bounded(u, d \o e, k)
<1>1. (\A i \in 1..Len(u) : u[i] \in Message) /\ (\A i \in 1..Len(d) : d[i] \in Message)
  BY Elements
<1>2. \A m \in Message : m.at \in Int
  BY Messages
<1>3. \A i \in 1..Len(u) : u[i].kind \in ToServer /\ u[i].at <= k
  BY <1>1, <1>2 DEF Bounded
<1>4. \A i \in 1..Len(d) : /\ d[i].kind \in ToBrowser /\ d[i].at <= k
                           /\ d[i].kind = "output" => d[i].at >= 1
  BY <1>1, <1>2 DEF Bounded
<1>5. \A i \in 1..Len(e) : /\ e[i].kind \in ToBrowser /\ e[i].at <= k
                           /\ e[i].kind = "output" => e[i].at >= 1
  BY DEF Streamed, ToBrowser
<1> DEFINE a == d \o e
<1>6. \A i \in 1..Len(a) : i \in Int /\
        \/ i \in 1..Len(d) /\ a[i] = d[i]
        \/ i > Len(d) /\ i - Len(d) \in 1..Len(e) /\ a[i] = e[i - Len(d)]
  BY EitherOne
<1> HIDE DEF a
<1>7. Bounded(u, a, k)
  BY <1>3, <1>4, <1>5, <1>6 DEF Bounded
<1> QED BY <1>7 DEF a

LEMMA TokensJoined ==
  ASSUME NEW u, NEW d \in Seq(Message), NEW e \in Seq(Message), NEW r, Tokens(u, d, r),
         \A i \in 1..Len(e) : e[i].kind \notin Replies
  PROVE  Tokens(u, d \o e, r)
<1>1. \A i \in 1..Len(d \o e) : (d \o e)[i].kind \in Replies => i \in 1..Len(d) /\ (d \o e)[i] = d[i]
  BY EitherOne
<1> QED BY <1>1 DEF Tokens, Replies, Decisions, Deliveries

LEMMA FreshJoined ==
  ASSUME NEW d \in Seq(Message), NEW e \in Seq(Message), NEW S, Fresh(d, S),
         \A i \in 1..Len(e) : e[i].kind \notin Answers
  PROVE  Fresh(d \o e, S)
<1>1. \A i \in 1..Len(d \o e) : (d \o e)[i].kind \in Answers => i \in 1..Len(d) /\ (d \o e)[i] = d[i]
  BY EitherOne
<1>2. Len(d) \in Nat /\ \A i \in 1..Len(d) : (d \o e)[i] = d[i]
  BY Joined
<1>3. \A i \in 1..Len(d) : \A j \in 1..(i - 1) : j \in 1..Len(d) /\ (d \o e)[j] = d[j]
  BY <1>2
<1> QED BY <1>1, <1>3 DEF Fresh

LEMMA AskedJoined ==
  ASSUME NEW u, NEW d \in Seq(Message), NEW e \in Seq(Message), NEW p, Asked(u, d, p),
         \A i \in 1..Len(e) : e[i].kind \in {"output", "continuity_lost"}
  PROVE  Asked(u, d \o e, p)
<1>1. \A i \in 1..Len(e) : e[i].kind \notin {"noop", "useReplay", "replayed"}
  OBVIOUS
<1>2. \A i \in 1..Len(d \o e) :
        (d \o e)[i].kind \in {"noop", "useReplay", "replayed"} => i \in 1..Len(d) /\ (d \o e)[i] = d[i]
  BY <1>1, EitherOne
<1> QED BY <1>2 DEF Asked

LEMMA ClaimedJoined ==
  ASSUME NEW d \in Seq(Message), NEW e \in Seq(Message),
         \A i \in 1..Len(e) : e[i].kind \in {"output", "continuity_lost"}
  PROVE  \A i \in 1..Len(d \o e) :
           (d \o e)[i].kind = "claimed" => i \in 1..Len(d) /\ (d \o e)[i] = d[i]
<1>1. \A i \in 1..Len(e) : e[i].kind # "claimed"
  OBVIOUS
<1> QED BY <1>1, EitherOne

LEMMA OrderJoined ==
  ASSUME NEW d \in Seq(Message), NEW e \in Seq(Message), NEW p, NEW b, NEW F, NEW c \in Seq(F),
         InOrder(p, b, d), Streamed(e, c, F),
         \A i \in 1..Len(p) : \A x \in F : p[i] < x,
         \A i \in 1..Len(d) : d[i].kind = "output" => \A x \in F : d[i].at < x
  PROVE  InOrder(p, c, d \o e)
<1> DEFINE a == d \o e
<1>1. /\ Len(d) \in Nat /\ Len(e) \in Nat
      /\ \A i \in 1..Len(a) : i \in Int /\
           \/ i \in 1..Len(d) /\ a[i] = d[i]
           \/ i > Len(d) /\ i - Len(d) \in 1..Len(e) /\ a[i] = e[i - Len(d)]
  BY EitherOne
<1>2. \A j \in 1..Len(c) : c[j] \in F
  BY Elements
<1> HIDE DEF a
<1>3. \A j \in 1..Len(e) : e[j].kind = "output" => e[j].at \in F
  BY DEF Streamed
<1>4. \A i, j \in 1..Len(a) : i < j /\ a[i].kind = "output" /\ a[j].kind = "output" => a[i].at < a[j].at
  <2> SUFFICES ASSUME NEW i \in 1..Len(a), NEW j \in 1..Len(a), i < j, a[i].kind = "output", a[j].kind = "output"
               PROVE  a[i].at < a[j].at
    OBVIOUS
  <2>1. CASE j \in 1..Len(d) /\ a[j] = d[j]
    <3>1. i \in 1..Len(d) /\ a[i] = d[i]
      BY <2>1, <1>1
    <3> QED BY <2>1, <3>1 DEF InOrder
  <2>2. CASE j > Len(d) /\ j - Len(d) \in 1..Len(e) /\ a[j] = e[j - Len(d)]
    <3>1. CASE i \in 1..Len(d) /\ a[i] = d[i]
      BY <3>1, <2>2, <1>3
    <3>2. CASE i > Len(d) /\ i - Len(d) \in 1..Len(e) /\ a[i] = e[i - Len(d)]
      <4>1. i - Len(d) < j - Len(d)
        BY <1>1
      <4> QED BY <3>2, <2>2, <4>1 DEF Streamed
    <3> QED BY <3>1, <3>2, <1>1
  <2> QED BY <2>1, <2>2, <1>1
<1>5. \A i \in 1..Len(p), j \in 1..Len(a) : a[j].kind = "output" => p[i] < a[j].at
  BY <1>1, <1>3 DEF InOrder
<1>6. \A i \in 1..Len(a), j \in 1..Len(c) : a[i].kind = "output" => a[i].at < c[j]
  BY <1>1, <1>2 DEF Streamed
<1>7. \A i \in 1..Len(p), j \in 1..Len(c) : p[i] < c[j]
  BY <1>2
<1>8. InOrder(p, c, a)
  BY <1>4, <1>5, <1>6, <1>7 DEF InOrder, Streamed
<1> QED BY <1>8 DEF a

Increasing(s) == \A i, j \in 1..Len(s) : i < j => s[i] < s[j]

\* Of the frames s the first are sent as news, the others wait.
Splits(F, s, news, rest) ==
  /\ news \in Seq(Message) /\ rest \in Seq(F) /\ Len(rest) <= Len(s)
  /\ \A i \in 1..Len(news) : news[i].kind = "output"
  /\ Streamed(news, rest, F)
  /\ \A i \in 1..Len(s) : \/ \E j \in 1..Len(rest) : rest[j] = s[i]
                          \/ \E j \in 1..Len(news) : news[j].kind = "output" /\ news[j].at = s[i]

LEMMA Sending ==
  ASSUME NEW F, F \subseteq Seqs, NEW s \in Seq(F), NEW n \in 0..Len(s), Increasing(s)
  PROVE  Splits(F, s, Frames(SubSeq(s, 1, n)), SubSeq(s, n + 1, Len(s)))
<1> DEFINE news == Frames(SubSeq(s, 1, n))
           rest == SubSeq(s, n + 1, Len(s))
<1>0. \A i, j \in 1..Len(s) : i < j => s[i] < s[j]
  BY DEF Increasing
<1>1. Len(s) \in Nat /\ n \in Nat /\ n <= Len(s) /\ \A i \in 1..Len(s) : s[i] \in F
  BY Elements
<1> DEFINE t == SubSeq(s, 1, n)
<1>2. /\ t \in Seq(F) /\ Len(t) = n
      /\ \A i \in 1..n : i \in 1..Len(s) /\ t[i] = s[i]
  <2>1. 1 \in 1..(Len(s) + 1) /\ n \in (1 - 1)..Len(s)
    BY <1>1
  <2>2. /\ t \in Seq(F) /\ Len(t) = n - 1 + 1
        /\ \A i \in 1..(n - 1 + 1) : i + 1 - 1 \in 1..Len(s) /\ t[i] = s[i + 1 - 1]
    BY <2>1, Cut
  <2> QED BY <2>2, <1>1
<1>3. /\ rest \in Seq(F) /\ Len(rest) = Len(s) - n
      /\ \A i \in 1..Len(rest) : i + n \in 1..Len(s) /\ rest[i] = s[i + n]
  <2>1. n + 1 \in 1..(Len(s) + 1) /\ Len(s) \in ((n + 1) - 1)..Len(s)
    BY <1>1
  <2>2. /\ rest \in Seq(F) /\ Len(rest) = Len(s) - (n + 1) + 1
        /\ \A i \in 1..(Len(s) - (n + 1) + 1) :
             i + (n + 1) - 1 \in 1..Len(s) /\ rest[i] = s[i + (n + 1) - 1]
    BY <2>1, Cut
  <2>3. Len(rest) = Len(s) - n
    BY <2>2, <1>1
  <2>4. ASSUME NEW i \in 1..Len(rest) PROVE i + n \in 1..Len(s) /\ rest[i] = s[i + n]
    <3>1. i \in 1..(Len(s) - (n + 1) + 1) /\ i + (n + 1) - 1 = i + n
      BY <2>3, <1>1
    <3> QED BY <3>1, <2>2
  <2> QED BY <2>2, <2>3, <2>4
<1>4. news = [i \in 1..n |-> Msg("output", t[i])]
  BY <1>2 DEF Frames
<1> HIDE DEF news, rest
<1>5. \A i \in 1..n : news[i] \in Message /\ news[i].kind = "output" /\ news[i].at = s[i]
  <2> SUFFICES ASSUME NEW i \in 1..n
               PROVE  news[i] \in Message /\ news[i].kind = "output" /\ news[i].at = s[i]
    OBVIOUS
  <2>1. news[i] = Msg("output", s[i]) /\ s[i] \in Seqs
    BY <1>4, <1>2, <1>1
  <2>2. "output" \in ToServer \cup ToBrowser
    BY DEF ToBrowser
  <2> QED BY <2>1, <2>2, MakesMessage
<1>6. news \in Seq(Message) /\ Len(news) = n
  <2>1. news \in [1..n -> Message]
    BY <1>4, <1>5
  <2> QED BY <2>1, <1>1, LenProperties, SeqDef
<1>7. \A i \in 1..Len(news) : news[i].kind = "output" /\ news[i].at \in F
  BY <1>1, <1>2, <1>5, <1>6
<1>8. \A i, j \in 1..Len(news) : i < j => news[i].at < news[j].at
  BY <1>0, <1>2, <1>5, <1>6
<1>9. \A i, j \in 1..Len(rest) : i < j => rest[i] < rest[j]
  <2> SUFFICES ASSUME NEW i \in 1..Len(rest), NEW j \in 1..Len(rest), i < j PROVE rest[i] < rest[j]
    OBVIOUS
  <2>1. i + n < j + n
    BY <1>1
  <2> QED BY <2>1, <1>0, <1>3
<1>10. \A i \in 1..Len(news), j \in 1..Len(rest) : news[i].at < rest[j]
  <2> SUFFICES ASSUME NEW i \in 1..n, NEW j \in 1..Len(rest) PROVE news[i].at < rest[j]
    BY <1>6
  <2>1. i < j + n /\ i \in 1..Len(s) /\ j + n \in 1..Len(s)
    BY <1>1, <1>2, <1>3
  <2> QED BY <2>1, <1>0, <1>3, <1>5
<1>11. Streamed(news, rest, F)
  BY <1>7, <1>8, <1>9, <1>10 DEF Streamed
<1>12. ASSUME NEW i \in 1..Len(s)
       PROVE  \/ \E j \in 1..Len(rest) : rest[j] = s[i]
              \/ \E j \in 1..Len(news) : news[j].kind = "output" /\ news[j].at = s[i]
  <2>1. CASE i <= n
    <3>1. i \in 1..Len(news) /\ i \in 1..n
      BY <2>1, <1>6, <1>1
    <3> QED BY <3>1, <1>5
  <2>2. CASE i > n
    <3>1. i - n \in 1..(Len(s) - n) /\ (i - n) + n = i
      BY <2>2, <1>1
    <3>2. i - n \in 1..Len(rest)
      BY <3>1, <1>3
    <3>3. rest[i - n] = s[(i - n) + n]
      BY <3>2, <1>3
    <3>4. rest[i - n] = s[i]
      BY <3>1, <3>3
    <3> QED BY <3>2, <3>4
  <2>3. i <= n \/ i > n
    <3>1. i \in Int /\ n \in Int
      BY <1>1
    <3> QED BY <3>1
  <2> QED BY <2>1, <2>2, <2>3
<1>13. Splits(F, s, news, rest)
  BY <1>1, <1>3, <1>5, <1>6, <1>11, <1>12 DEF Splits
<1> QED BY <1>13 DEF news, rest

\* The frames of the terminal that were in the bucket, and that of a chunk just written,
\* move on.  A connection without a subscription is sent nothing.
LEMMA StreamSteps ==
  ASSUME IInv, head' \in {head, head + 1}, head' <= MaxOut,
         NEW F, F = ToSet(bucket) \cup {n \in 1..head' : n > head},
         NEW news \in Seq(Message), bucket' \in Seq(F), Len(bucket') <= BucketCap,
         down' = down \o news, Streamed(news, bucket', F),
         \/ Delivered(news, bucket', F) /\ connected /\ (subscribed \/ Len(bucket) # 0)
         \/ Len(news) = 0 /\ bucket' = bucket /\ (head' # head => ~(connected /\ subscribed)),
         UNCHANGED <<subscribed, lease, connected, up, coordinator, host, screen>>
  PROVE  IInv'
<1>0. /\ TypeOK /\ Bounded(up, down, head) /\ Claims /\ Queued /\ Continued /\ Positions
      /\ InOrder(pending, bucket, down) /\ Tokens(up, down, recovery) /\ Fresh(down, Known)
      /\ Accounted
  BY DEF IInv
<1>1. /\ head \in Nat /\ MaxOut \in Nat
      /\ bucket \in Seq(1..head) /\ Len(bucket) \in Nat /\ \A i \in 1..Len(bucket) : bucket[i] \in 1..head
      /\ up \in Seq(Message) /\ Len(up) \in Nat /\ \A i \in 1..Len(up) : up[i] \in Message
      /\ down \in Seq(Message) /\ Len(down) \in Nat /\ \A i \in 1..Len(down) : down[i] \in Message
      /\ pending \in Seq(1..head) /\ Len(pending) \in Nat /\ \A i \in 1..Len(pending) : pending[i] \in 1..head
      /\ chunks \in Seq(1..head)
      /\ replayed \in 0..head /\ rendered \in 0..head /\ anchor \in {None} \cup 0..head
  BY <1>0, Sorts
<1>2. head' \in Nat /\ head <= head'
  BY <1>1
<1>3. /\ UNCHANGED <<recovery, queued, reconcileDue, reclaimDue, activation>>
      /\ UNCHANGED <<live, replayed, rendered, anchor, pending, chunks, writes, ui, mounted>>
      /\ UNCHANGED <<painted, skipped>> /\ UNCHANGED <<subscribed, lease, connected, up>>
  BY DEF coordinator, host, screen
<1>4. ToSet(bucket) \subseteq 1..head /\ ToSet(bucket) = {bucket[i] : i \in 1..Len(bucket)}
  BY <1>1, SetWithin, Elements
<1>5. F \subseteq 1..head' /\ \A x \in F : (\E i \in 1..Len(bucket) : x = bucket[i]) \/ x > head
  <2>1. \A x \in 1..head : x \in 1..head'
    BY <1>1, <1>2
  <2> QED BY <2>1, <1>4
<1>6. \A i \in 1..Len(pending) : \A x \in F : pending[i] < x
  <2> SUFFICES ASSUME NEW i \in 1..Len(pending), NEW x \in F PROVE pending[i] < x
    OBVIOUS
  <2>1. CASE \E j \in 1..Len(bucket) : x = bucket[j]
    BY <2>1, <1>0 DEF InOrder
  <2>2. CASE x > head
    <3>1. pending[i] \in 1..head /\ x \in Int
      BY <1>1, <1>2, <1>5
    <3> QED BY <3>1, <2>2, <1>1
  <2> QED BY <2>1, <2>2, <1>5
<1>7. \A i \in 1..Len(down) : down[i].kind = "output" => \A x \in F : down[i].at < x
  <2> SUFFICES ASSUME NEW i \in 1..Len(down), down[i].kind = "output", NEW x \in F PROVE down[i].at < x
    OBVIOUS
  <2>1. CASE \E j \in 1..Len(bucket) : x = bucket[j]
    BY <2>1, <1>0 DEF InOrder
  <2>2. CASE x > head
    <3>1. down[i].at <= head /\ x \in Int /\ down[i].at \in Nat
      BY <1>0, <1>1, <1>2, <1>5, Messages DEF Bounded
    <3> QED BY <3>1, <2>2, <1>1
  <2> QED BY <2>1, <2>2, <1>5
<1>8. \A i \in 1..Len(news) : news[i].kind \in {"output", "continuity_lost"}
  BY DEF Streamed
<1>9. /\ down' \in Seq(Message) /\ ToSet(down') = ToSet(down) \cup ToSet(news)
      /\ Len(news) \in Nat /\ ToSet(news) = {news[i] : i \in 1..Len(news)}
  BY <1>1, Joined, SetJoined, Elements
<1>10. Bounded(up', down', head')
  <2>1. Streamed(news, bucket', 1..head')
    BY <1>5 DEF Streamed
  <2>2. Bounded(up, down \o news, head')
    BY <1>0, <1>1, <1>2, <2>1, BoundedJoined
  <2> QED BY <2>2, <1>3
<1>11. InOrder(pending', bucket', down')
  BY <1>0, <1>1, <1>3, <1>6, <1>7, OrderJoined
<1>12. Tokens(up', down', recovery')
  <2>1. \A i \in 1..Len(news) : news[i].kind \notin Replies
    BY <1>8 DEF Replies, Decisions, Deliveries
  <2> QED BY <2>1, <1>0, <1>1, <1>3, TokensJoined
<1>13. Fresh(down', Known')
  <2>1. \A i \in 1..Len(news) : news[i].kind \notin Answers
    BY <1>8 DEF Answers
  <2>2. Known' = Known
    BY <1>3 DEF Known, Seen, Shown, Ends
  <2> QED BY <2>1, <2>2, <1>0, <1>1, FreshJoined
<1>14. Positions'
  <2>1. Asked(up, down \o news, At)
    BY <1>0, <1>1, <1>8, AskedJoined DEF Positions
  <2>2. At' = At
    BY <1>3 DEF At
  <2> QED BY <2>1, <2>2, <1>0, <1>3 DEF Positions
<1>15. Continued'
  BY <1>0, <1>3, SMTT(20) DEF Continued, Shown, Ends, Upcoming
<1>16. Queued'
  <2>1. \A i \in 1..Len(writes) : writes[i].hi <= head'
    <3>1. \A i \in 1..Len(writes) : writes[i].hi \in Nat /\ writes[i].hi <= head
      BY <1>0, Sorts, WriteSorts DEF Queued
    <3> QED BY <3>1, <1>1, <1>2
  <2>2. \A i \in 1..Len(writes) : Baseline(writes, i) => Baseline(writes, i)'
    BY <1>3 DEF Baseline, Seen, Shown, Ends
  <2> QED BY <2>1, <2>2, <1>0, <1>3 DEF Queued
<1>17. TypeOK'
  <2>1. 1..head \subseteq 1..head' /\ 0..head \subseteq 0..head' /\ head' \in Seqs
    BY <1>1, <1>2 DEF Seqs
  <2>2. bucket' \in Seq(1..head') /\ pending' \in Seq(1..head') /\ chunks' \in Seq(1..head')
    BY <2>1, <1>1, <1>3, <1>5, Wider
  <2>3. {painted', skipped'} \subseteq SUBSET (1..head')
    BY <2>1, <1>0, <1>3 DEF TypeOK
  <2>4. {replayed', rendered'} \subseteq 0..head' /\ anchor' \in {None} \cup 0..head'
    BY <2>1, <1>1, <1>3
  <2> QED BY <2>1, <2>2, <2>3, <2>4, <1>0, <1>3, <1>9 DEF TypeOK
<1>18. Claims'
  <2>1. \A i \in 1..Len(down') : down'[i].kind = "claimed" => i \in 1..Len(down) /\ down'[i] = down[i]
    BY <1>1, <1>8, ClaimedJoined
  <2>2. ~(connected /\ (subscribed \/ Len(bucket) # 0)) => bucket' = bucket /\ Len(down') = Len(down)
    <3>1. Len(down') = Len(down) + Len(news)
      BY <1>1, Joined
    <3> QED BY <3>1, <1>1
  <2>3. connected' /\ ~subscribed' /\ activation' = "active" => Opening'
    <3> SUFFICES ASSUME connected, ~subscribed, activation = "active" PROVE Opening'
      BY <1>3
    <3>1. Opening
      BY <1>0 DEF Claims
    <3>2. Len(down') = Len(down) /\ bucket' = bucket
      BY <3>1, <2>2 DEF Opening
    <3> QED BY <3>1, <3>2, <1>3 DEF Opening
  <2>4. ~connected' => Len(up') = 0 /\ Len(down') = 0 /\ Len(bucket') = 0
    BY <2>2, <1>0, <1>3 DEF Claims
  <2>5. connected' /\ ~subscribed' => Subscribes(up')
    BY <1>0, <1>3 DEF Claims, Subscribes
  <2> QED BY <2>1, <2>3, <2>4, <2>5, <1>0, <1>3 DEF Claims
<1>19. Accounted'
  <2> SUFFICES ASSUME NEW n \in 1..head' PROVE Resting(n)' \/ Later(n)' \/ Fetched(n)'
    BY <1>3 DEF Accounted, Resting, Later
  <2>1. ASSUME NEW x \in F, x >= n, Delivered(news, bucket', F) PROVE Later(n)' \/ Fetched(n)'
    <3>1. CASE \E i \in 1..Len(bucket') : bucket'[i] = x
      <4>1. x \in ToSet(bucket')
        BY <3>1, Elements
      <4> QED BY <4>1, <2>1 DEF Later, LaterFrames
    <3>2. CASE \E i \in 1..Len(news) : news[i].kind = "output" /\ news[i].at = x
      <4>1. PICK m \in ToSet(down') : m.kind = "output" /\ m.at = x
        BY <3>2, <1>9
      <4>2. m \in OnItsWay({"output"})'
        BY <4>1 DEF OnItsWay
      <4> QED BY <4>1, <4>2, <2>1 DEF Later, LaterFrames
    <3>3. CASE \E i \in 1..Len(news) : news[i].kind = "continuity_lost"
      <4>1. PICK m \in ToSet(down') : m.kind = "continuity_lost"
        BY <3>3, <1>9
      <4>2. FetchedBy(m, n)
        BY <4>1 DEF FetchedBy
      <4> QED BY <4>1, <4>2, FetchedWhen
    <3> QED BY <2>1, <3>1, <3>2, <3>3 DEF Delivered
  <2>2. CASE n \in 1..head
    <3>1. Resting(n) => Resting(n)'
      BY <1>3 DEF Resting
    <3>2. Fetched(n) => Fetched(n)'
      <4> DEFINE m0 == Msg("output", 0)
      <4>1. ToSet(up) \subseteq ToSet(up') \cup {m0} /\ ToSet(down) \subseteq ToSet(down') \cup {m0}
        BY <1>3, <1>9
      <4>2. m0.kind = "output"
        BY DEF Msg
      <4> HIDE DEF m0
      <4>3. ~FetchedBy(m0, n)
        BY <4>2 DEF FetchedBy
      <4> QED BY <4>1, <4>3, <1>3, FetchedStays
    <3>3. Later(n) => Later(n)' \/ Fetched(n)'
      <4> SUFFICES ASSUME NEW later \in LaterFrames, later >= n PROVE Later(n)' \/ Fetched(n)'
        BY DEF Later
      <4>1. CASE later \in ToSet(bucket)
        <5>1. CASE Delivered(news, bucket', F)
          BY <4>1, <5>1, <2>1
        <5>2. CASE bucket' = bucket
          BY <4>1, <5>2 DEF Later, LaterFrames
        <5> QED BY <5>1, <5>2
      <4>2. CASE later \in ToSet(pending)
        BY <4>2, <1>3 DEF Later, LaterFrames
      <4>3. CASE later \in {m.at : m \in OnItsWay({"output"})}
        <5>1. PICK m \in ToSet(up) \cup ToSet(down) : m.kind = "output" /\ m.at = later
          BY <4>3 DEF OnItsWay
        <5>2. m \in OnItsWay({"output"})'
          BY <5>1, <1>3, <1>9 DEF OnItsWay
        <5> QED BY <5>1, <5>2 DEF Later, LaterFrames
      <4> QED BY <4>1, <4>2, <4>3 DEF LaterFrames
    <3> QED BY <3>1, <3>2, <3>3, <2>2, <1>0, AccountedParts
  <2>3. CASE n > head
    <3>1. CASE Delivered(news, bucket', F)
      <4>1. n \in F /\ n >= n
        BY <2>3, <1>2
      <4> QED BY <4>1, <3>1, <2>1
    <3>2. CASE ~connected
      BY <3>2, <1>3 DEF Fetched
    <3>3. CASE connected /\ ~subscribed
      <4>1. CASE activation # "active"
        <5>1. reclaimDue'
          BY <4>1, <1>0, <1>3 DEF Claims
        <5> QED BY <5>1 DEF Fetched
      <4>2. CASE activation = "active"
        <5>1. Opening
          BY <4>2, <3>3, <1>0 DEF Claims
        <5>2. CASE ~mounted
          BY <5>2, <1>3 DEF Fetched
        <5>3. CASE \E i \in 2..Len(up) : up[i].kind = "reconcile"
          <6>1. PICK i \in 1..Len(up) : up[i].kind = "reconcile"
            BY <5>3, <1>1
          <6>2. up[i] \in ToSet(up')
            BY <6>1, <1>1, <1>3, Elements
          <6>3. up[i].at \in Nat /\ up[i].at <= head
            BY <6>1, <1>0, <1>1, Messages DEF Bounded
          <6>4. FetchedBy(up[i], n)
            BY <6>1, <6>3, <2>3, <1>1 DEF FetchedBy
          <6> QED BY <6>2, <6>4, FetchedWhen
        <5> QED BY <5>1, <5>2, <5>3 DEF Opening
      <4> QED BY <4>1, <4>2
    <3>4. head' # head
      BY <2>3, <1>1
    <3>5. Delivered(news, bucket', F) \/ ~connected \/ (connected /\ ~subscribed)
      BY <3>4
    <3> QED BY <3>1, <3>2, <3>3, <3>5
  <2>4. n \in 1..head \/ n > head
    BY <1>1, <1>2
  <2> QED BY <2>2, <2>3, <2>4
<1> QED BY <1>10, <1>11, <1>12, <1>13, <1>14, <1>15, <1>16, <1>17, <1>18, <1>19 DEF IInv

LEMMA OverItself ==
  ASSUME NEW S, NEW s \in Seq(S)
  PROVE  /\ s \in Seq(ToSet(s)) /\ ToSet(s) \subseteq S
         /\ \A x \in ToSet(s) : \E i \in 1..Len(s) : s[i] = x
<1>1. /\ Len(s) \in Nat /\ s \in [1..Len(s) -> S] /\ ToSet(s) = {s[i] : i \in 1..Len(s)}
  BY LenProperties, Elements
<1>2. s \in [1..Len(s) -> ToSet(s)]
  BY <1>1
<1>3. s \in Seq(ToSet(s))
  BY <1>1, <1>2, SeqDef
<1> QED BY <1>1, <1>3

LEMMA FlushStreamSteps ==
  ASSUME IInv, FlushStream
  PROVE  IInv'
<1>0. TypeOK /\ Claims /\ InOrder(pending, bucket, down)
  BY DEF IInv
<1>1. /\ bucket # <<>> /\ head' = head /\ bucket \in Seq(1..head) /\ Len(bucket) \in Nat
      /\ head \in Nat /\ head <= MaxOut /\ MaxOut \in Nat /\ Len(bucket) <= BucketCap /\ BucketCap \in Nat
      /\ UNCHANGED <<subscribed, lease, connected, up, coordinator, host, screen>>
  BY <1>0, Sorts, StreamAssumption DEF FlushStream, TypeOK
<1>2. PICK b \in Seq(1..head), sent \in 1..Len(bucket) :
        /\ b = bucket /\ down' = down \o Frames(SubSeq(b, 1, sent))
        /\ bucket' = SubSeq(b, sent + 1, Len(b))
  BY <1>1 DEF FlushStream
<1>3. PICK F : F = ToSet(b)
  OBVIOUS
<1>4. F = ToSet(bucket) \cup {n \in 1..head' : n > head}
  BY <1>1, <1>2, <1>3
<1>5. /\ b \in Seq(F) /\ F \subseteq Seqs /\ Len(b) # 0
      /\ \A x \in F : \E i \in 1..Len(b) : b[i] = x
  <2>1. b \in Seq(ToSet(b)) /\ ToSet(b) \subseteq 1..head /\ \A x \in ToSet(b) : \E i \in 1..Len(b) : b[i] = x
    BY OverItself
  <2>2. Len(b) # 0
    BY <1>1, <1>2, Elements
  <2>3. 1..head \subseteq Seqs
    BY <1>1 DEF Seqs
  <2> QED BY <2>1, <2>2, <2>3, <1>3
<1>6. sent \in 0..Len(b) /\ Increasing(b)
  BY <1>0, <1>1, <1>2 DEF InOrder, Increasing
<1>7. PICK news, rest : news = Frames(SubSeq(b, 1, sent)) /\ rest = SubSeq(b, sent + 1, Len(b))
  OBVIOUS
<1>8. Splits(F, b, news, rest)
  BY <1>5, <1>6, <1>7, Sending
<1>9. Delivered(news, rest, F)
  <2> SUFFICES ASSUME NEW x \in F
               PROVE  \/ \E i \in 1..Len(rest) : rest[i] = x
                      \/ \E i \in 1..Len(news) : news[i].kind = "output" /\ news[i].at = x
    BY DEF Delivered
  <2>1. PICK i \in 1..Len(b) : b[i] = x
    BY <1>5
  <2> QED BY <2>1, <1>8 DEF Splits
<1>10. down' = down \o news /\ bucket' = rest /\ Len(rest) <= BucketCap
  BY <1>1, <1>2, <1>7, <1>8, Elements DEF Splits
<1>11. connected /\ Len(bucket) # 0
  BY <1>0, <1>2, <1>5 DEF Claims
<1>12. news \in Seq(Message) /\ rest \in Seq(F) /\ Streamed(news, rest, F)
  BY <1>8 DEF Splits
<1> QED BY <1>1, <1>4, <1>12, <1>9, <1>10, <1>11, StreamSteps

\* The notice of what was dropped.
LEMMA NoticeFacts ==
  /\ Lost \in Seq(Message) /\ Len(Lost) = 1
  /\ Lost[1].kind = "continuity_lost" /\ Lost[1].at = 0
<1>1. "continuity_lost" \in ToServer \cup ToBrowser /\ 0 \in Seqs
  BY StreamAssumption DEF ToBrowser, Seqs
<1>2. PICK m \in Message : m = Msg("continuity_lost", 0) /\ m.kind = "continuity_lost" /\ m.at = 0
  BY <1>1, MakesMessage
<1>3. Lost = <<m>>
  BY <1>2 DEF Lost
<1> QED BY <1>2, <1>3

LEMMA EvictTopicSteps ==
  ASSUME IInv, EvictTopic
  PROVE  IInv'
<1>0. TypeOK /\ Claims
  BY DEF IInv
<1>1. /\ bucket # <<>> /\ head' = head /\ bucket \in Seq(1..head) /\ Len(bucket) \in Nat
      /\ head \in Nat /\ head <= MaxOut /\ BucketCap \in Nat
      /\ bucket' = <<>> /\ down' = down \o Lost
      /\ UNCHANGED <<subscribed, lease, connected, up, coordinator, host, screen>>
  BY <1>0, Sorts, StreamAssumption DEF EvictTopic
<1>2. PICK F : F = ToSet(bucket)
  OBVIOUS
<1>3. F = ToSet(bucket) \cup {n \in 1..head' : n > head}
  BY <1>1, <1>2
<1>4. PICK news \in Seq(Message) :
        news = Lost /\ Len(news) = 1 /\ news[1].kind = "continuity_lost" /\ news[1].at = 0
  BY NoticeFacts
<1>5. bucket' \in Seq(F) /\ Len(bucket') = 0 /\ Len(bucket') <= BucketCap
  BY <1>1, EmptySeq
<1>6. 1 \in 1..Len(news) /\ \A i \in 1..Len(news) : i = 1
  BY <1>4
<1>7. Streamed(news, bucket', F) /\ Delivered(news, bucket', F)
  BY <1>4, <1>5, <1>6 DEF Streamed, Delivered
<1>8. connected /\ Len(bucket) # 0
  <2>1. Len(bucket) # 0
    BY <1>1, Elements
  <2> QED BY <2>1, <1>0 DEF Claims
<1> QED BY <1>1, <1>3, <1>4, <1>5, <1>7, <1>8, StreamSteps

LEMMA IncreasingAdded ==
  ASSUME NEW F, F \subseteq Nat, NEW s \in Seq(F), Increasing(s), NEW n \in F, \A i \in 1..Len(s) : s[i] < n
  PROVE  Append(s, n) \in Seq(F) /\ Len(Append(s, n)) = Len(s) + 1 /\ Increasing(Append(s, n))
<1>1. /\ Append(s, n) \in Seq(F) /\ Len(s) \in Nat /\ Len(Append(s, n)) = Len(s) + 1
      /\ (\A i \in 1..Len(s) : Append(s, n)[i] = s[i]) /\ Append(s, n)[Len(s) + 1] = n
  BY Added
<1>2. ASSUME NEW i \in 1..(Len(s) + 1), NEW j \in 1..(Len(s) + 1), i < j
      PROVE  Append(s, n)[i] < Append(s, n)[j]
  <2>1. i \in 1..Len(s)
    BY <1>1, <1>2
  <2>2. CASE j \in 1..Len(s)
    BY <2>1, <2>2, <1>1, <1>2 DEF Increasing
  <2>3. CASE j = Len(s) + 1
    BY <2>1, <2>3, <1>1
  <2> QED BY <2>2, <2>3, <1>1
<1> QED BY <1>1, <1>2 DEF Increasing

LEMMA IncreasingTail ==
  ASSUME NEW F, NEW s \in Seq(F), s # <<>>, Increasing(s)
  PROVE  Increasing(Tail(s))
<1>1. \A i \in 1..Len(Tail(s)) : i + 1 \in 1..Len(s) /\ Tail(s)[i] = s[i + 1] /\ i \in Int
  BY Taken
<1>2. ASSUME NEW i \in 1..Len(Tail(s)), NEW j \in 1..Len(Tail(s)), i < j PROVE Tail(s)[i] < Tail(s)[j]
  <2>1. i + 1 < j + 1 /\ i + 1 \in 1..Len(s) /\ j + 1 \in 1..Len(s)
    BY <1>1, <1>2
  <2> QED BY <2>1, <1>1 DEF Increasing
<1> QED BY <1>2 DEF Increasing

\* A notice goes ahead of the frames that are sent.
LEMMA NoticeFirst ==
  ASSUME NEW F, NEW s, NEW news, NEW rest, Splits(F, s, news, rest)
  PROVE  /\ Lost \o news \in Seq(Message)
         /\ Streamed(Lost \o news, rest, F) /\ Delivered(Lost \o news, rest, F)
<1>1. Lost \in Seq(Message) /\ Len(Lost) = 1 /\ Lost[1].kind = "continuity_lost" /\ Lost[1].at = 0
  BY NoticeFacts
<1>2. news \in Seq(Message) /\ Streamed(news, rest, F)
  BY DEF Splits
<1> DEFINE a == Lost \o news
<1>3. /\ a \in Seq(Message) /\ Len(a) = 1 + Len(news) /\ Len(news) \in Nat
      /\ (\A i \in 1..Len(Lost) : a[i] = Lost[i])
      /\ \A i \in (Len(Lost) + 1)..(Len(Lost) + Len(news)) :
           i - Len(Lost) \in 1..Len(news) /\ a[i] = news[i - Len(Lost)]
  BY <1>1, <1>2, Joined
<1> HIDE DEF a
<1>4. 1 \in 1..Len(a) /\ a[1].kind = "continuity_lost" /\ a[1].at = 0
  BY <1>1, <1>3
<1>5. \A i \in 1..Len(a) : i \in Int /\ (i = 1 \/ (i - 1 \in 1..Len(news) /\ a[i] = news[i - 1]))
  BY <1>1, <1>3
<1>6. \A i, j \in 1..Len(a) : i < j /\ a[i].kind = "output" /\ a[j].kind = "output" => a[i].at < a[j].at
  <2> SUFFICES ASSUME NEW i \in 1..Len(a), NEW j \in 1..Len(a), i < j, a[i].kind = "output", a[j].kind = "output"
               PROVE  a[i].at < a[j].at
    OBVIOUS
  <2>1. /\ i - 1 \in 1..Len(news) /\ a[i] = news[i - 1]
        /\ j - 1 \in 1..Len(news) /\ a[j] = news[j - 1] /\ i - 1 < j - 1
    BY <1>4, <1>5
  <2> QED BY <2>1, <1>2 DEF Streamed
<1>7. Streamed(a, rest, F)
  BY <1>2, <1>4, <1>5, <1>6 DEF Streamed
<1>8. Delivered(a, rest, F)
  BY <1>4 DEF Delivered
<1> QED BY <1>3, <1>7, <1>8 DEF a

LEMMA OutputSteps ==
  ASSUME IInv, Output
  PROVE  IInv'
<1>0. TypeOK /\ Claims /\ InOrder(pending, bucket, down)
  BY DEF IInv
<1>1. /\ head' = head + 1 /\ head' <= MaxOut /\ head \in Nat /\ MaxOut \in Nat
      /\ bucket \in Seq(1..head) /\ Len(bucket) \in Nat /\ Len(bucket) <= BucketCap /\ BucketCap \in Nat
      /\ \A i \in 1..Len(bucket) : bucket[i] \in 1..head
      /\ down \in Seq(Message)
      /\ UNCHANGED <<subscribed, lease, connected, up, coordinator, host, screen>>
  BY <1>0, Sorts, StreamAssumption DEF Output, TypeOK
<1>2. PICK s \in Seq(1..head), n \in Nat : s = bucket /\ n = head' /\ n \in Seqs
  BY <1>1 DEF Seqs
<1>3. PICK F : F = ToSet(s) \cup {n}
  OBVIOUS
<1>4. F = ToSet(bucket) \cup {x \in 1..head' : x > head}
  BY <1>1, <1>2, <1>3
<1>5. s \in Seq(F) /\ n \in F /\ \A x \in ToSet(s) : \E i \in 1..Len(s) : s[i] = x
  <2>1. s \in Seq(ToSet(s)) /\ ToSet(s) \subseteq F /\ \A x \in ToSet(s) : \E i \in 1..Len(s) : s[i] = x
    BY <1>3, OverItself
  <2>2. s \in Seq(F)
    BY <2>1, Wider
  <2> QED BY <2>1, <2>2, <1>3
<1>6. F \subseteq Seqs /\ F \subseteq Nat
  <2>1. ToSet(s) \subseteq 1..head
    BY SetWithin
  <2>2. 1..head \subseteq Seqs /\ 1..head \subseteq Nat
    BY <1>1 DEF Seqs
  <2> QED BY <2>1, <2>2, <1>2, <1>3
<1>7. Increasing(s) /\ \A i \in 1..Len(s) : s[i] < n
  BY <1>0, <1>1, <1>2 DEF InOrder, Increasing
<1>8. CASE ~(connected /\ subscribed)
  <2>1. bucket' = bucket /\ down' = down
    BY <1>8 DEF Output
  <2>2. PICK news \in Seq(Message) : news = <<>> /\ Len(news) = 0
    BY EmptySeq
  <2>3. down' = down \o news
    BY <2>1, <2>2, <1>1, ConcatEmptySeq
  <2>4. Streamed(news, s, F)
    BY <2>2, <1>7 DEF Streamed, Increasing
  <2>5. bucket' \in Seq(F) /\ Len(bucket') <= BucketCap /\ Streamed(news, bucket', F)
    BY <2>1, <2>4, <1>1, <1>2, <1>5
  <2> QED BY <2>1, <2>2, <2>3, <2>5, <1>1, <1>4, <1>8, StreamSteps
<1>9. CASE (connected /\ subscribed) /\ SendStream(head')
  <2>1. CASE bucket = <<>> /\ down' = Append(down, Msg("output", head')) /\ bucket' = bucket
    <3>1. PICK m \in Message : m = Msg("output", n) /\ m.kind = "output" /\ m.at = n
      <4>1. "output" \in ToServer \cup ToBrowser
        BY DEF ToBrowser
      <4> QED BY <4>1, <1>2, MakesMessage
    <3>2. PICK news \in Seq(Message) : news = <<m>> /\ Len(news) = 1 /\ news[1] = m
      <4>1. <<m>> \in Seq(Message) /\ Len(<<m>>) = 1 /\ <<m>>[1] = m
        OBVIOUS
      <4> QED BY <4>1
    <3>3. down' = down \o news
      <4>1. Append(down, m) = down \o <<m>>
        BY <1>1, AppendIsConcat
      <4> QED BY <4>1, <2>1, <3>1, <3>2, <1>2
    <3>4. bucket' = s /\ Len(s) = 0 /\ ToSet(s) = {} /\ s \in Seq(F)
      BY <2>1, <1>2, <1>5, Elements, EmptySeq
    <3>5. Streamed(news, s, F) /\ Delivered(news, s, F)
      <4>1. \A i \in 1..Len(news) : i = 1
        BY <3>2
      <4>2. 1 \in 1..Len(news)
        BY <3>2
      <4>3. \A x \in F : x = n
        BY <1>3, <3>4
      <4>4. Streamed(news, s, F)
        BY <4>1, <3>1, <3>2, <3>4, <1>5 DEF Streamed
      <4> QED BY <4>2, <4>3, <4>4, <3>1, <3>2 DEF Delivered
    <3>6. bucket' \in Seq(F) /\ Len(bucket') <= BucketCap /\ Streamed(news, bucket', F)
          /\ Delivered(news, bucket', F)
      BY <3>4, <3>5, <1>1
    <3> QED BY <3>3, <3>6, <1>1, <1>4, <1>9, StreamSteps
  <2>2. CASE Enqueue(head')
    <3>1. PICK c : c = Append(s, n) /\ c \in Seq(F) /\ Len(c) = Len(s) + 1 /\ Increasing(c)
      BY <1>5, <1>6, <1>7, IncreasingAdded
    <3>2. PICK b, notice : b = Kept(c) /\ notice = IF Len(s) = BucketCap THEN Lost ELSE <<>>
      OBVIOUS
    <3>3. PICK sent \in 0..Len(b) : /\ down' = down \o notice \o Frames(SubSeq(b, 1, sent))
                                    /\ bucket' = SubSeq(b, sent + 1, Len(b))
      BY <2>2, <3>1, <3>2, <1>2 DEF Enqueue
    <3>4. Len(s) \in Nat /\ Len(s) <= BucketCap /\ c # <<>>
      BY <3>1, <1>1, <1>2, EmptySeq
    <3>5. b \in Seq(F) /\ Increasing(b) /\ Len(b) <= BucketCap
      <4>1. CASE Len(c) > BucketCap
        <5>1. b = Tail(c)
          BY <4>1, <3>2 DEF Kept
        <5>2. Tail(c) \in Seq(F) /\ Len(Tail(c)) = Len(c) - 1
          BY <3>1, <3>4, Taken
        <5>3. Increasing(Tail(c))
          BY <3>1, <3>4, IncreasingTail
        <5> QED BY <5>1, <5>2, <5>3, <3>1, <3>4, <1>1
      <4>2. CASE ~(Len(c) > BucketCap)
        <5>1. b = c
          BY <4>2, <3>2 DEF Kept
        <5> QED BY <5>1, <4>2, <3>1, <3>4, <1>1
      <4> QED BY <4>1, <4>2
    <3>6. PICK sents, rest : sents = Frames(SubSeq(b, 1, sent)) /\ rest = SubSeq(b, sent + 1, Len(b))
      OBVIOUS
    <3>7. Splits(F, b, sents, rest)
      BY <3>5, <3>6, <1>6, Sending
    <3>8. sents \in Seq(Message) /\ rest \in Seq(F) /\ Len(rest) <= BucketCap
      <4>1. sents \in Seq(Message) /\ rest \in Seq(F) /\ Len(rest) <= Len(b) 
        BY <3>7 DEF Splits
      <4>2. Len(rest) \in Nat /\ Len(b) \in Nat
        BY <4>1, <3>5, Elements
      <4> QED BY <4>1, <4>2, <3>5, <1>1
    <3>9. \E news \in Seq(Message) :
            down' = down \o news /\ Streamed(news, rest, F) /\ Delivered(news, rest, F)
      <4>1. CASE Len(s) = BucketCap
        <5>1. /\ Lost \o sents \in Seq(Message)
              /\ Streamed(Lost \o sents, rest, F) /\ Delivered(Lost \o sents, rest, F)
          BY <3>7, NoticeFirst
        <5>2. (down \o Lost) \o sents = down \o (Lost \o sents)
          <6>1. PICK d \in Seq(Message), l \in Seq(Message) : d = down /\ l = Lost
            BY <1>1, NoticeFacts
          <6>2. (d \o l) \o sents = d \o (l \o sents)
            BY <3>8, ConcatAssociative, SMTT(20)
          <6> QED BY <6>1, <6>2
        <5>3. down' = (down \o Lost) \o sents
          BY <4>1, <3>2, <3>3, <3>6
        <5> QED BY <5>1, <5>2, <5>3
      <4>2. CASE Len(s) # BucketCap
        <5>1. down \o <<>> = down
          BY <1>1, ConcatEmptySeq
        <5>2. down' = down \o sents
          BY <5>1, <4>2, <3>2, <3>3, <3>6
        <5>3. b = c
          <6>1. ~(Len(c) > BucketCap)
            BY <4>2, <3>1, <3>4, <1>1
          <6> QED BY <6>1, <3>2 DEF Kept
        <5>4. Delivered(sents, rest, F)
          <6> SUFFICES ASSUME NEW x \in F
                       PROVE  \/ \E i \in 1..Len(rest) : rest[i] = x
                              \/ \E i \in 1..Len(sents) : sents[i].kind = "output" /\ sents[i].at = x
            BY DEF Delivered
          <6>1. PICK i \in 1..Len(c) : c[i] = x
            <7>1. /\ Len(s) + 1 \in 1..Len(c) /\ c[Len(s) + 1] = n
                  /\ \A i \in 1..Len(s) : i \in 1..Len(c) /\ c[i] = s[i]
              BY <3>1, <3>4, <1>5, Added
            <7> QED BY <7>1, <1>3, <1>5
          <6> QED BY <6>1, <5>3, <3>7 DEF Splits
        <5> QED BY <5>2, <5>4, <3>7, <3>8 DEF Splits
      <4> QED BY <4>1, <4>2
    <3>10. PICK news \in Seq(Message) :
             down' = down \o news /\ Streamed(news, rest, F) /\ Delivered(news, rest, F)
      BY <3>9
    <3>11. bucket' = rest
      BY <3>3, <3>6
    <3>12. /\ bucket' \in Seq(F) /\ Len(bucket') <= BucketCap
           /\ Streamed(news, bucket', F) /\ Delivered(news, bucket', F)
      BY <3>8, <3>10, <3>11
    <3> QED BY <3>10, <3>12, <1>1, <1>4, <1>9, StreamSteps
  <2> QED BY <2>1, <2>2, <1>9 DEF SendStream
<1> QED BY <1>8, <1>9 DEF Output

----------------------------------------------------------------------------
(* The theorems                                                            *)

LEMMA StepIInv == IInv /\ [Next]_vars => IInv'
<1> SUFFICES ASSUME IInv, [Next]_vars PROVE IInv'
  OBVIOUS
<1>1. CASE Output
  BY <1>1, OutputSteps
<1>2. CASE FlushStream
  BY <1>2, FlushStreamSteps
<1>3. CASE EvictTopic
  BY <1>3, EvictTopicSteps
<1>4. CASE ServerReceives
  BY <1>4, ServerReceivesSteps
<1>5. CASE ClientReceives
  BY <1>5, ClientReceivesSteps
<1>6. CASE WriteLive
  BY <1>6, WriteLiveSteps
<1>7. CASE Parse
  BY <1>7, ParseSteps
<1>8. CASE Mount
  BY <1>8, MountSteps
<1>9. CASE Resume
  BY <1>9, ResumeSteps
<1>10. CASE Disconnect
  BY <1>10, DisconnectSteps
<1>11. CASE Reconnect
  BY <1>11, ReconnectSteps
<1>12. CASE Claim
  BY <1>12, ClaimSteps
<1>13. CASE UNCHANGED vars
  <2>1. UNCHANGED <<server, socket, coordinator, host, limits, screen>>
    BY <1>13 DEF vars
  <2>2. UNCHANGED <<recovery, queued, activation, reconcileDue, reclaimDue>>
    BY <2>1 DEF coordinator
  <2>3. reconcileDue \in BOOLEAN /\ reclaimDue \in BOOLEAN
    BY DEF IInv, TypeOK
  <2> QED BY <2>1, <2>2, <2>3, QuietSteps
<1> QED BY <1>1, <1>2, <1>3, <1>4, <1>5, <1>6, <1>7, <1>8, <1>9, <1>10, <1>11, <1>12, <1>13 DEF Next

\* The inductive invariant holds in every state the server, the socket and the browser reach.
THEOREM Invariance == Spec => []IInv
<1>1. Init => IInv
  BY InitIInv
<1>2. IInv /\ [Next]_vars => IInv'
  BY StepIInv
<1> QED BY <1>1, <1>2, PTL DEF Spec

\* Whatever is delayed, dropped or reordered, no variable leaves its type: the bucket never
\* exceeds its cap, and nothing the browser keeps is about output that was never written.
THEOREM TypeCorrect == Spec => []TypeOK
<1>1. IInv => TypeOK
  BY DEF IInv
<1> QED BY <1>1, Invariance, PTL

\* No chunk is forgotten in silence by the server's drops and evictions, by a broken
\* connection, by a lost lease or by the merging of recoveries: until it is on the screen a
\* frame, a message or a state of the coordinator will lead the browser to it.
THEOREM NothingForgotten == Spec => []Accounted
<1>1. IInv => Accounted
  BY DEF IInv
<1> QED BY <1>1, Invariance, PTL

\* The position the host reports in a reconcile never exceeds what xterm has painted, but for
\* the chunks that a flush of held back ones jumped over.
THEOREM PositionHonest == Spec => []HonestPosition
<1>1. IInv => HonestPosition
  BY DEF IInv, Continued, HonestPosition, Shown
<1> QED BY <1>1, Invariance, PTL

LEMMA StepAdvances == IInv /\ [Next]_vars => [replayed' >= replayed]_vars
<1> SUFFICES ASSUME IInv, Next PROVE replayed' >= replayed
  OBVIOUS
<1>0. TypeOK /\ Fresh(down, Known) /\ Queued
  BY DEF IInv
<1>1. /\ replayed \in Nat /\ down \in Seq(Message) /\ writes \in Seq(Write)
      /\ Len(writes) \in Nat /\ Len(down) \in Nat
  <2>1. head \in Nat /\ replayed \in 0..head /\ down \in Seq(Message) /\ writes \in Seq(Write)
        /\ Len(writes) \in Nat /\ Len(down) \in Nat
    BY <1>0, Sorts
  <2> QED BY <2>1
<1>2. replayed \in Known /\ replayed \in Seen
  BY DEF Known, Seen
<1>3. CASE replayed' = replayed
  BY <1>1, <1>3
<1>4. CASE ClientReceives
  <2>1. PICK m \in Message : m = Head(down) /\ m = down[1] /\ 1 \in 1..Len(down)
    <3>1. down # <<>>
      BY <1>4 DEF ClientReceives
    <3> QED BY <3>1, <1>1, Taken
  <2>2. m.at \in Nat
    BY Messages
  <2>3. CASE m.kind = "output"
    <3>1. OutputArrives(m.at)
      BY <1>4, <2>1, <2>3 DEF ClientReceives
    <3>2. replayed' = replayed \/ (~(m.at <= replayed) /\ replayed' = m.at)
      BY <3>1 DEF OutputArrives
    <3> QED BY <3>2, <1>1, <2>2
  <2>4. CASE m.kind = "noop"
    <3>1. replayed' = m.at
      BY <1>4, <2>1, <2>4 DEF ClientReceives, FinishBaseline
    <3>2. Upto(Known, m.at)
      BY <2>1, <2>4, <1>0 DEF Fresh, Answers
    <3> QED BY <3>1, <3>2, <1>1, <1>2, <2>2 DEF Upto
  <2>5. CASE m.kind \notin {"output", "noop"}
    BY <1>4, <2>1, <2>5, <1>1 DEF ClientReceives, HostKept, WriteBaseline
  <2> QED BY <2>3, <2>4, <2>5
<1>5. CASE Parse
  <2>1. PICK w \in Write : w = Head(writes) /\ w = writes[1] /\ 1 \in 1..Len(writes)
    <3>1. writes # <<>>
      BY <1>5 DEF Parse
    <3> QED BY <3>1, <1>1, Taken
  <2>2. w.hi \in Nat
    BY WriteSorts
  <2>3. CASE w.kind = "baseline" /\ replayed' = w.hi
    <3>1. Upto(Seen, w.hi)
      BY <2>1, <2>3, <1>0 DEF Queued, Baseline
    <3> QED BY <3>1, <2>2, <2>3, <1>1, <1>2 DEF Upto
  <2>4. replayed' = replayed \/ (w.kind = "baseline" /\ replayed' = w.hi)
    BY <1>5, <2>1 DEF Parse, FinishBaseline
  <2> QED BY <2>3, <2>4, <1>3
<1>6. CASE Output \/ FlushStream \/ EvictTopic \/ ServerReceives
  BY <1>6, <1>3 DEF Output, FlushStream, EvictTopic, ServerReceives, host
<1>7. CASE WriteLive \/ Mount \/ Resume \/ Disconnect \/ Reconnect \/ Claim
  BY <1>7, <1>3 DEF WriteLive, Mount, Resume, Disconnect, Reconnect, Claim, host
<1> QED BY <1>4, <1>5, <1>6, <1>7 DEF Next

\* The live path accepts output in order only because no answer of the server moves
\* replayedSeqRef back: answers bypass the bucket, so they are as new as all they overtake.
THEOREM LivePathAdvances == Spec => NeverRewinds
<1>1. IInv /\ [Next]_vars => [replayed' >= replayed]_vars
  BY StepAdvances
<1> QED BY <1>1, Invariance, PTL DEF Spec, NeverRewinds
=============================================================================
