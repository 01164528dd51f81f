------------------------ MODULE ActivationLease_proofs ------------------------
(***************************************************************************)
(* The safety of ActivationLease, for any number of tabs, connections and  *)
(* faults: a tab that takes itself for active holds the lease, or its      *)
(* socket is lost, or its revocation is on its way.                        *)
(***************************************************************************)
EXTENDS ActivationLease, TLAPS

\* A page waits and drives only while it is connected; it has claimed once more
\* than claims were given up.
PageSound(t) ==
  /\ tab[t].status \in {"claiming", "active"} => tab[t].conn = "connected"
  /\ tab[t].conn # "disconnected" => tab[t].n # 0
  /\ tab[t].conn = "reconnecting" => tab[t].n < MaxConnections
  /\ tab[t].claim # 0 => tab[t].claim = tab[t].claims
  /\ tab[t].claims <= faults + 1
  /\ tab[t].status = "idle" /\ tab[t].conn \in {"connecting", "connected"} =>
       tab[t].claims <= faults

\* A socket is opened once, after the tab dialed it; nothing is left for one
\* that was given up.
SocketSound(s) ==
  /\ tab[s[1]].n < s[2] => sock[s].server = "none"
  /\ sock[s].server = "none" => sock[s].up = <<>>
  /\ sock[s].down # <<>> \/ sock[s].doomed => Uses(s) /\ sock[s].server # "none"
  /\ Uses(s) => (sock[s].server = "none" <=> tab[s[1]].conn = "connecting")
  /\ Uses(s) /\ sock[s].server = "gone" => s[2] < MaxConnections

\* What is on its way on the socket of a page: claims the page has made, answers
\* to them, and releases of generations before the one it drives with.
Carries(s) ==
  Uses(s) =>
    /\ \A i \in DOMAIN sock[s].up :
         IF sock[s].up[i].kind = "claim"
         THEN sock[s].up[i].arg \in 1 .. tab[s[1]].claims
         ELSE tab[s[1]].status = "active" /\ sock[s].up[i].arg # tab[s[1]].gen
    /\ \A i \in DOMAIN sock[s].down :
         sock[s].down[i].kind = "result" => sock[s].down[i].id \in 1 .. tab[s[1]].claims

\* The server would answer on s, and told it nothing that takes the lease back.
Stands(s) == sock[s].server = "open" /\ ~sock[s].doomed

Owns(s, gen) == lease # None /\ lease.socket = s /\ lease.generation = gen

\* An answer to the claim the page waits for tells the truth when it is read.
Answered(s) ==
  Uses(s) /\ Stands(s) =>
    \A i \in DOMAIN sock[s].down :
      sock[s].down[i].kind = "result" /\ sock[s].down[i].id = tab[s[1]].claim =>
        Owns(s, sock[s].down[i].gen)

Drives(s) == Uses(s) /\ Stands(s) /\ tab[s[1]].status = "active" => Owns(s, tab[s[1]].gen)

LeaseSound ==
  lease # None =>
    /\ lease.instance = tab[lease.socket[1]].instance
    /\ sock[lease.socket].server # "none"
    /\ lease.grace => sock[lease.socket].server = "gone"

IInv ==
  /\ TypeOK
  /\ \A t \in Tabs : PageSound(t)
  /\ \A s \in Sockets : SocketSound(s) /\ Carries(s) /\ Answered(s) /\ Drives(s)
  /\ LeaseSound

-----------------------------------------------------------------------------
(* Pages and sockets.                                                      *)

Page == [instance : Tabs, status : {"closed", "idle", "claiming", "active", "gated"},
         conn : {"disconnected", "connecting", "connected", "reconnecting"},
         n : 0 .. MaxConnections, claim : 0 .. MaxFaults + 1,
         claims : 0 .. MaxFaults + 1, gen : Nat]

Channel == [server : {"none", "open", "closing", "gone"}, doomed : BOOLEAN,
            up : Seq(Up), down : Seq(Down)]

\* What TypeOK says of one page besides its type.
PageTyped(p) ==
  /\ p \in Page
  /\ p.status = "claiming" <=> p.claim # 0
  /\ p.status \in {"closed", "gated"} <=> p.conn = "disconnected"

LEMMA Typed ==
  TypeOK <=> /\ tab \in [Tabs -> Page] /\ \A t \in Tabs : PageTyped(tab[t])
             /\ sock \in [Sockets -> Channel]
             /\ lease = None \/ lease \in [instance : Tabs, socket : Sockets,
                                           generation : 1 .. generation, grace : BOOLEAN]
             /\ generation \in Nat
             /\ faults \in 0 .. MaxFaults
<1>1. ASSUME tab \in [Tabs -> Page] PROVE \A t \in Tabs : tab[t] \in Page
  BY <1>1
<1> QED BY <1>1 DEF TypeOK, PageTyped, Page, Channel

LEMMA SocketOf ==
  ASSUME NEW t \in Tabs, tab[t].n \in 1 .. MaxConnections
  PROVE  Socket(t) \in Sockets /\ Socket(t)[1] = t /\ Socket(t)[2] = tab[t].n
  BY DEF Socket, Sockets

LEMMA SocketParts ==
  ASSUME NEW s \in Sockets
  PROVE  s[1] \in Tabs /\ s[2] \in 1 .. MaxConnections /\ s = <<s[1], s[2]>>
  BY LeaseAssumption DEF Sockets

LEMMA UsesOwn ==
  ASSUME NEW s \in Sockets
  PROVE  Uses(s) <=> /\ tab[s[1]].conn \in {"connecting", "connected"}
                     /\ s = Socket(s[1])
  BY SocketParts DEF Uses, Socket

\* One page changes, and the lease does not.
LEMMA PageTyping ==
  ASSUME TypeOK, NEW t \in Tabs, NEW p, PageTyped(p), tab' = [tab EXCEPT ![t] = p],
         sock' \in [Sockets -> Channel], UNCHANGED <<lease, generation>>,
         faults' \in 0 .. MaxFaults
  PROVE  TypeOK'
<1>1. tab \in [Tabs -> Page] /\ \A u \in Tabs : PageTyped(tab[u])
  BY Typed
<1>2. tab' \in [Tabs -> Page] /\ \A u \in Tabs : PageTyped(tab'[u])
  BY <1>1 DEF PageTyped
<1>3. \A u \in Tabs : /\ tab'[u].status = "claiming" <=> tab'[u].claim # 0
                      /\ tab'[u].status \in {"closed", "gated"} <=> tab'[u].conn = "disconnected"
  BY <1>2 DEF PageTyped
<1> QED BY <1>2, <1>3 DEF TypeOK, Page, Channel

LEMMA OtherPages ==
  ASSUME TypeOK, NEW t \in Tabs, NEW p, tab' = [tab EXCEPT ![t] = p],
         faults' \in 0 .. MaxFaults, faults <= faults',
         NEW u \in Tabs, u # t, PageSound(u)
  PROVE  PageSound(u)'
<1>1. tab'[u] = tab[u] /\ tab[u] \in Page /\ faults \in Nat /\ faults' \in Nat
  BY Typed, LeaseAssumption
<1>2. tab[u].claims \in Nat
  BY <1>1, LeaseAssumption DEF Page
<1> QED BY <1>1, <1>2 DEF PageSound

\* What the functions of the page return.
LEMMA ClosedPage ==
  ASSUME NEW i \in Tabs, NEW n \in 0 .. MaxConnections
  PROVE  /\ Closed(i, n) \in Page
         /\ Closed(i, n).instance = i /\ Closed(i, n).n = n /\ Closed(i, n).status = "closed"
         /\ Closed(i, n).conn = "disconnected" /\ Closed(i, n).claim = 0
         /\ Closed(i, n).claims = 0
<1>1. 0 \in 0 .. MaxFaults + 1
  BY LeaseAssumption
<1> QED BY <1>1 DEF Closed, Page

LEMMA DialingPage ==
  ASSUME NEW page \in Page, page.n < MaxConnections
  PROVE  /\ Dialing(page) \in Page
         /\ Dialing(page).instance = page.instance /\ Dialing(page).n = page.n + 1
         /\ Dialing(page).status = page.status /\ Dialing(page).conn = "connecting"
         /\ Dialing(page).claim = page.claim /\ Dialing(page).claims = 0
<1>1. 0 \in 0 .. MaxFaults + 1 /\ page.n + 1 \in 0 .. MaxConnections
  BY LeaseAssumption DEF Page
<1> QED BY <1>1 DEF Dialing, Page

LEMMA IdlePage ==
  ASSUME NEW page \in Page
  PROVE  /\ IdleUnlessGated(page) \in Page
         /\ IdleUnlessGated(page).instance = page.instance
         /\ IdleUnlessGated(page).n = page.n /\ IdleUnlessGated(page).conn = page.conn
         /\ IdleUnlessGated(page).claim = 0 /\ IdleUnlessGated(page).claims = page.claims
         /\ IdleUnlessGated(page).status = IF page.status = "gated" THEN "gated" ELSE "idle"
<1>1. 0 \in 0 .. MaxFaults + 1
  BY LeaseAssumption
<1> QED BY <1>1 DEF IdleUnlessGated, Page

\* The values of a state, where arithmetic needs them.
LEMMA Values ==
  ASSUME TypeOK
  PROVE  /\ tab \in [Tabs -> Page] /\ sock \in [Sockets -> Channel]
         /\ generation \in Nat /\ faults \in 0 .. MaxFaults /\ faults \in Nat
         /\ \A t \in Tabs : /\ PageTyped(tab[t]) /\ tab[t] \in Page
                            /\ tab[t].n \in 0 .. MaxConnections /\ tab[t].n \in Nat
                            /\ tab[t].claims \in Nat /\ tab[t].claim \in Nat
  BY Typed, LeaseAssumption DEF Page

-----------------------------------------------------------------------------
(* The tab.                                                                *)

\* A step that leaves the lease alone, keeps the instances of the pages that have
\* a socket, and opens and closes no socket but one that was never open.
LEMMA LeaseStays ==
  ASSUME IInv, UNCHANGED lease,
         \A t \in Tabs : tab[t].n # 0 => tab'[t].instance = tab[t].instance,
         \A s \in Sockets : sock[s].server # "none" => sock'[s].server = sock[s].server
  PROVE  LeaseSound'
<1> SUFFICES ASSUME lease # None
             PROVE  /\ lease.instance = tab'[lease.socket[1]].instance
                    /\ sock'[lease.socket].server # "none"
                    /\ lease.grace => sock'[lease.socket].server = "gone"
  BY DEF LeaseSound
<1>1. lease.socket \in Sockets /\ LeaseSound
  BY DEF IInv, TypeOK
<1>2. /\ lease.socket[1] \in Tabs /\ lease.socket[2] \in 1 .. MaxConnections
      /\ SocketSound(lease.socket)
  BY <1>1, SocketParts DEF IInv
<1>3. tab[lease.socket[1]].n # 0
  BY <1>1, <1>2 DEF LeaseSound, SocketSound
<1> QED BY <1>1, <1>2, <1>3 DEF LeaseSound

\* The page dials its next socket.
LEMMA DialSteps ==
  ASSUME IInv, NEW t \in Tabs, NEW p \in Page,
         tab[t].conn \in {"disconnected", "reconnecting"},
         p.status = "idle", p.conn = "connecting", p.n = tab[t].n + 1, p.claim = 0,
         p.claims = 0, tab[t].n # 0 => p.instance = tab[t].instance,
         tab' = [tab EXCEPT ![t] = p], UNCHANGED <<sock, lease, generation, faults>>
  PROVE  IInv'
<1>1. /\ tab[t] \in Page /\ tab \in [Tabs -> Page] /\ sock \in [Sockets -> Channel]
      /\ tab[t].n \in Nat /\ tab[t].n + 1 # 0 /\ faults \in 0 .. MaxFaults
      /\ 0 <= faults /\ 0 <= faults + 1 /\ faults <= faults
  BY Values DEF IInv
<1>2. tab'[t] = p /\ \A u \in Tabs : u # t => tab'[u] = tab[u]
  BY <1>1
<1>3. TypeOK'
  BY <1>1, <1>2, PageTyping DEF IInv, PageTyped, TypeOK
<1>4. ASSUME NEW u \in Tabs PROVE PageSound(u)'
  <2>1. CASE u = t
    BY <2>1, <1>1, <1>2 DEF PageSound
  <2>2. CASE u # t
    BY <2>2, <1>1, OtherPages DEF IInv
  <2> QED BY <2>1, <2>2
<1>5. ASSUME NEW s \in Sockets PROVE (SocketSound(s) /\ Carries(s) /\ Answered(s) /\ Drives(s))'
  <2>1. SocketSound(s) /\ Carries(s) /\ Answered(s) /\ Drives(s)
    BY DEF IInv
  <2>2. s[1] \in Tabs /\ s[2] \in 1 .. MaxConnections /\ sock[s] \in Channel
    BY SocketParts, <1>1
  <2>3. CASE s[1] # t
    BY <2>1, <2>2, <2>3, <1>2
       DEF SocketSound, Carries, Answered, Drives, Uses, Stands, Owns
  <2>4. CASE s[1] = t
    <3>1. ~Uses(s)
      BY <2>4 DEF Uses
    <3>2. Uses(s)' => sock[s].server = "none" /\ sock[s].up = <<>> /\ sock[s].down = <<>>
      BY <2>1, <2>2, <2>4, <3>1, <1>1, <1>2 DEF SocketSound, Uses
    <3>3. sock'[s] = sock[s]
      OBVIOUS
    <3>4. SocketSound(s)'
      BY <2>1, <2>2, <2>4, <3>1, <3>2, <3>3, <1>1, <1>2 DEF SocketSound, Uses
    <3>5. (Carries(s) /\ Answered(s) /\ Drives(s))'
      BY <2>4, <3>2, <3>3, <1>2 DEF Carries, Answered, Drives, Stands
    <3> QED BY <3>4, <3>5
  <2> QED BY <2>3, <2>4
<1>6. LeaseSound'
  BY <1>2, LeaseStays
<1> QED BY <1>3, <1>4, <1>5, <1>6 DEF IInv

LEMMA LoadSteps ==
  ASSUME IInv, NEW t \in Tabs, Load(t) PROVE IInv'
<1>1. PICK instance \in Instances(t) :
        tab' = [tab EXCEPT ![t] = [Dialing(Closed(instance, tab[t].n)) EXCEPT !.status = "idle"]]
  BY DEF Load
<1> DEFINE c == Closed(instance, tab[t].n)
<1> DEFINE p == [Dialing(c) EXCEPT !.status = "idle"]
<1>2. tab[t].n \in 0 .. MaxConnections /\ \A u \in Tabs : tab[u].instance \in Tabs
  BY Values DEF IInv, Page
<1>3. instance \in Tabs /\ (tab[t].n # 0 => instance = tab[t].instance)
  BY <1>2 DEF Instances
<1>4. c \in Page /\ c.instance = instance /\ c.n = tab[t].n /\ c.claim = 0 /\ c.n < MaxConnections
  BY <1>2, <1>3, ClosedPage DEF Load
<1> HIDE DEF c
<1>5. /\ Dialing(c) \in Page /\ Dialing(c).instance = instance
      /\ Dialing(c).n = tab[t].n + 1 /\ Dialing(c).conn = "connecting"
      /\ Dialing(c).claim = 0 /\ Dialing(c).claims = 0
  BY <1>4, DialingPage
<1>6. /\ p \in Page /\ p.status = "idle" /\ p.conn = "connecting" /\ p.n = tab[t].n + 1
      /\ p.claim = 0 /\ p.claims = 0 /\ p.instance = instance
  BY <1>5 DEF Page
<1>7. tab' = [tab EXCEPT ![t] = p] /\ UNCHANGED <<sock, lease, generation, faults>>
  BY <1>1 DEF Load, c
<1>8. tab[t].conn \in {"disconnected", "reconnecting"}
  BY Values DEF Load, IInv, PageTyped
<1> HIDE DEF p
<1> QED BY <1>3, <1>6, <1>7, <1>8, DialSteps

LEMMA RedialSteps ==
  ASSUME IInv, NEW t \in Tabs, Redials(t) PROVE IInv'
<1>1. tab[t] \in Page /\ PageTyped(tab[t]) /\ PageSound(t)
  BY Values DEF IInv
<1>2. /\ tab[t].n < MaxConnections /\ tab[t].status = "idle" /\ tab[t].claim = 0
  BY <1>1 DEF Redials, PageTyped, PageSound, Page
<1> DEFINE p == Dialing(tab[t])
<1>3. /\ p \in Page /\ p.instance = tab[t].instance /\ p.n = tab[t].n + 1 /\ p.status = "idle"
      /\ p.conn = "connecting" /\ p.claim = 0 /\ p.claims = 0
  BY <1>1, <1>2, DialingPage
<1>4. tab' = [tab EXCEPT ![t] = p] /\ UNCHANGED <<sock, lease, generation, faults>>
  BY DEF Redials
<1>5. tab[t].conn = "reconnecting"
  BY DEF Redials
<1> HIDE DEF p
<1> QED BY <1>3, <1>4, <1>5, DialSteps

\* The page gives up its socket.
LEMMA GiveUpSteps ==
  ASSUME IInv, NEW t \in Tabs, NEW p \in Page, PageTyped(p),
         p.conn \in {"disconnected", "reconnecting"}, p.status \notin {"claiming", "active"},
         p.n = tab[t].n, p.instance = tab[t].instance,
         p.conn = "reconnecting" => p.n # 0 /\ p.n < MaxConnections,
         p.claims <= faults' + 1, faults' \in 0 .. MaxFaults, faults <= faults',
         tab' = [tab EXCEPT ![t] = p], sock' = GivenUp(t), UNCHANGED <<lease, generation>>
  PROVE  IInv'
<1>1. tab \in [Tabs -> Page] /\ sock \in [Sockets -> Channel]
  BY Values DEF IInv
<1>2. tab'[t] = p /\ \A u \in Tabs : u # t => tab'[u] = tab[u]
  BY <1>1
<1>3. ASSUME NEW s \in Sockets
      PROVE  /\ sock'[s] \in Channel
             /\ sock'[s].server = sock[s].server /\ sock'[s].up = sock[s].up
             /\ s = Socket(t) => sock'[s].down = <<>> /\ ~sock'[s].doomed
             /\ s # Socket(t) => sock'[s] = sock[s]
  <2>1. sock'[s] = IF s = Socket(t) THEN [sock[s] EXCEPT !.down = <<>>, !.doomed = FALSE]
                   ELSE sock[s]
    BY DEF GivenUp
  <2>2. sock[s] \in Channel /\ <<>> \in Seq(Down)
    BY <1>1
  <2> QED BY <2>1, <2>2 DEF Channel
<1>4. TypeOK'
  <2>1. sock' \in [Sockets -> Channel]
    BY <1>3 DEF GivenUp
  <2> QED BY <2>1, PageTyping DEF IInv
<1>5. ASSUME NEW u \in Tabs PROVE PageSound(u)'
  <2>1. CASE u = t
    BY <2>1, <1>2 DEF PageSound, PageTyped
  <2>2. CASE u # t
    BY <2>2, <1>1, OtherPages DEF IInv
  <2> QED BY <2>1, <2>2
<1>6. ASSUME NEW s \in Sockets PROVE (SocketSound(s) /\ Carries(s) /\ Answered(s) /\ Drives(s))'
  <2>1. SocketSound(s) /\ Carries(s) /\ Answered(s) /\ Drives(s)
    BY DEF IInv
  <2>2. s[1] \in Tabs /\ sock[s] \in Channel
    BY SocketParts, <1>1
  <2>3. CASE s[1] # t
    <3>1. s # Socket(t)
      BY <2>3 DEF Socket
    <3> QED BY <2>1, <2>2, <2>3, <3>1, <1>2, <1>3
            DEF SocketSound, Carries, Answered, Drives, Uses, Stands, Owns
  <2>4. CASE s[1] = t
    <3>1. ~Uses(s)'
      BY <2>4, <1>2 DEF Uses
    <3>2. sock'[s].down = <<>> /\ ~sock'[s].doomed
      BY <2>1, <2>2, <2>4, <1>3, UsesOwn DEF SocketSound, Channel
    <3> QED BY <2>1, <2>4, <3>1, <3>2, <1>2, <1>3 DEF SocketSound, Carries, Answered, Drives
  <2> QED BY <2>3, <2>4
<1>7. LeaseSound'
  BY <1>2, <1>3, LeaseStays
<1> QED BY <1>4, <1>5, <1>6, <1>7 DEF IInv

LEMMA LeaveSteps ==
  ASSUME IInv, NEW t \in Tabs, Leave(t) PROVE IInv'
<1> DEFINE p == Closed(tab[t].instance, tab[t].n)
<1>1. tab[t] \in Page /\ tab[t].n \in 0 .. MaxConnections /\ faults \in 0 .. MaxFaults
  BY Values DEF IInv
<1>2. /\ p \in Page /\ p.instance = tab[t].instance /\ p.n = tab[t].n /\ p.status = "closed"
      /\ p.conn = "disconnected" /\ p.claim = 0 /\ p.claims = 0
  BY <1>1, ClosedPage DEF Page
<1>3. /\ tab' = [tab EXCEPT ![t] = p] /\ sock' = GivenUp(t) /\ UNCHANGED <<lease, generation>>
      /\ faults' \in 0 .. MaxFaults /\ faults <= faults' /\ 0 <= faults' + 1
  BY <1>1, LeaseAssumption DEF Leave, Fault
<1> HIDE DEF p
<1>4. PageTyped(p)
  BY <1>2 DEF PageTyped
<1> QED BY <1>2, <1>3, <1>4, GiveUpSteps

LEMMA ReconnectSteps ==
  ASSUME IInv, NEW t \in Tabs, NoticesLoss(t) \/ GivesUp(t) PROVE IInv'
<1> DEFINE q == IdleUnlessGated(tab[t])
<1> DEFINE p == [q EXCEPT !.conn = "reconnecting"]
<1>1. /\ tab[t] \in Page /\ PageTyped(tab[t]) /\ PageSound(t) /\ faults \in 0 .. MaxFaults
      /\ tab[t].n \in 0 .. MaxConnections /\ tab[t].claims \in Nat
  BY Values DEF IInv
<1>2. tab[t].conn \in {"connecting", "connected"}
  BY DEF NoticesLoss, GivesUp
<1>3. tab[t].n # 0 /\ tab[t].status \notin {"closed", "gated"}
  BY <1>1, <1>2 DEF PageTyped, PageSound
<1>4. tab[t].n < MaxConnections
  <2>1. CASE NoticesLoss(t)
    <3>1. tab[t].n \in 1 .. MaxConnections
      BY <1>1, <1>3, LeaseAssumption
    <3>2. Socket(t) \in Sockets /\ Socket(t)[1] = t /\ Socket(t)[2] = tab[t].n
      BY <3>1, SocketOf
    <3>3. SocketSound(Socket(t)) /\ Uses(Socket(t))
      BY <1>2, <3>2 DEF IInv, Uses
    <3> QED BY <2>1, <3>2, <3>3 DEF NoticesLoss, SocketSound
  <2>2. CASE GivesUp(t)
    BY <2>2 DEF GivesUp
  <2> QED BY <2>1, <2>2
<1>5. /\ q \in Page /\ q.instance = tab[t].instance /\ q.n = tab[t].n /\ q.status = "idle"
      /\ q.claim = 0 /\ q.claims = tab[t].claims
  BY <1>1, <1>3, IdlePage
<1> HIDE DEF q
<1>6. /\ p \in Page /\ p.instance = tab[t].instance /\ p.n = tab[t].n /\ p.status = "idle"
      /\ p.conn = "reconnecting" /\ p.claim = 0 /\ p.claims = tab[t].claims
  BY <1>5 DEF Page
<1>7. faults' \in 0 .. MaxFaults /\ faults <= faults' /\ tab[t].claims <= faults' + 1
  BY <1>1, LeaseAssumption DEF NoticesLoss, GivesUp, Fault, PageSound
<1>8. tab' = [tab EXCEPT ![t] = p] /\ sock' = GivenUp(t) /\ UNCHANGED <<lease, generation>>
  BY DEF NoticesLoss, GivesUp, Reconnects, q
<1> HIDE DEF p
<1>9. PageTyped(p)
  BY <1>6 DEF PageTyped
<1> QED BY <1>3, <1>4, <1>6, <1>7, <1>8, <1>9, GiveUpSteps

\* What the client reads is a message that was on its way.
LEMMA Reads ==
  ASSUME IInv, NEW t \in Tabs, tab[t].conn = "connected", sock[Socket(t)].down # <<>>
  PROVE  /\ Socket(t) \in Sockets /\ Socket(t)[1] = t /\ Uses(Socket(t))
         /\ Head(sock[Socket(t)].down) = sock[Socket(t)].down[1]
         /\ 1 \in DOMAIN sock[Socket(t)].down
         /\ Head(sock[Socket(t)].down) \in Down
<1>1. /\ tab[t].n \in 0 .. MaxConnections /\ PageSound(t) /\ sock \in [Sockets -> Channel]
  BY Values DEF IInv
<1>2. tab[t].n \in 1 .. MaxConnections
  BY <1>1, LeaseAssumption DEF PageSound
<1>3. Socket(t) \in Sockets /\ Socket(t)[1] = t /\ Uses(Socket(t))
  BY <1>2, SocketOf DEF Uses
<1>4. sock[Socket(t)].down \in Seq(Down)
  BY <1>1, <1>3 DEF Channel
<1> QED BY <1>3, <1>4

LEMMA GatedSteps ==
  ASSUME IInv, NEW t \in Tabs, tab[t].conn = "connected", sock[Socket(t)].down # <<>>,
         Gated(t, Head(sock[Socket(t)].down)), UNCHANGED <<lease, generation, faults>>
  PROVE  IInv'
<1> DEFINE msg == Head(sock[Socket(t)].down)
<1> DEFINE g == [tab[t] EXCEPT !.status = "gated"]
<1> DEFINE q == IdleUnlessGated(g)
<1> DEFINE p == [q EXCEPT !.gen = msg.gen, !.conn = "disconnected"]
<1>1. tab[t] \in Page /\ faults \in 0 .. MaxFaults /\ PageSound(t) /\ faults <= faults
  BY Values DEF IInv
<1>2. msg.gen \in Nat
  BY Reads DEF Down
<1> HIDE DEF msg
<1>3. /\ g \in Page /\ g.instance = tab[t].instance /\ g.n = tab[t].n /\ g.status = "gated"
      /\ g.claims = tab[t].claims
  BY <1>1 DEF Page
<1> HIDE DEF g
<1>4. /\ q \in Page /\ q.instance = tab[t].instance /\ q.n = tab[t].n /\ q.status = "gated"
      /\ q.claim = 0 /\ q.claims = tab[t].claims
  BY <1>3, IdlePage
<1> HIDE DEF q
<1>5. /\ p \in Page /\ p.instance = tab[t].instance /\ p.n = tab[t].n /\ p.status = "gated"
      /\ p.conn = "disconnected" /\ p.claim = 0 /\ p.claims = tab[t].claims
  BY <1>2, <1>4 DEF Page
<1>6. tab' = [tab EXCEPT ![t] = p] /\ sock' = GivenUp(t)
  BY DEF Gated, q, g, msg
<1> HIDE DEF p
<1>7. PageTyped(p) /\ p.claims <= faults' + 1
  BY <1>1, <1>5 DEF PageTyped, PageSound
<1> QED BY <1>1, <1>5, <1>6, <1>7, GiveUpSteps

\* The page that is connected on s, or learns that it is, changes, and what is
\* on its way on s.
LEMMA UseSteps ==
  ASSUME IInv, NEW t \in Tabs, NEW p \in Page, NEW s \in Sockets, NEW c \in Channel,
         s = Socket(t), tab[t].conn \in {"connecting", "connected"},
         PageTyped(p), p.n = tab[t].n, p.instance = tab[t].instance, p.conn = "connected",
         p.claim # 0 => p.claim = p.claims,
         p.claims <= faults' + 1, p.status = "idle" => p.claims <= faults',
         faults' \in 0 .. MaxFaults, faults <= faults',
         c.server # "none",
         sock[s].server # "none" => c.server = sock[s].server,
         sock[s].server = "none" => c.server = "open",
         tab' = [tab EXCEPT ![t] = p], sock' = [sock EXCEPT ![s] = c],
         UNCHANGED <<lease, generation>>,
         Carries(s)', Answered(s)', Drives(s)'
  PROVE  IInv'
<1>1. tab \in [Tabs -> Page] /\ sock \in [Sockets -> Channel]
  BY Values DEF IInv
<1>2. /\ tab'[t] = p /\ \A u \in Tabs : u # t => tab'[u] = tab[u]
      /\ sock'[s] = c /\ \A r \in Sockets : r # s => sock'[r] = sock[r]
  BY <1>1
<1>3. s[1] = t /\ s[2] = tab[t].n /\ Uses(s)
  BY DEF Socket, Uses
<1>4. tab[t].n \in 1 .. MaxConnections /\ ~(tab[t].n < tab[t].n)
  BY <1>3, SocketParts
<1>5. TypeOK'
  <2>1. sock' \in [Sockets -> Channel]
    BY <1>1
  <2> QED BY <2>1, PageTyping DEF IInv
<1>6. ASSUME NEW u \in Tabs PROVE PageSound(u)'
  <2>1. CASE u = t
    BY <2>1, <1>2, <1>4 DEF PageSound
  <2>2. CASE u # t
    BY <2>2, <1>1, OtherPages DEF IInv
  <2> QED BY <2>1, <2>2
<1>7. ASSUME NEW r \in Sockets PROVE (SocketSound(r) /\ Carries(r) /\ Answered(r) /\ Drives(r))'
  <2>1. SocketSound(r) /\ Carries(r) /\ Answered(r) /\ Drives(r)
    BY DEF IInv
  <2>2. r[1] \in Tabs /\ r[2] \in 1 .. MaxConnections /\ r = <<r[1], r[2]>>
    BY SocketParts
  <2>3. CASE r[1] # t
    <3>1. r # s
      BY <2>3, <1>3
    <3> QED BY <2>1, <2>2, <2>3, <3>1, <1>2
            DEF SocketSound, Carries, Answered, Drives, Uses, Stands, Owns
  <2>4. CASE r = s
    <3>1. SocketSound(s)'
      BY <2>1, <2>4, <1>2, <1>3, <1>4 DEF SocketSound, Uses
    <3> QED BY <2>4, <3>1
  <2>5. CASE r[1] = t /\ r # s
    <3>1. ~Uses(r) /\ ~Uses(r)'
      BY <2>2, <2>5, <1>2, <1>3 DEF Uses, Socket
    <3>2. sock'[r] = sock[r] /\ tab'[r[1]].n = tab[r[1]].n
      BY <2>5, <1>2
    <3> QED BY <2>1, <3>1, <3>2 DEF SocketSound, Carries, Answered, Drives
  <2> QED BY <2>3, <2>4, <2>5
<1>8. LeaseSound'
  BY <1>2, LeaseStays
<1> QED BY <1>5, <1>6, <1>7, <1>8 DEF IInv

\* The socket of a page that dials or is connected.
LEMMA UsedSocket ==
  ASSUME IInv, NEW t \in Tabs, tab[t].conn \in {"connecting", "connected"}
  PROVE  /\ Socket(t) \in Sockets /\ Socket(t)[1] = t /\ Uses(Socket(t))
         /\ sock[Socket(t)] \in Channel
         /\ SocketSound(Socket(t)) /\ Carries(Socket(t)) /\ Answered(Socket(t))
         /\ Drives(Socket(t)) /\ PageSound(t)
<1>1. /\ tab[t].n \in 0 .. MaxConnections /\ PageSound(t) /\ sock \in [Sockets -> Channel]
  BY Values DEF IInv
<1>2. tab[t].n \in 1 .. MaxConnections
  BY <1>1, LeaseAssumption DEF PageSound
<1>3. Socket(t) \in Sockets /\ Socket(t)[1] = t /\ Uses(Socket(t))
  BY <1>2, SocketOf DEF Uses
<1> QED BY <1>1, <1>3 DEF IInv

LEMMA OpensSteps ==
  ASSUME IInv, NEW t \in Tabs, Opens(t) PROVE IInv'
<1>0. PICK s \in Sockets : s = Socket(t)
  BY UsedSocket DEF Opens
<1>1. tab[t].conn = "connecting" /\ UNCHANGED <<lease, generation, faults>>
  BY DEF Opens
<1> DEFINE p == [tab[t] EXCEPT !.conn = "connected"]
<1> DEFINE c == [sock[s] EXCEPT !.server = "open"]
<1>2. /\ s \in Sockets /\ s[1] = t /\ Uses(s) /\ sock[s] \in Channel /\ SocketSound(s)
      /\ PageSound(t)
  BY <1>0, <1>1, UsedSocket
<1>3. /\ tab \in [Tabs -> Page] /\ sock \in [Sockets -> Channel] /\ tab[t] \in Page
      /\ PageTyped(tab[t]) /\ faults \in 0 .. MaxFaults /\ faults <= faults
      /\ faults \in Nat /\ tab[t].claims \in Nat
  BY Values DEF IInv
<1>4. tab' = [tab EXCEPT ![t] = p] /\ sock' = [sock EXCEPT ![s] = c]
  BY <1>0, <1>2, <1>3 DEF Opens
<1>5. sock[s].server = "none" /\ sock[s].up = <<>> /\ sock[s].down = <<>>
  BY <1>1, <1>2 DEF SocketSound
<1>6. tab[t].status = "idle"
  BY <1>1, <1>2, <1>3 DEF PageSound, PageTyped, Page
<1>7. /\ p \in Page /\ p.conn = "connected" /\ p.status = "idle" /\ p.n = tab[t].n
      /\ p.instance = tab[t].instance /\ p.claim = tab[t].claim /\ p.claims = tab[t].claims
  BY <1>3, <1>6 DEF Page
<1>8. c \in Channel /\ c.server = "open" /\ c.up = <<>> /\ c.down = <<>>
  BY <1>2, <1>5 DEF Channel
<1> HIDE DEF p, c
<1>9. PageTyped(p)
  BY <1>3, <1>6, <1>7 DEF PageTyped
<1>10. Carries(s)' /\ Answered(s)' /\ Drives(s)'
  <2>1. sock'[s] = c /\ tab'[t] = p
    BY <1>2, <1>3, <1>4
  <2> QED BY <2>1, <1>2, <1>7, <1>8 DEF Carries, Answered, Drives
<1>11. p.claims <= faults + 1 /\ p.claims <= faults /\ (p.claim # 0 => p.claim = p.claims)
  BY <1>1, <1>2, <1>3, <1>6, <1>7 DEF PageSound
<1> QED BY <1>0, <1>1, <1>2, <1>3, <1>4, <1>5, <1>7, <1>8, <1>9, <1>10, <1>11, UseSteps

\* What is appended to and taken from a queue.
LEMMA Appended ==
  ASSUME NEW S, NEW q \in Seq(S), NEW m \in S
  PROVE  /\ Append(q, m) \in Seq(S)
         /\ \A i \in DOMAIN Append(q, m) :
              Append(q, m)[i] = m \/ (i \in DOMAIN q /\ Append(q, m)[i] = q[i])
  OBVIOUS

LEMMA Taken ==
  ASSUME NEW S, NEW q \in Seq(S), q # <<>>
  PROVE  /\ Head(q) = q[1] /\ 1 \in DOMAIN q /\ Head(q) \in S
         /\ Tail(q) \in Seq(S)
         /\ \A i \in DOMAIN Tail(q) : i + 1 \in DOMAIN q /\ Tail(q)[i] = q[i + 1]
  OBVIOUS

LEMMA ClaimSteps ==
  ASSUME IInv, NEW t \in Tabs, Claim(t) PROVE IInv'
<1>1. PICK s \in Sockets : s = Socket(t)
  BY UsedSocket DEF Claim
<1> DEFINE id == tab[t].claims + 1
<1> DEFINE p == [tab[t] EXCEPT !.status = "claiming", !.claim = id, !.claims = id]
<1> DEFINE m == [kind |-> "claim", arg |-> id]
<1> DEFINE c == [sock[s] EXCEPT !.up = Append(@, m)]
<1>2. /\ tab[t].conn = "connected" /\ tab[t].status = "idle"
      /\ UNCHANGED <<lease, generation, faults>>
  BY DEF Claim
<1>3. /\ s[1] = t /\ Uses(s) /\ sock[s] \in Channel /\ SocketSound(s) /\ Carries(s)
      /\ PageSound(t)
  BY <1>1, <1>2, UsedSocket
<1>4. /\ tab \in [Tabs -> Page] /\ sock \in [Sockets -> Channel] /\ tab[t] \in Page
      /\ PageTyped(tab[t]) /\ faults \in 0 .. MaxFaults /\ faults <= faults
      /\ faults \in Nat /\ tab[t].claims \in Nat
  BY Values DEF IInv
<1>5. tab' = [tab EXCEPT ![t] = p] /\ sock' = [sock EXCEPT ![s] = c]
  BY <1>1, <1>3, <1>4 DEF Claim
<1>6. id \in 1 .. MaxFaults + 1 /\ id \in 0 .. MaxFaults + 1 /\ id <= faults + 1 /\ id # 0
      /\ id \in Nat /\ tab[t].claims < id
  BY <1>2, <1>3, <1>4, LeaseAssumption DEF PageSound
<1> HIDE DEF id
<1>7. /\ p \in Page /\ p.conn = "connected" /\ p.status = "claiming" /\ p.n = tab[t].n
      /\ p.instance = tab[t].instance /\ p.claim = id /\ p.claims = id
  BY <1>2, <1>4, <1>6 DEF Page
<1>8. /\ c \in Channel /\ c.server = sock[s].server /\ c.doomed = sock[s].doomed
      /\ c.up = Append(sock[s].up, m) /\ c.down = sock[s].down
  <2>1. m \in Up /\ sock[s].up \in Seq(Up)
    BY <1>3, <1>6 DEF Channel, Up
  <2>2. Append(sock[s].up, m) \in Seq(Up)
    BY <2>1
  <2> QED BY <2>2, <1>3 DEF Channel
<1> HIDE DEF p, c
<1>9. PageTyped(p)
  BY <1>7, <1>6 DEF PageTyped
<1>10. sock'[s] = c /\ tab'[t] = p
  BY <1>4, <1>5
<1>11. Carries(s)'
  <2>1. /\ \A i \in DOMAIN sock[s].up : sock[s].up[i].kind = "claim"
                                        /\ sock[s].up[i].arg \in 1 .. tab[t].claims
        /\ \A i \in DOMAIN sock[s].down : sock[s].down[i].kind = "result" =>
                                            sock[s].down[i].id \in 1 .. tab[t].claims
    BY <1>2, <1>3 DEF Carries
  <2>2. \A k \in 1 .. tab[t].claims : k \in 1 .. id
    BY <1>4, <1>6
  <2>3. id \in 1 .. id
    BY <1>6
  <2>4. ASSUME NEW i \in DOMAIN c.up
        PROVE  c.up[i].kind = "claim" /\ c.up[i].arg \in 1 .. id
    <3>1. sock[s].up \in Seq(Up)
      BY <1>3 DEF Channel
    <3>2. CASE i \in DOMAIN sock[s].up
      BY <3>1, <3>2, <1>8, <2>1, <2>2
    <3>3. CASE i \notin DOMAIN sock[s].up
      <4>1. c.up[i] = m
        BY <3>1, <3>3, <1>8
      <4> QED BY <4>1, <2>3
    <3> QED BY <3>2, <3>3
  <2> QED BY <2>1, <2>2, <2>4, <1>3, <1>7, <1>8, <1>10 DEF Carries
<1>12. Answered(s)'
  <2>1. \A i \in DOMAIN sock[s].down : sock[s].down[i].kind = "result" =>
                                         sock[s].down[i].id # id
    BY <1>3, <1>4, <1>6 DEF Carries
  <2> QED BY <2>1, <1>3, <1>7, <1>8, <1>10 DEF Answered
<1>13. Drives(s)'
  BY <1>3, <1>7, <1>10 DEF Drives
<1>14. sock[s].server # "none"
  BY <1>2, <1>3 DEF SocketSound
<1> QED BY <1>1, <1>2, <1>3, <1>4, <1>5, <1>6, <1>7, <1>8, <1>9, <1>11, <1>12, <1>13, <1>14,
           UseSteps

LEMMA TimeoutSteps ==
  ASSUME IInv, NEW t \in Tabs, ClaimTimesOut(t) PROVE IInv'
<1>1. tab[t].status = "claiming" /\ tab[t].conn = "connected"
  BY Values DEF ClaimTimesOut, IInv, PageTyped, PageSound
<1>2. PICK s \in Sockets : s = Socket(t)
  BY <1>1, UsedSocket
<1> DEFINE p == IdleUnlessGated(tab[t])
<1>3. /\ s[1] = t /\ Uses(s) /\ sock[s] \in Channel /\ SocketSound(s) /\ Carries(s)
      /\ PageSound(t)
  BY <1>1, <1>2, UsedSocket
<1>4. /\ tab \in [Tabs -> Page] /\ sock \in [Sockets -> Channel] /\ tab[t] \in Page
      /\ faults \in 0 .. MaxFaults /\ faults \in Nat /\ tab[t].claims \in Nat
  BY Values DEF IInv
<1>5. /\ p \in Page /\ p.conn = "connected" /\ p.status = "idle" /\ p.n = tab[t].n
      /\ p.instance = tab[t].instance /\ p.claim = 0 /\ p.claims = tab[t].claims
  BY <1>1, <1>4, IdlePage
<1>6. /\ tab' = [tab EXCEPT ![t] = p] /\ sock' = [sock EXCEPT ![s] = sock[s]]
      /\ sock' = sock /\ UNCHANGED <<lease, generation>>
      /\ faults' \in 0 .. MaxFaults /\ faults <= faults' /\ faults' = faults + 1
      /\ p.claims <= faults' /\ p.claims <= faults' + 1
  BY <1>3, <1>4, <1>5, LeaseAssumption DEF ClaimTimesOut, Fault, PageSound
<1> HIDE DEF p
<1>7. PageTyped(p)
  BY <1>5 DEF PageTyped
<1>8. tab'[t] = p
  BY <1>4, <1>6
<1>9. Carries(s)'
  BY <1>1, <1>3, <1>5, <1>6, <1>8 DEF Carries
<1>10. Answered(s)'
  <2>1. \A i \in DOMAIN sock[s].down : sock[s].down[i].kind = "result" =>
                                         sock[s].down[i].id # 0
    BY <1>3, <1>4 DEF Carries
  <2> QED BY <2>1, <1>3, <1>5, <1>6, <1>8 DEF Answered
<1>11. Drives(s)'
  BY <1>3, <1>5, <1>8 DEF Drives
<1>12. sock[s].server # "none"
  BY <1>1, <1>3 DEF SocketSound
<1> QED BY <1>1, <1>2, <1>3, <1>5, <1>6, <1>7, <1>9, <1>10, <1>11, <1>12, UseSteps

LEMMA GrantedSteps ==
  ASSUME IInv, NEW t \in Tabs, tab[t].conn = "connected", sock[Socket(t)].down # <<>>,
         Head(sock[Socket(t)].down).kind = "result",
         Granted(t, Head(sock[Socket(t)].down)), UNCHANGED <<lease, generation, faults>>
  PROVE  IInv'
<1>1. PICK s \in Sockets : s = Socket(t)
  BY UsedSocket
<1>2. /\ s[1] = t /\ Uses(s) /\ sock[s] \in Channel /\ SocketSound(s) /\ Carries(s)
      /\ Answered(s) /\ Drives(s) /\ PageSound(t) /\ sock[s].server # "none"
  BY <1>1, UsedSocket DEF SocketSound
<1>3. /\ tab \in [Tabs -> Page] /\ sock \in [Sockets -> Channel] /\ tab[t] \in Page
      /\ PageTyped(tab[t]) /\ faults \in 0 .. MaxFaults /\ faults <= faults
      /\ faults \in Nat /\ tab[t].claims \in Nat
  BY Values DEF IInv
<1>4. sock[s].down \in Seq(Down) /\ sock[s].up \in Seq(Up)
  BY <1>2 DEF Channel
<1> DEFINE msg == Head(sock[s].down)
<1>5. /\ msg = sock[s].down[1] /\ 1 \in DOMAIN sock[s].down /\ msg \in Down
      /\ msg.gen \in Nat /\ msg.kind = "result"
      /\ Tail(sock[s].down) \in Seq(Down)
      /\ \A i \in DOMAIN Tail(sock[s].down) :
           i + 1 \in DOMAIN sock[s].down /\ Tail(sock[s].down)[i] = sock[s].down[i + 1]
  <2>1. sock[s].down # <<>> /\ msg.kind = "result"
    BY <1>1
  <2>2. msg \in Down
    BY <2>1, <1>4, Taken
  <2>3. msg.gen \in Nat
    BY <2>2 DEF Down
  <2> QED BY <2>1, <2>2, <2>3, <1>4, Taken
<1>6. msg.id # 0 /\ (tab[t].claim = msg.id => tab[t].status = "claiming")
  BY <1>2, <1>3, <1>5 DEF Carries, PageTyped
<1>7. Granted(t, msg)
  BY <1>1
<1> HIDE DEF msg
<1>8. CASE tab[t].claim # msg.id
  <2> DEFINE c == [sock[s] EXCEPT !.down = Tail(@)]
  <2>1. /\ tab' = [tab EXCEPT ![t] = tab[t]] /\ tab' = tab /\ sock' = [sock EXCEPT ![s] = c]
    BY <1>1, <1>3, <1>7, <1>8 DEF Granted
  <2>2. /\ c \in Channel /\ c.server = sock[s].server /\ c.doomed = sock[s].doomed
        /\ c.up = sock[s].up /\ c.down = Tail(sock[s].down)
    BY <1>2, <1>5 DEF Channel
  <2> HIDE DEF c
  <2>3. sock'[s] = c /\ tab'[t] = tab[t]
    BY <2>1, <1>3
  <2>4. Carries(s)' /\ Answered(s)' /\ Drives(s)'
    <3>1. Carries(s)'
      <4>1. \A i \in DOMAIN c.down : c.down[i].kind = "result" =>
                                       c.down[i].id \in 1 .. tab[t].claims
        BY <1>2, <1>5, <2>2 DEF Carries
      <4> QED BY <4>1, <1>2, <2>2, <2>3 DEF Carries
    <3>2. Answered(s)'
      <4>1. Stands(s) => \A i \in DOMAIN c.down :
                           c.down[i].kind = "result" /\ c.down[i].id = tab[t].claim =>
                             Owns(s, c.down[i].gen)
        BY <1>2, <1>5, <2>2 DEF Answered
      <4> QED BY <4>1, <1>2, <2>2, <2>3 DEF Answered, Stands, Owns
    <3>3. Drives(s)'
      BY <1>2, <2>1, <2>2, <2>3 DEF Drives, Stands, Owns
    <3> QED BY <3>1, <3>2, <3>3
  <2>5. /\ tab[t].claims <= faults + 1 /\ (tab[t].claim # 0 => tab[t].claim = tab[t].claims)
        /\ (tab[t].status = "idle" => tab[t].claims <= faults)
    BY <1>2 DEF PageSound
  <2> QED BY <1>1, <1>2, <1>3, <2>1, <2>2, <2>4, <2>5, UseSteps
<1>9. CASE tab[t].claim = msg.id
  <2> DEFINE p == [tab[t] EXCEPT !.status = "active", !.claim = 0, !.gen = msg.gen]
  <2> DEFINE r == [kind |-> "release", arg |-> tab[t].gen]
  <2> DEFINE u == IF tab[t].gen \in {0, msg.gen} THEN sock[s].up ELSE Append(sock[s].up, r)
  <2> DEFINE c == [sock[s] EXCEPT !.down = Tail(@), !.up = u]
  <2>1. 0 \in 0 .. MaxFaults + 1 /\ tab[t].gen \in Nat
    BY <1>3, LeaseAssumption DEF Page
  <2>2. tab' = [tab EXCEPT ![t] = p] /\ sock' = [sock EXCEPT ![s] = c]
    BY <1>1, <1>2, <1>3, <1>7, <1>9 DEF Granted
  <2>3. /\ p \in Page /\ p.status = "active" /\ p.conn = "connected" /\ p.n = tab[t].n
        /\ p.instance = tab[t].instance /\ p.claim = 0 /\ p.claims = tab[t].claims
        /\ p.gen = msg.gen
    BY <2>1, <1>3, <1>5 DEF Page
  <2>4. r \in Up /\ r.kind = "release" /\ r.arg = tab[t].gen
    BY <2>1 DEF Up
  <2> HIDE DEF r
  <2>5. /\ u \in Seq(Up)
        /\ \A i \in DOMAIN u : \/ i \in DOMAIN sock[s].up /\ u[i] = sock[s].up[i]
                               \/ u[i] = r /\ tab[t].gen # msg.gen
    BY <2>4, <1>4, Appended
  <2> HIDE DEF u
  <2>6. /\ c \in Channel /\ c.server = sock[s].server /\ c.doomed = sock[s].doomed
        /\ c.up = u /\ c.down = Tail(sock[s].down)
    BY <1>2, <1>5, <2>5 DEF Channel
  <2> HIDE DEF p, c
  <2>7. sock'[s] = c /\ tab'[t] = p
    BY <2>2, <1>3
  <2>8. Carries(s)'
    <3>1. \A i \in DOMAIN sock[s].up : sock[s].up[i].kind = "claim"
                                       /\ sock[s].up[i].arg \in 1 .. tab[t].claims
      BY <1>2, <1>6, <1>9 DEF Carries
    <3>2. \A i \in DOMAIN u : IF u[i].kind = "claim" THEN u[i].arg \in 1 .. tab[t].claims
                              ELSE u[i].arg # msg.gen
      BY <3>1, <2>4, <2>5
    <3>3. \A i \in DOMAIN c.down : c.down[i].kind = "result" =>
                                     c.down[i].id \in 1 .. tab[t].claims
      BY <1>2, <1>5, <2>6 DEF Carries
    <3> QED BY <3>2, <3>3, <1>2, <2>3, <2>6, <2>7 DEF Carries
  <2>9. Answered(s)'
    <3>1. \A i \in DOMAIN c.down : c.down[i].kind = "result" => c.down[i].id # 0
      BY <1>2, <1>3, <1>5, <2>6 DEF Carries
    <3> QED BY <3>1, <1>2, <2>3, <2>7 DEF Answered
  <2>10. Drives(s)'
    <3>1. Stands(s)' => Owns(s, msg.gen)
      BY <1>2, <1>5, <1>9, <2>6, <2>7 DEF Stands, Answered
    <3> QED BY <3>1, <1>2, <2>3, <2>7 DEF Drives, Owns
  <2>11. PageTyped(p) /\ p.claims <= faults + 1
    BY <2>3, <1>2 DEF PageTyped, PageSound
  <2> QED BY <1>1, <1>2, <1>3, <2>2, <2>3, <2>6, <2>8, <2>9, <2>10, <2>11, UseSteps
<1> QED BY <1>8, <1>9

LEMMA ReceiveSteps ==
  ASSUME IInv, NEW t \in Tabs, ClientReceives(t) PROVE IInv'
  BY GrantedSteps, GatedSteps DEF ClientReceives

-----------------------------------------------------------------------------
(* The server.                                                             *)

LEMMA ServerTyping ==
  ASSUME TypeOK, UNCHANGED tab, sock' \in [Sockets -> Channel], generation' \in Nat,
         faults' \in 0 .. MaxFaults,
         lease' = None \/ lease' \in [instance : Tabs, socket : Sockets,
                                      generation : 1 .. generation', grace : BOOLEAN]
  PROVE  TypeOK'
  BY DEF TypeOK, Channel

LEMMA PagesStay ==
  ASSUME IInv, UNCHANGED tab, faults' \in 0 .. MaxFaults, faults <= faults', NEW t \in Tabs
  PROVE  PageSound(t)'
<1>1. PageSound(t) /\ faults \in Nat /\ faults' \in Nat /\ tab[t].claims \in Nat
  BY Values, LeaseAssumption DEF IInv
<1> QED BY <1>1 DEF PageSound

\* A socket on which nothing changes, and whose tab keeps its page.
LEMMA Untouched ==
  ASSUME IInv, NEW r \in Sockets, UNCHANGED tab, sock'[r] = sock[r],
         Stands(r) => UNCHANGED lease
  PROVE  (SocketSound(r) /\ Carries(r) /\ Answered(r) /\ Drives(r))'
<1>1. SocketSound(r) /\ Carries(r) /\ Answered(r) /\ Drives(r)
  BY DEF IInv
<1> QED BY <1>1 DEF SocketSound, Carries, Answered, Drives, Uses, Stands, Owns

LEMMA ReceivedFrom ==
  ASSUME sock \in [Sockets -> Channel], NEW s \in Sockets, sock[s].up # <<>>
  PROVE  /\ Received(s) \in [Sockets -> Channel]
         /\ \A r \in Sockets : r # s => Received(s)[r] = sock[r]
         /\ Received(s)[s].server = sock[s].server /\ Received(s)[s].doomed = sock[s].doomed
         /\ Received(s)[s].down = sock[s].down
         /\ Received(s)[s].up \in Seq(Up)
         /\ \A i \in DOMAIN Received(s)[s].up :
              i + 1 \in DOMAIN sock[s].up /\ Received(s)[s].up[i] = sock[s].up[i + 1]
<1>1. sock[s] \in Channel /\ sock[s].up \in Seq(Up)
  BY DEF Channel
<1>2. /\ Tail(sock[s].up) \in Seq(Up)
      /\ \A i \in DOMAIN Tail(sock[s].up) :
           i + 1 \in DOMAIN sock[s].up /\ Tail(sock[s].up)[i] = sock[s].up[i + 1]
  BY <1>1, Taken
<1> DEFINE c == [sock[s] EXCEPT !.up = Tail(@)]
<1>3. /\ c \in Channel /\ c.server = sock[s].server /\ c.doomed = sock[s].doomed
      /\ c.down = sock[s].down /\ c.up = Tail(sock[s].up)
  BY <1>1, <1>2 DEF Channel
<1>4. Received(s) = [sock EXCEPT ![s] = c]
  BY DEF Received
<1> HIDE DEF c
<1>5. Received(s)[s] = c /\ \A r \in Sockets : r # s => Received(s)[r] = sock[r]
  BY <1>4
<1>6. Received(s) \in [Sockets -> Channel]
  BY <1>3, <1>4
<1> QED BY <1>2, <1>3, <1>5, <1>6

LEMMA SentTo ==
  ASSUME NEW sk \in [Sockets -> Channel], NEW s \in Sockets, NEW m \in Down
  PROVE  /\ Sent(sk, s, m) \in [Sockets -> Channel]
         /\ \A r \in Sockets : r # s => Sent(sk, s, m)[r] = sk[r]
         /\ Sent(sk, s, m)[s].server = sk[s].server /\ Sent(sk, s, m)[s].up = sk[s].up
         /\ Sent(sk, s, m)[s].doomed = sk[s].doomed
         /\ Sent(sk, s, m)[s].down = IF Reaches(sk, s) THEN Append(sk[s].down, m)
                                     ELSE sk[s].down
<1> DEFINE c == [sk[s] EXCEPT !.down = Append(@, m)]
<1>1. sk[s] \in Channel /\ sk[s].down \in Seq(Down)
  BY DEF Channel
<1>2. Append(sk[s].down, m) \in Seq(Down)
  BY <1>1, Appended
<1>3. /\ c \in Channel /\ c.server = sk[s].server /\ c.doomed = sk[s].doomed
      /\ c.up = sk[s].up /\ c.down = Append(sk[s].down, m)
  BY <1>1, <1>2 DEF Channel
<1>4. Sent(sk, s, m) = IF Reaches(sk, s) THEN [sk EXCEPT ![s] = c] ELSE sk
  BY DEF Sent
<1> HIDE DEF c
<1> QED BY <1>3, <1>4

LEMMA RevokedFrom ==
  ASSUME NEW sk \in [Sockets -> Channel], NEW s \in Sockets, NEW gen \in Nat
  PROVE  /\ Revoked(sk, s, gen) \in [Sockets -> Channel]
         /\ \A r \in Sockets : r # s => Revoked(sk, s, gen)[r] = sk[r]
         /\ Revoked(sk, s, gen)[s].server = sk[s].server
         /\ Revoked(sk, s, gen)[s].up = sk[s].up
         /\ ~Reaches(sk, s) => Revoked(sk, s, gen)[s] = sk[s]
         /\ Reaches(sk, s) =>
              /\ Revoked(sk, s, gen)[s].doomed
              /\ Revoked(sk, s, gen)[s].down =
                   Append(sk[s].down, [kind |-> "revoked", id |-> 0, gen |-> gen])
<1> DEFINE m == [kind |-> "revoked", id |-> 0, gen |-> gen]
<1> DEFINE sent == Sent(sk, s, m)
<1>1. m \in Down
  BY DEF Down
<1>2. /\ sent \in [Sockets -> Channel]
      /\ \A r \in Sockets : r # s => sent[r] = sk[r]
      /\ sent[s].server = sk[s].server /\ sent[s].up = sk[s].up
      /\ Reaches(sk, s) => sent[s].down = Append(sk[s].down, m)
  BY <1>1, SentTo
<1>3. s # None
  BY LeaseAssumption DEF Sockets
<1>4. Revoked(sk, s, gen) = IF Reaches(sk, s)
                            THEN [sent EXCEPT ![s] = [sent[s] EXCEPT !.doomed = TRUE]] ELSE sk
  BY <1>3 DEF Revoked
<1> HIDE DEF sent, m
<1>5. /\ [sent[s] EXCEPT !.doomed = TRUE] \in Channel
      /\ [sent[s] EXCEPT !.doomed = TRUE].server = sent[s].server
      /\ [sent[s] EXCEPT !.doomed = TRUE].up = sent[s].up
      /\ [sent[s] EXCEPT !.doomed = TRUE].down = sent[s].down
      /\ [sent[s] EXCEPT !.doomed = TRUE].doomed
  BY <1>2 DEF Channel
<1> QED BY <1>2, <1>4, <1>5 DEF m

\* Whom a claim displaces: the holder, unless it is lost or the claim is its own.
LEMMA Displacing ==
  ASSUME IInv, NEW s \in Sockets,
         NEW inGrace \in IF lease # None THEN {FALSE, lease.grace} ELSE {FALSE}
  PROVE  /\ Displaced(s, inGrace) # None =>
              /\ lease # None /\ Displaced(s, inGrace) = lease.socket
              /\ Displaced(s, inGrace) \in Sockets /\ Displaced(s, inGrace) # s
         /\ lease # None /\ lease.socket # s /\ Stands(lease.socket) =>
              Displaced(s, inGrace) = lease.socket
         /\ NextGeneration(s) \in Nat \ {0}
         /\ lease # None /\ lease.socket = s => NextGeneration(s) = lease.generation
         /\ lease # None /\ NextGeneration(s) # generation + 1 =>
              NextGeneration(s) = lease.generation /\ lease.generation <= generation
<1>1. /\ lease # None => /\ lease.socket \in Sockets /\ lease.generation \in 1 .. generation
                         /\ lease.grace \in BOOLEAN
      /\ generation \in Nat /\ LeaseSound
  BY DEF IInv, TypeOK
<1>2. /\ Displaced(s, inGrace) # None =>
           lease # None /\ Displaced(s, inGrace) = lease.socket
      /\ lease # None /\ lease.socket = s => Displaced(s, inGrace) = None
  BY <1>1 DEF Displaced, LeaseSound
<1>3. ASSUME lease # None, lease.socket # s, Stands(lease.socket)
      PROVE  Displaced(s, inGrace) = lease.socket
  <2>1. ~lease.grace
    BY <1>1, <1>3 DEF LeaseSound, Stands
  <2>2. ~inGrace
    BY <2>1, <1>3
  <2> QED BY <2>2, <1>3 DEF Displaced
<1>4. /\ NextGeneration(s) \in Nat \ {0}
      /\ lease # None /\ lease.socket = s => NextGeneration(s) = lease.generation
      /\ lease # None /\ NextGeneration(s) # generation + 1 =>
           NextGeneration(s) = lease.generation /\ lease.generation <= generation
  BY <1>1 DEF NextGeneration, LeaseSound
<1> QED BY <1>1, <1>2, <1>3, <1>4

LEMMA ClaimedSteps ==
  ASSUME IInv, NEW s \in Sockets, sock[s].server \in {"open", "closing"}, sock[s].up # <<>>,
         NEW id, Head(sock[s].up).kind = "claim", id = Head(sock[s].up).arg,
         NEW inGrace \in IF lease # None THEN {FALSE, lease.grace} ELSE {FALSE},
         Claims(s, id, inGrace), UNCHANGED <<tab, faults>>
  PROVE  IInv'
<1>1. PICK d : d = Displaced(s, inGrace)
  OBVIOUS
<1>2. PICK gen : gen = NextGeneration(s)
  OBVIOUS
<1>3. /\ d # None => lease # None /\ d = lease.socket /\ d \in Sockets /\ d # s
      /\ lease # None /\ lease.socket # s /\ Stands(lease.socket) => d = lease.socket
      /\ gen \in Nat \ {0}
      /\ lease # None /\ lease.socket = s => gen = lease.generation
  BY <1>1, <1>2, Displacing
<1>4. /\ tab \in [Tabs -> Page] /\ sock \in [Sockets -> Channel] /\ generation \in Nat
      /\ faults \in 0 .. MaxFaults /\ faults <= faults
  BY Values DEF IInv
<1>5. /\ s[1] \in Tabs /\ tab[s[1]] \in Page /\ sock[s] \in Channel /\ SocketSound(s)
      /\ Carries(s) /\ Answered(s) /\ Drives(s)
  BY <1>4, SocketParts DEF IInv
<1>6. sock[s].up \in Seq(Up) /\ sock[s].down \in Seq(Down)
  BY <1>5 DEF Channel
<1>7. /\ id = sock[s].up[1].arg /\ 1 \in DOMAIN sock[s].up /\ sock[s].up[1].kind = "claim"
      /\ id \in Nat
  <2>1. Head(sock[s].up) = sock[s].up[1] /\ 1 \in DOMAIN sock[s].up /\ Head(sock[s].up) \in Up
    BY <1>6, Taken
  <2> QED BY <2>1 DEF Up
<1> DEFINE m == [kind |-> "result", id |-> id, gen |-> gen]
<1> DEFINE a == Received(s)
<1> DEFINE b == Revoked(a, d, gen)
<1>8. m \in Down /\ m.kind = "result" /\ m.id = id /\ m.gen = gen
  BY <1>3, <1>7 DEF Down
<1>9. /\ lease' = [instance |-> tab[s[1]].instance, socket |-> s, generation |-> gen,
                   grace |-> FALSE]
      /\ generation' = IF gen > generation THEN gen ELSE generation
      /\ sock' = Sent(b, s, m)
  BY <1>1, <1>2 DEF Claims
<1> HIDE DEF m
<1>10. /\ a \in [Sockets -> Channel]
       /\ \A r \in Sockets : r # s => a[r] = sock[r]
       /\ a[s].server = sock[s].server /\ a[s].doomed = sock[s].doomed
       /\ a[s].down = sock[s].down
       /\ \A i \in DOMAIN a[s].up :
            i + 1 \in DOMAIN sock[s].up /\ a[s].up[i] = sock[s].up[i + 1]
  BY <1>4, ReceivedFrom
<1> HIDE DEF a
<1>11. /\ b \in [Sockets -> Channel]
       /\ \A r \in Sockets : r # d => b[r] = a[r]
       /\ d # None =>
            /\ b[d].server = sock[d].server /\ b[d].up = sock[d].up
            /\ ~Reaches(a, d) => b[d] = sock[d]
            /\ Reaches(a, d) =>
                 /\ b[d].doomed
                 /\ b[d].down = Append(sock[d].down, [kind |-> "revoked", id |-> 0, gen |-> gen])
  <2>1. CASE d = None
    BY <2>1, <1>10 DEF Revoked
  <2>2. CASE d # None
    BY <2>2, <1>3, <1>10, RevokedFrom
  <2> QED BY <2>1, <2>2
<1> HIDE DEF b
<1>12. /\ sock' \in [Sockets -> Channel]
       /\ \A r \in Sockets : r # s => sock'[r] = b[r]
       /\ sock'[s].server = sock[s].server /\ sock'[s].up = a[s].up
       /\ sock'[s].doomed = sock[s].doomed
       /\ sock'[s].down = IF Reaches(a, s) THEN Append(sock[s].down, m) ELSE sock[s].down
  <2>1. s # None /\ b[s] = a[s]
    BY <1>3, <1>11, LeaseAssumption DEF Sockets
  <2>2. Reaches(b, s) <=> Reaches(a, s)
    BY <2>1 DEF Reaches
  <2> QED BY <2>1, <2>2, <1>8, <1>9, <1>10, <1>11, SentTo
<1>13. gen \in 1 .. generation' /\ generation' \in Nat
  BY <1>3, <1>4, <1>9
<1>14. TypeOK'
  <2>1. tab[s[1]].instance \in Tabs
    BY <1>5 DEF Page
  <2>2. lease' \in [instance : Tabs, socket : Sockets, generation : 1 .. generation',
                    grace : BOOLEAN]
    BY <2>1, <1>9, <1>13
  <2> QED BY <2>2, <1>4, <1>12, <1>13, ServerTyping DEF IInv
<1>15. \A t \in Tabs : PageSound(t)'
  BY <1>4, PagesStay
<1>16. Owns(s, gen)' /\ lease' # None /\ lease'.socket = s /\ lease'.generation = gen
  <2>1. lease' \in [instance : Tabs, socket : Tabs \X Nat, generation : Nat, grace : BOOLEAN]
    BY <1>5, <1>9, <1>13 DEF Page, Sockets
  <2>2. lease' # None
    BY <2>1, LeaseAssumption
  <2> QED BY <2>2, <1>9 DEF Owns
<1>17. ASSUME NEW r \in Sockets, r # s
       PROVE  (SocketSound(r) /\ Carries(r) /\ Answered(r) /\ Drives(r))'
  <2>1. CASE r = d /\ Reaches(a, r)
    <3>1. SocketSound(r) /\ Carries(r) /\ sock[r] \in Channel
      BY <1>4 DEF IInv
    <3> DEFINE v == [kind |-> "revoked", id |-> 0, gen |-> gen]
    <3>2. /\ sock'[r].server = sock[r].server /\ sock'[r].up = sock[r].up /\ sock'[r].doomed
          /\ sock'[r].down = Append(sock[r].down, v)
      BY <2>1, <1>11, <1>12, <1>17, LeaseAssumption DEF Sockets
    <3>3. v \in Down /\ v.kind = "revoked" /\ sock[r].down \in Seq(Down)
      BY <3>1, <1>3 DEF Down, Channel
    <3>4. sock[r].server = "open" /\ Uses(r)
      BY <2>1, <1>10, <1>17 DEF Reaches
    <3> HIDE DEF v
    <3>5. \A i \in DOMAIN sock'[r].down :
            sock'[r].down[i] = v \/ (i \in DOMAIN sock[r].down /\ sock'[r].down[i] = sock[r].down[i])
      BY <3>2, <3>3, Appended
    <3>6. SocketSound(r)'
      BY <3>1, <3>2, <3>4 DEF SocketSound, Uses
    <3>7. Carries(r)'
      BY <3>1, <3>2, <3>3, <3>5 DEF Carries, Uses
    <3>8. ~Stands(r)'
      BY <3>2 DEF Stands
    <3> QED BY <3>6, <3>7, <3>8 DEF Answered, Drives
  <2>2. CASE ~(r = d /\ Reaches(a, r))
    <3>1. sock'[r] = sock[r]
      <4>1. CASE r # d
        BY <4>1, <1>10, <1>11, <1>12, <1>17
      <4>2. CASE r = d
        BY <2>2, <4>2, <1>3, <1>11, <1>12, <1>17, LeaseAssumption DEF Sockets
      <4> QED BY <4>1, <4>2
    <3>2. SocketSound(r) /\ Carries(r) /\ Answered(r) /\ Drives(r)
      BY DEF IInv
    <3>3. SocketSound(r)' /\ Carries(r)'
      BY <3>1, <3>2 DEF SocketSound, Carries, Uses
    <3>4. ASSUME Uses(r), Stands(r) PROVE ~(lease # None /\ lease.socket = r)
      <4>1. sock[r].server = "open" /\ Reaches(a, r)
        BY <3>4, <1>10, <1>17 DEF Stands, Reaches
      <4>2. r # d
        BY <4>1, <2>2
      <4> QED BY <4>2, <3>4, <1>3, <1>17
    <3>5. Answered(r)' /\ Drives(r)'
      BY <3>1, <3>2, <3>4 DEF Answered, Drives, Owns, Stands, Uses
    <3> QED BY <3>3, <3>5
  <2> QED BY <2>1, <2>2
<1>18. (SocketSound(s) /\ Carries(s) /\ Answered(s) /\ Drives(s))'
  <2>1. \A i \in DOMAIN sock'[s].down :
          \/ i \in DOMAIN sock[s].down /\ sock'[s].down[i] = sock[s].down[i]
          \/ sock'[s].down[i] = m /\ Reaches(a, s)
    BY <1>6, <1>8, <1>12, Appended
  <2>2. sock'[s].down # <<>> => sock[s].down # <<>> \/ Reaches(a, s)
    BY <1>12
  <2>3. Reaches(a, s) <=> sock[s].server = "open" /\ Uses(s)
    BY <1>10 DEF Reaches
  <2>4. SocketSound(s)'
    <3>1. sock[s].server # "none"
      OBVIOUS
    <3> QED BY <3>1, <2>2, <2>3, <1>5, <1>12 DEF SocketSound, Uses
  <2>5. Carries(s)'
    <3>1. ASSUME Uses(s)
          PROVE  /\ \A i \in DOMAIN sock'[s].up :
                      IF sock'[s].up[i].kind = "claim"
                      THEN sock'[s].up[i].arg \in 1 .. tab[s[1]].claims
                      ELSE tab[s[1]].status = "active" /\ sock'[s].up[i].arg # tab[s[1]].gen
                 /\ id \in 1 .. tab[s[1]].claims
                 /\ \A i \in DOMAIN sock[s].down : sock[s].down[i].kind = "result" =>
                      sock[s].down[i].id \in 1 .. tab[s[1]].claims
      BY <3>1, <1>5, <1>7, <1>10, <1>12 DEF Carries
    <3>2. Uses(s)' <=> Uses(s)
      BY DEF Uses
    <3> QED BY <3>1, <3>2, <2>1, <1>8 DEF Carries
  <2>6. Uses(s)' <=> Uses(s)
    BY DEF Uses
  <2>7. Stands(s)' => Stands(s)
    BY <1>12 DEF Stands
  <2>8. \A g : Owns(s, g) => g = gen
    BY <1>3 DEF Owns
  <2>9. Answered(s)'
    <3>1. ASSUME Uses(s), Stands(s), NEW i \in DOMAIN sock'[s].down,
                 sock'[s].down[i].kind = "result", sock'[s].down[i].id = tab[s[1]].claim
          PROVE  sock'[s].down[i].gen = gen
      <4>1. CASE sock'[s].down[i] = m
        BY <4>1, <1>8
      <4>2. CASE i \in DOMAIN sock[s].down /\ sock'[s].down[i] = sock[s].down[i]
        BY <4>2, <3>1, <2>8, <1>5 DEF Answered
      <4> QED BY <4>1, <4>2, <2>1
    <3> QED BY <3>1, <2>6, <2>7, <1>16 DEF Answered, Owns
  <2>10. Drives(s)'
    BY <2>6, <2>7, <2>8, <1>5, <1>16 DEF Drives, Owns
  <2> QED BY <2>4, <2>5, <2>9, <2>10
<1>19. LeaseSound'
  BY <1>9, <1>12, <1>16 DEF LeaseSound
<1> QED BY <1>14, <1>15, <1>17, <1>18, <1>19 DEF IInv

LEMMA ReleasedSteps ==
  ASSUME IInv, NEW s \in Sockets, sock[s].server \in {"open", "closing"}, sock[s].up # <<>>,
         Head(sock[s].up).kind = "release", Releases(s, Head(sock[s].up).arg),
         UNCHANGED <<tab, faults>>
  PROVE  IInv'
<1>1. /\ tab \in [Tabs -> Page] /\ sock \in [Sockets -> Channel] /\ generation \in Nat
      /\ faults \in 0 .. MaxFaults /\ faults <= faults
  BY Values DEF IInv
<1>2. /\ s[1] \in Tabs /\ sock[s] \in Channel /\ SocketSound(s)
      /\ Carries(s) /\ Answered(s) /\ Drives(s)
  BY <1>1, SocketParts DEF IInv
<1>3. PICK gen : gen = Head(sock[s].up).arg
  OBVIOUS
<1>4. /\ sock[s].up[1].arg = gen /\ 1 \in DOMAIN sock[s].up
      /\ sock[s].up[1].kind = "release"
  <2>1. sock[s].up \in Seq(Up)
    BY <1>2 DEF Channel
  <2> QED BY <2>1, <1>3, Taken
<1>5. /\ sock' = Received(s) /\ UNCHANGED generation
      /\ lease' = AfterRelease(s, gen)
  BY <1>3 DEF Releases
<1>6. /\ sock' \in [Sockets -> Channel]
      /\ \A r \in Sockets : r # s => sock'[r] = sock[r]
      /\ sock'[s].server = sock[s].server /\ sock'[s].doomed = sock[s].doomed
      /\ sock'[s].down = sock[s].down
      /\ \A i \in DOMAIN sock'[s].up :
           i + 1 \in DOMAIN sock[s].up /\ sock'[s].up[i] = sock[s].up[i + 1]
  BY <1>1, <1>5, ReceivedFrom
<1>7. lease' = lease \/ (lease' = None /\ Owns(s, gen))
  BY <1>5 DEF AfterRelease, Owns
<1>8. TypeOK'
  BY <1>1, <1>5, <1>6, <1>7, ServerTyping DEF IInv, TypeOK
<1>9. \A t \in Tabs : PageSound(t)'
  BY <1>1, PagesStay
\* A page that drives released an older generation than its own.
<1>10. Uses(s) => tab[s[1]].status = "active" /\ tab[s[1]].gen # gen
  BY <1>2, <1>4 DEF Carries
<1>11. ASSUME Uses(s), Stands(s) PROVE lease' = lease
  BY <1>2, <1>7, <1>10, <1>11 DEF Drives, Owns
<1>12. ASSUME NEW r \in Sockets PROVE (SocketSound(r) /\ Carries(r) /\ Answered(r) /\ Drives(r))'
  <2>1. SocketSound(r) /\ Carries(r) /\ Answered(r) /\ Drives(r)
    BY DEF IInv
  <2>2. Uses(r)' <=> Uses(r)
    BY DEF Uses
  <2>3. CASE r # s
    <3>1. sock'[r] = sock[r] /\ \A g : Owns(r, g) => Owns(r, g)'
      BY <2>3, <1>6, <1>7 DEF Owns
    <3> QED BY <2>1, <2>2, <3>1 DEF SocketSound, Carries, Answered, Drives, Stands
  <2>4. CASE r = s
    <3>1. SocketSound(s)'
      BY <1>2, <1>6, <2>2, <2>4 DEF SocketSound
    <3>2. Carries(s)'
      <4>1. ASSUME Uses(s), NEW i \in DOMAIN sock'[s].up
            PROVE  IF sock'[s].up[i].kind = "claim"
                   THEN sock'[s].up[i].arg \in 1 .. tab[s[1]].claims
                   ELSE tab[s[1]].status = "active" /\ sock'[s].up[i].arg # tab[s[1]].gen
        BY <4>1, <1>2, <1>6 DEF Carries
      <4> QED BY <4>1, <1>2, <1>6, <2>2, <2>4 DEF Carries
    <3>3. Answered(s)' /\ Drives(s)'
      BY <1>2, <1>6, <1>11, <2>2, <2>4 DEF Answered, Drives, Owns, Stands
    <3> QED BY <2>4, <3>1, <3>2, <3>3
  <2> QED BY <2>3, <2>4
<1>13. LeaseSound'
  <2> SUFFICES ASSUME lease' # None
               PROVE  /\ lease.instance = tab[lease.socket[1]].instance
                      /\ sock'[lease.socket].server # "none"
                      /\ lease.grace => sock'[lease.socket].server = "gone"
    BY <1>7 DEF LeaseSound
  <2>1. lease' = lease /\ LeaseSound /\ lease.socket \in Sockets
    BY <1>7 DEF IInv, TypeOK
  <2>2. sock'[lease.socket].server = sock[lease.socket].server
    BY <2>1, <1>6
  <2> QED BY <2>1, <2>2 DEF LeaseSound
<1> QED BY <1>8, <1>9, <1>12, <1>13 DEF IInv

LEMMA ServerSteps ==
  ASSUME IInv, NEW s \in Sockets, ServerReceives(s) PROVE IInv'
  BY ClaimedSteps, ReleasedSteps DEF ServerReceives

LEMMA DoomedSteps ==
  ASSUME IInv, NEW s \in Sockets, DoomedCloses(s) PROVE IInv'
<1>1. /\ tab \in [Tabs -> Page] /\ sock \in [Sockets -> Channel] /\ generation \in Nat
      /\ faults \in 0 .. MaxFaults /\ faults <= faults
  BY Values DEF IInv
<1> DEFINE c == [sock[s] EXCEPT !.server = "closing"]
<1>2. /\ c \in Channel /\ c.server = "closing" /\ c.doomed = sock[s].doomed
      /\ c.up = sock[s].up /\ c.down = sock[s].down
  BY <1>1 DEF Channel
<1>3. sock' = [sock EXCEPT ![s] = c] /\ UNCHANGED <<tab, lease, generation, faults>>
  BY <1>1 DEF DoomedCloses
<1> HIDE DEF c
<1>4. /\ sock' \in [Sockets -> Channel] /\ sock'[s] = c
      /\ \A r \in Sockets : r # s => sock'[r] = sock[r]
  BY <1>1, <1>2, <1>3
<1>5. TypeOK'
  BY <1>1, <1>3, <1>4, ServerTyping DEF IInv, TypeOK
<1>6. \A t \in Tabs : PageSound(t)'
  BY <1>1, <1>3, PagesStay
<1>7. ASSUME NEW r \in Sockets PROVE (SocketSound(r) /\ Carries(r) /\ Answered(r) /\ Drives(r))'
  <2>1. CASE r # s
    BY <2>1, <1>3, <1>4, Untouched
  <2>2. CASE r = s
    <3>1. SocketSound(s) /\ Carries(s) /\ sock[s].server = "open"
      BY DEF IInv, DoomedCloses
    <3>2. Uses(s)' <=> Uses(s)
      BY <1>3 DEF Uses
    <3>3. SocketSound(s)'
      BY <3>1, <3>2, <1>2, <1>3, <1>4 DEF SocketSound
    <3>4. Carries(s)' /\ ~Stands(s)'
      BY <3>1, <3>2, <1>2, <1>3, <1>4 DEF Carries, Stands
    <3> QED BY <2>2, <3>3, <3>4 DEF Answered, Drives
  <2> QED BY <2>1, <2>2
<1>8. LeaseSound'
  <2> SUFFICES ASSUME lease # None
               PROVE  /\ lease.instance = tab[lease.socket[1]].instance
                      /\ sock'[lease.socket].server # "none"
                      /\ lease.grace => sock'[lease.socket].server = "gone"
    BY <1>3 DEF LeaseSound
  <2>1. LeaseSound /\ lease.socket \in Sockets /\ sock[s].server = "open"
    BY DEF IInv, TypeOK, DoomedCloses
  <2> QED BY <2>1, <1>2, <1>4 DEF LeaseSound
<1> QED BY <1>5, <1>6, <1>7, <1>8 DEF IInv

\* What is left of a socket the server has lost.
LEMMA Losing ==
  ASSUME IInv, NEW r \in Sockets, sock[r].server # "none", sock'[r] = Gone(sock[r]),
         UNCHANGED tab, Uses(r) => r[2] < MaxConnections
  PROVE  /\ sock'[r] \in Channel /\ sock'[r].server = "gone"
         /\ (SocketSound(r) /\ Carries(r) /\ Answered(r) /\ Drives(r))'
<1>1. sock[r] \in Channel /\ SocketSound(r) /\ Carries(r) /\ <<>> \in Seq(Up)
  BY Values DEF IInv
<1>2. /\ sock'[r] \in Channel /\ sock'[r].server = "gone" /\ sock'[r].up = <<>>
      /\ sock'[r].down = sock[r].down /\ sock'[r].doomed = sock[r].doomed
  BY <1>1 DEF Gone, Channel
<1>3. Uses(r)' <=> Uses(r)
  BY DEF Uses
<1>4. SocketSound(r)' /\ ~Stands(r)'
  BY <1>1, <1>2, <1>3 DEF SocketSound, Stands
<1>5. Carries(r)'
  BY <1>1, <1>2, <1>3 DEF Carries
<1> QED BY <1>2, <1>4, <1>5 DEF Answered, Drives

LEMMA LosesSteps ==
  ASSUME IInv, NEW s \in Sockets, ServerLoses(s) PROVE IInv'
<1>1. /\ tab \in [Tabs -> Page] /\ sock \in [Sockets -> Channel] /\ generation \in Nat
      /\ faults \in 0 .. MaxFaults /\ faults \in Nat /\ UNCHANGED <<tab, generation>>
  BY Values DEF IInv, ServerLoses
<1>2. faults' \in 0 .. MaxFaults /\ faults <= faults'
  BY <1>1, LeaseAssumption DEF ServerLoses, Fault
<1>3. /\ sock[s].server # "none" /\ (Uses(s) => s[2] < MaxConnections)
      /\ sock'[s] = Gone(sock[s]) /\ sock' = [sock EXCEPT ![s] = Gone(sock[s])]
      /\ \A r \in Sockets : r # s => sock'[r] = sock[r]
  BY <1>1 DEF ServerLoses
<1>4. /\ sock'[s] \in Channel /\ sock'[s].server = "gone"
      /\ (SocketSound(s) /\ Carries(s) /\ Answered(s) /\ Drives(s))'
  BY <1>1, <1>3, Losing
<1>5. sock' \in [Sockets -> Channel]
  BY <1>1, <1>3, <1>4
<1> DEFINE l == [lease EXCEPT !.grace = TRUE]
<1>6. lease' = IF lease # None /\ lease.socket = s THEN l ELSE lease
  BY DEF ServerLoses
<1>7. ASSUME lease # None
      PROVE  /\ l \in [instance : Tabs, socket : Sockets, generation : 1 .. generation,
                       grace : BOOLEAN]
             /\ l.socket = lease.socket /\ l.instance = lease.instance
             /\ l.generation = lease.generation /\ lease.socket \in Sockets
  BY <1>7 DEF IInv, TypeOK
<1> HIDE DEF l
<1>8. l # None \/ lease = None
  <2>1. lease # None => l \in [instance : Tabs, socket : Tabs \X Nat, generation : Nat,
                               grace : BOOLEAN]
    BY <1>1, <1>7 DEF Sockets
  <2> QED BY <2>1, LeaseAssumption
<1>9. TypeOK'
  BY <1>1, <1>2, <1>5, <1>6, <1>7, ServerTyping DEF IInv, TypeOK
<1>10. \A t \in Tabs : PageSound(t)'
  BY <1>1, <1>2, PagesStay
<1>11. ASSUME NEW r \in Sockets PROVE (SocketSound(r) /\ Carries(r) /\ Answered(r) /\ Drives(r))'
  <2>1. CASE r = s
    BY <2>1, <1>4
  <2>2. CASE r # s
    <3>1. SocketSound(r) /\ Carries(r) /\ Answered(r) /\ Drives(r)
      BY DEF IInv
    <3>2. sock'[r] = sock[r] /\ \A g : Owns(r, g)' <=> Owns(r, g)
      BY <2>2, <1>3, <1>6, <1>7, <1>8 DEF Owns
    <3> QED BY <3>1, <3>2, <1>1 DEF SocketSound, Carries, Answered, Drives, Stands, Uses
  <2> QED BY <2>1, <2>2
<1>12. LeaseSound'
  <2> SUFFICES ASSUME lease' # None
               PROVE  /\ lease'.instance = tab[lease'.socket[1]].instance
                      /\ sock'[lease'.socket].server # "none"
                      /\ lease'.grace => sock'[lease'.socket].server = "gone"
    BY <1>1 DEF LeaseSound
  <2>1. lease # None /\ LeaseSound
    BY <1>6 DEF IInv
  <2>2. CASE lease.socket = s
    BY <2>1, <2>2, <1>4, <1>6, <1>7 DEF LeaseSound
  <2>3. CASE lease.socket # s
    BY <2>1, <2>3, <1>3, <1>6, <1>7 DEF LeaseSound
  <2> QED BY <2>2, <2>3
<1> QED BY <1>9, <1>10, <1>11, <1>12 DEF IInv

LEMMA RestartSteps ==
  ASSUME IInv, Restart PROVE IInv'
<1>1. /\ tab \in [Tabs -> Page] /\ sock \in [Sockets -> Channel]
      /\ faults \in 0 .. MaxFaults /\ faults \in Nat
      /\ UNCHANGED tab /\ lease' = None /\ generation' = 0
  BY Values DEF IInv, Restart
<1>2. faults' \in 0 .. MaxFaults /\ faults <= faults'
  BY <1>1, LeaseAssumption DEF Restart, Fault
<1>3. ASSUME NEW r \in Sockets
      PROVE  /\ sock[r].server = "none" => sock'[r] = sock[r]
             /\ sock[r].server # "none" => sock'[r] = Gone(sock[r])
             /\ Uses(r) => r[2] < MaxConnections
  BY DEF Restart
<1>4. ASSUME NEW r \in Sockets
      PROVE  sock'[r] \in Channel /\ (SocketSound(r) /\ Carries(r) /\ Answered(r) /\ Drives(r))'
  <2>1. CASE sock[r].server = "none"
    BY <2>1, <1>1, <1>3, Untouched DEF Stands
  <2>2. CASE sock[r].server # "none"
    BY <2>2, <1>1, <1>3, Losing
  <2> QED BY <2>1, <2>2
<1>5. sock' \in [Sockets -> Channel]
  BY <1>4 DEF Restart
<1>6. TypeOK'
  BY <1>1, <1>2, <1>5, ServerTyping DEF IInv
<1>7. \A t \in Tabs : PageSound(t)'
  BY <1>1, <1>2, PagesStay
<1> QED BY <1>1, <1>4, <1>6, <1>7 DEF IInv, LeaseSound

-----------------------------------------------------------------------------
LEMMA InitIInv == Init => IInv
<1> SUFFICES ASSUME Init PROVE IInv
  OBVIOUS
<1>1. ASSUME NEW t \in Tabs
      PROVE  /\ tab[t] \in Page /\ tab[t].n = 0 /\ tab[t].status = "closed"
             /\ tab[t].conn = "disconnected" /\ tab[t].claim = 0 /\ tab[t].claims = 0
  <2>1. tab[t] = Closed(t, 0) /\ 0 \in 0 .. MaxConnections
    BY LeaseAssumption DEF Init
  <2> QED BY <2>1, ClosedPage
<1>2. ASSUME NEW s \in Sockets
      PROVE  /\ sock[s] \in Channel /\ sock[s].server = "none" /\ ~sock[s].doomed
             /\ sock[s].up = <<>> /\ sock[s].down = <<>> /\ s[1] \in Tabs
  BY SocketParts DEF Init, Unopened, Channel
<1>3. faults = 0 /\ 0 \in 0 .. MaxFaults /\ generation = 0 /\ lease = None
  BY LeaseAssumption DEF Init
<1>4. TypeOK
  <2>1. tab \in [Tabs -> Page] /\ sock \in [Sockets -> Channel]
    BY <1>1, <1>2 DEF Init
  <2>2. \A t \in Tabs : PageTyped(tab[t])
    BY <1>1 DEF PageTyped
  <2> QED BY <2>1, <2>2, <1>3, Typed
<1>5. ASSUME NEW t \in Tabs PROVE PageSound(t)
  BY <1>1, <1>3 DEF PageSound
<1>6. ASSUME NEW s \in Sockets PROVE SocketSound(s) /\ Carries(s) /\ Answered(s) /\ Drives(s)
  <2>1. ~Uses(s)
    BY <1>1, <1>2 DEF Uses
  <2> QED BY <2>1, <1>2 DEF SocketSound, Carries, Answered, Drives
<1> QED BY <1>3, <1>4, <1>5, <1>6 DEF IInv, LeaseSound

LEMMA StepIInv == IInv /\ [Next]_vars => IInv'
<1> SUFFICES ASSUME IInv, [Next]_vars PROVE IInv'
  OBVIOUS
<1>1. CASE UNCHANGED vars
  BY <1>1 DEF vars, IInv, TypeOK, PageSound, SocketSound, Carries, Answered, Drives, Stands,
              Owns, Uses, LeaseSound
<1>2. CASE \E t \in Tabs : \/ Load(t) \/ Leave(t) \/ Redials(t) \/ Opens(t) \/ Claim(t)
                           \/ ClaimTimesOut(t) \/ NoticesLoss(t) \/ GivesUp(t)
                           \/ ClientReceives(t)
  BY <1>2, LoadSteps, LeaveSteps, RedialSteps, OpensSteps, ClaimSteps, TimeoutSteps,
     ReconnectSteps, ReceiveSteps
<1>3. CASE \E s \in Sockets : ServerReceives(s) \/ DoomedCloses(s) \/ ServerLoses(s)
  BY <1>3, ServerSteps, DoomedSteps, LosesSteps
<1>4. CASE Restart
  BY <1>4, RestartSteps
<1> QED BY <1>1, <1>2, <1>3, <1>4 DEF Next

\* The inductive invariant of claims, releases and revocations, over sockets
\* that are lost and servers that restart at any point.
THEOREM Invariance == Spec => []IInv
  BY InitIInv, StepIInv, PTL DEF Spec

\* Every variable keeps its type, and the lease is never newer than the counter.
THEOREM TypeCorrect == Spec => []TypeOK
<1>1. IInv => TypeOK
  BY DEF IInv
<1> QED BY <1>1, Invariance, PTL

\* A tab that takes itself for active, on a socket that stands, holds the lease.
THEOREM ActiveTabOwnsLease == Spec => []ActiveOwnsLease
<1>1. IInv => ActiveOwnsLease
  <2> SUFFICES ASSUME IInv, NEW t \in Tabs, tab[t].status = "active",
                      sock[Socket(t)].server = "open", ~sock[Socket(t)].doomed
               PROVE  lease # None /\ lease.socket = Socket(t) /\ lease.generation = tab[t].gen
    BY DEF ActiveOwnsLease
  <2>1. tab[t].conn = "connected"
    BY DEF IInv, PageSound
  <2>2. Socket(t)[1] = t /\ Uses(Socket(t)) /\ Drives(Socket(t))
    BY <2>1, UsedSocket
  <2> QED BY <2>2 DEF Drives, Stands, Owns
<1> QED BY <1>1, Invariance, PTL

\* Of two tabs that both take themselves for active, one has lost its socket or
\* is about to be told so: two never drive the server side by side.
THEOREM OneDriver ==
  Spec => [](\A t, u \in Tabs :
               /\ tab[t].status = "active" /\ Stands(Socket(t))
               /\ tab[u].status = "active" /\ Stands(Socket(u))
               => t = u)
<1>1. ActiveOwnsLease => \A t, u \in Tabs :
                           /\ tab[t].status = "active" /\ Stands(Socket(t))
                           /\ tab[u].status = "active" /\ Stands(Socket(u))
                           => t = u
  BY DEF ActiveOwnsLease, Stands, Socket
<1> QED BY <1>1, ActiveTabOwnsLease, PTL
=============================================================================
