--------------------------- MODULE ActivationLease ---------------------------
(***************************************************************************)
(* One browser tab at a time drives the server.  The server keeps a lease  *)
(* (ws/activation.ts); a tab claims it when its WebSocket connects and     *)
(* again a second after a claim failed (hooks/use-activation.ts,           *)
(* app/providers.tsx).  A claim never fails: it takes the lease over, and  *)
(* the displaced socket is told so and closed; that tab shows the gate     *)
(* until its user enters again.                                            *)
(*                                                                         *)
(* The messages of one socket arrive in order; those of two sockets of the *)
(* same tab do not: what a tab sent before it gave its socket up may reach *)
(* the server after the claim of the next one.                             *)
(*                                                                         *)
(* A socket is <<tab, n>>, the n-th connection of the tab, over all the    *)
(* pages the tab loads.                                                    *)
(***************************************************************************)
EXTENDS Naturals, Sequences

CONSTANTS
    Tabs,            \* browser tabs
    MaxConnections,  \* bound: connections of one tab
    MaxFaults,       \* bound: lost sockets, unanswered claims, closed pages, restarts
    None

ASSUME LeaseAssumption ==
    /\ MaxConnections \in Nat \ {0} /\ MaxFaults \in Nat
    /\ None \notin Tabs /\ None \notin Tabs \X Nat
    /\ None \notin [instance : Tabs, socket : Tabs \X Nat, generation : Nat, grace : BOOLEAN]

VARIABLES
    tab,         \* the page of each tab
    sock,        \* what is left of each socket
    lease,       \* ActivationManager.lease
    generation,  \* ActivationManager.generation
    faults       \* how often something went wrong, for the bound

vars == <<tab, sock, lease, generation, faults>>

Sockets == Tabs \X (1 .. MaxConnections)

Socket(t) == <<t, tab[t].n>>
Uses(s) == tab[s[1]].conn \in {"connecting", "connected"} /\ tab[s[1]].n = s[2]

-----------------------------------------------------------------------------
\* atoms and WsClient of a page that is not loaded, or was not yet
Closed(instance, n) == [instance |-> instance, status |-> "closed", conn |-> "disconnected",
                        n |-> n, claim |-> 0, claims |-> 0, gen |-> 0]

\* WsClient on both sides: messages on their way, doomed: revoked, not yet closed
Unopened == [server |-> "none", doomed |-> FALSE, up |-> <<>>, down |-> <<>>]

Init ==
    /\ tab = [t \in Tabs |-> Closed(t, 0)]
    /\ sock = [s \in Sockets |-> Unopened]
    /\ lease = None
    /\ generation = 0
    /\ faults = 0

Fault == faults < MaxFaults /\ faults' = faults + 1

-----------------------------------------------------------------------------
(* The tab.                                                                *)

\* WsClient.connect: the next socket
Dialing(page) == [page EXCEPT !.conn = "connecting", !.n = @ + 1, !.claims = 0]

\* clientInstanceId lives in sessionStorage, which a reload keeps and which a
\* tab that is a duplicate of another one takes along
Instances(t) == {tab[t].instance} \union
                    IF tab[t].n > 0 THEN {}
                    ELSE {tab[u].instance : u \in {v \in Tabs : tab[v].status # "closed"}}

\* The user opens the tab, or enters again from the gate: a new page
Load(t) ==
    /\ tab[t].status \in {"closed", "gated"}
    /\ tab[t].n < MaxConnections
    /\ \E instance \in Instances(t) :
          tab' = [tab EXCEPT ![t] = [Dialing(Closed(instance, tab[t].n)) EXCEPT !.status = "idle"]]
    /\ UNCHANGED <<sock, lease, generation, faults>>

\* The socket a tab gives up: its handlers ignore whatever still arrives, and
\* nobody is left to be told anything
GivenUp(t) == [s \in Sockets |-> IF s = Socket(t) THEN [sock[s] EXCEPT !.down = <<>>, !.doomed = FALSE]
                                 ELSE sock[s]]

\* The user closes the tab.  No command is sent: effects are not cleaned up.
Leave(t) ==
    /\ tab[t].status # "closed"
    /\ Fault
    /\ tab' = [tab EXCEPT ![t] = Closed(tab[t].instance, tab[t].n)]
    /\ sock' = GivenUp(t)
    /\ UNCHANGED <<lease, generation>>

\* The reconnect timer
Redials(t) ==
    /\ tab[t].conn = "reconnecting"
    /\ tab' = [tab EXCEPT ![t] = Dialing(@)]
    /\ UNCHANGED <<sock, lease, generation, faults>>

\* The server accepts the socket and the client learns of it
Opens(t) ==
    /\ tab[t].conn = "connecting"
    /\ tab' = [tab EXCEPT ![t].conn = "connected"]
    /\ sock' = [sock EXCEPT ![Socket(t)].server = "open"]
    /\ UNCHANGED <<lease, generation, faults>>

\* Mutant: without the test of the current status
AlwaysIdle(page) == [page EXCEPT !.claim = 0, !.status = "idle"]

\* handleStatusChange and the catch of claim(): the gate stays
IdleUnlessGated(page) ==
    [page EXCEPT !.claim = 0, !.status = IF @ = "gated" THEN "gated" ELSE "idle"]

\* useActivation.claim, from the effect of AppProviders or the retry timer
Claim(t) ==
    /\ tab[t].conn = "connected"
    /\ tab[t].status = "idle"
    /\ LET id == tab[t].claims + 1 IN
       /\ tab' = [tab EXCEPT ![t].status = "claiming", ![t].claim = id, ![t].claims = id]
       /\ sock' = [sock EXCEPT ![Socket(t)].up = Append(@, [kind |-> "claim", arg |-> id])]
    /\ UNCHANGED <<lease, generation, faults>>

\* No answer for thirty seconds: the command is forgotten, the claim retried
ClaimTimesOut(t) ==
    /\ tab[t].claim # 0
    /\ Fault
    /\ tab' = [tab EXCEPT ![t] = IdleUnlessGated(@)]
    /\ UNCHANGED <<sock, lease, generation>>

\* WsClient.handleClose: reconnect
Reconnects(t) ==
    /\ tab' = [tab EXCEPT ![t] = [IdleUnlessGated(@) EXCEPT !.conn = "reconnecting"]]
    /\ sock' = GivenUp(t)
    /\ UNCHANGED <<lease, generation>>

\* The server closed the socket
NoticesLoss(t) ==
    /\ tab[t].conn = "connected" /\ sock[Socket(t)].server = "gone"
    /\ Reconnects(t)
    /\ UNCHANGED faults

\* The network breaks, or a probe of the socket is not answered in time
GivesUp(t) ==
    /\ tab[t].conn \in {"connecting", "connected"} /\ tab[t].n < MaxConnections
    /\ Fault
    /\ Reconnects(t)

\* The claim is granted; when the generation is a new one, the effect that
\* depends on it is cleaned up and releases the one before
Granted(t, msg) ==
    LET page == tab[t] IN
    IF page.claim # msg.id
    THEN /\ tab' = tab
         /\ sock' = [sock EXCEPT ![Socket(t)].down = Tail(@)]
    ELSE /\ tab' = [tab EXCEPT ![t].status = "active", ![t].claim = 0, ![t].gen = msg.gen]
         /\ sock' = [sock EXCEPT
                ![Socket(t)].down = Tail(@),
                ![Socket(t)].up = IF page.gen \in {0, msg.gen} THEN @
                                  ELSE Append(@, [kind |-> "release", arg |-> page.gen])]

\* handleEvent "activation.revoked": the gate, and disconnect(), which rejects
\* the claim in flight
Gated(t, msg) ==
    /\ tab' = [tab EXCEPT ![t] = [IdleUnlessGated([@ EXCEPT !.status = "gated"]) EXCEPT
                                    !.gen = msg.gen, !.conn = "disconnected"]]
    /\ sock' = GivenUp(t)

ClientReceives(t) ==
    /\ tab[t].conn = "connected"
    /\ sock[Socket(t)].down # <<>>
    /\ LET msg == Head(sock[Socket(t)].down) IN
       \/ msg.kind = "result" /\ Granted(t, msg)
       \/ msg.kind = "revoked" /\ Gated(t, msg)
    /\ UNCHANGED <<lease, generation, faults>>

-----------------------------------------------------------------------------
(* The server.                                                             *)

Received(s) == [sock EXCEPT ![s].up = Tail(@)]

\* Nobody reads what is sent to a socket that was given up
Reaches(sk, s) == sk[s].server = "open" /\ Uses(s)

Sent(sk, s, msg) == IF Reaches(sk, s)
                    THEN [sk EXCEPT ![s].down = Append(@, msg)]
                    ELSE sk

\* WsHub.revokeAndCloseClient: the close follows when the message is written
Revoked(sk, s, gen) ==
    IF s # None /\ Reaches(sk, s)
    THEN [Sent(sk, s, [kind |-> "revoked", id |-> 0, gen |-> gen]) EXCEPT ![s].doomed = TRUE]
    ELSE sk

\* Mutant: a claim of the same instance displaces nobody
DisplacedStranger(s, inGrace) ==
    IF lease = None \/ lease.instance = tab[s[1]].instance THEN None ELSE lease.socket

\* ActivationManager.claim: whom a claim on s displaces, the clock within the
\* grace period or past it
Displaced(s, inGrace) ==
    IF lease = None \/ (lease.instance = tab[s[1]].instance /\ (inGrace \/ lease.socket = s))
    THEN None ELSE lease.socket

NextGeneration(s) ==
    IF lease # None /\ lease.instance = tab[s[1]].instance THEN lease.generation
    ELSE generation + 1

Claims(s, id, inGrace) ==
    LET gen == NextGeneration(s) IN
    /\ lease' = [instance |-> tab[s[1]].instance, socket |-> s, generation |-> gen, grace |-> FALSE]
    /\ generation' = IF gen > generation THEN gen ELSE generation
    /\ sock' = Sent(Revoked(Received(s), Displaced(s, inGrace), gen), s,
                    [kind |-> "result", id |-> id, gen |-> gen])

\* activation.release: what of the lease is left
AfterRelease(s, gen) ==
    IF lease # None /\ lease.socket = s /\ lease.instance = tab[s[1]].instance
       /\ lease.generation = gen
    THEN None ELSE lease

Releases(s, gen) ==
    /\ lease' = AfterRelease(s, gen)
    /\ sock' = Received(s)
    /\ UNCHANGED generation

\* routeMessage: a socket that is closing is still read
ServerReceives(s) ==
    /\ sock[s].server \in {"open", "closing"}
    /\ sock[s].up # <<>>
    /\ LET msg == Head(sock[s].up) IN
       \/ /\ msg.kind = "claim"
          /\ \E inGrace \in IF lease # None THEN {FALSE, lease.grace} ELSE {FALSE} :
                Claims(s, msg.arg, inGrace)
       \/ msg.kind = "release" /\ Releases(s, msg.arg)
    /\ UNCHANGED <<tab, faults>>

\* sendControlAndClose: the callback of the revocation closes the socket
DoomedCloses(s) ==
    /\ sock[s].server = "open" /\ sock[s].doomed
    /\ sock' = [sock EXCEPT ![s].server = "closing"]
    /\ UNCHANGED <<tab, lease, generation, faults>>

\* WsHub.handleClose; what was not read is lost
Gone(sk) == [sk EXCEPT !.server = "gone", !.up = <<>>]

ServerLoses(s) ==
    /\ sock[s].server \in {"open", "closing"}
    /\ IF Uses(s) THEN s[2] < MaxConnections /\ Fault ELSE UNCHANGED faults
    /\ sock' = [sock EXCEPT ![s] = Gone(@)]
    /\ lease' = IF lease # None /\ lease.socket = s THEN [lease EXCEPT !.grace = TRUE] ELSE lease
    /\ UNCHANGED <<tab, generation>>

\* The server is restarted: the lease is kept nowhere else
Restart ==
    /\ \A s \in Sockets : Uses(s) => s[2] < MaxConnections
    /\ Fault
    /\ sock' = [s \in Sockets |-> IF sock[s].server = "none" THEN sock[s] ELSE Gone(sock[s])]
    /\ lease' = None
    /\ generation' = 0
    /\ UNCHANGED tab

-----------------------------------------------------------------------------
Next ==
    \/ \E t \in Tabs : \/ Load(t) \/ Leave(t) \/ Redials(t) \/ Opens(t) \/ Claim(t)
                       \/ ClaimTimesOut(t) \/ NoticesLoss(t) \/ GivesUp(t)
                       \/ ClientReceives(t)
    \/ \E s \in Sockets : ServerReceives(s) \/ DoomedCloses(s) \/ ServerLoses(s)
    \/ Restart

\* Timers fire, the event loops of both sides read what arrives, and a client
\* notices that its server is gone.  Users, faults and what is left in a socket
\* nobody listens to may come or not.
Fairness ==
    /\ \A t \in Tabs : /\ WF_vars(Redials(t)) /\ WF_vars(Opens(t)) /\ WF_vars(Claim(t))
                       /\ WF_vars(ClientReceives(t))
                       /\ WF_vars(NoticesLoss(t))
    /\ \A s \in Sockets : WF_vars(Uses(s) /\ ServerReceives(s))

Spec == Init /\ [][Next]_vars /\ Fairness

-----------------------------------------------------------------------------
Up == [kind : {"claim", "release"}, arg : Nat]
Down == [kind : {"result", "revoked"}, id : Nat, gen : Nat]

\* Every variable keeps its type; a page that counts on a socket has one, a
\* lease is never older than the counter, and only a claiming page waits.
TypeOK ==
    /\ tab \in [Tabs -> [instance : Tabs, status : {"closed", "idle", "claiming", "active", "gated"},
                         conn : {"disconnected", "connecting", "connected", "reconnecting"},
                         n : 0 .. MaxConnections, claim : 0 .. MaxFaults + 1,
                         claims : 0 .. MaxFaults + 1, gen : Nat]]
    /\ sock \in [Sockets -> [server : {"none", "open", "closing", "gone"}, doomed : BOOLEAN,
                             up : Seq(Up), down : Seq(Down)]]
    /\ lease = None \/ lease \in [instance : Tabs, socket : Sockets, generation : 1 .. generation,
                                  grace : BOOLEAN]
    /\ generation \in Nat
    /\ faults \in 0 .. MaxFaults
    /\ \A t \in Tabs : /\ tab[t].status = "claiming" <=> tab[t].claim # 0
                       /\ tab[t].status \in {"closed", "gated"} <=> tab[t].conn = "disconnected"

\* A tab that believes itself active holds the lease, with the generation it
\* knows, unless the server lost its socket or its revocation is on its way:
\* never do two tabs drive the server without one of them about to learn of
\* the other.
ActiveOwnsLease ==
    \A t \in Tabs :
        LET s == Socket(t) IN
        tab[t].status = "active" /\ sock[s].server = "open" /\ ~sock[s].doomed =>
            lease # None /\ lease.socket = s /\ lease.generation = tab[t].gen

\* Once faults and users rest, every page that is loaded ends at the gate or
\* active with the lease on its own socket, so that all but one of them stand
\* at the gate, and nobody claims for ever.
Settles ==
    <>[](\A t \in Tabs :
            tab[t].status \notin {"closed", "gated"} =>
                tab[t].status = "active" /\ lease # None /\ lease.socket = Socket(t))
=============================================================================
