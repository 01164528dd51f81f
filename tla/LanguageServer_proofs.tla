------------------------ MODULE LanguageServer_proofs ------------------------
(***************************************************************************)
(* The safety of LanguageServer, for every number of callers, commands,    *)
(* starts and exits: types, which processes run and what the registry      *)
(* names, and that a ready server knows the document.                      *)
(***************************************************************************)
EXTENDS LanguageServer, TLAPS

\* Sessions and servers that are not made yet are untouched, and only the
\* session of the map has a server.
Fresh ==
  /\ current <= made
  /\ \A s \in Sessions : s > made => session[s] = NewSession
  /\ \A c \in Servers : c > started => server[c].main = "none" /\ server[c].mate = "none"
  /\ \A s \in Sessions : session[s].child <= started
  /\ \A c \in abandoned : c <= started

OnlyCurrent == \A s \in Sessions : s # current => session[s].child = 0

\* Where a command stands.
Stands(c) ==
  /\ c.at \in {"start", "op", "opstart", "query"} => c.session \in Sessions /\ c.session <= made
  /\ c.at = "op" => mode = "auto" /\ c.due = "ok" /\ c.session = current
  /\ c.due # "no" => c.at \in {"start", "op", "opstart"}

Placed ==
  /\ \A k \in Callers : Stands(call[k])
  /\ \A k, j \in Callers : call[k].due = "ok" => call[j].due \in {"no", "ok"}

IInv == TypeOK /\ Fresh /\ OnlyCurrent /\ Placed /\ ProcessesAccounted /\ ServerInStep

\* IInv apart from the commands, and apart from what is only typed.
CoreType ==
  /\ current \in 0..MaxCalls /\ made \in 0..MaxCalls
  /\ idle \in BOOLEAN /\ (idle => current # 0)
  /\ session \in [Sessions -> Session]
  /\ server \in [Servers -> Server]
  /\ registered \in 0..MaxStarts /\ started \in 0..MaxStarts
  /\ abandoned \subseteq Servers

Core == CoreType /\ Fresh /\ OnlyCurrent /\ ProcessesAccounted /\ ServerInStep

core == <<current, idle, session, server, registered, made, started, abandoned>>

Calls ==
  /\ mode \in {"auto", "off"}
  /\ closing \in BOOLEAN
  /\ calls \in 0..MaxCalls /\ exits \in 0..MaxExits
  /\ call \in [Callers -> Call]
  /\ Placed

LEMMA Parts == IInv <=> Core /\ Calls
  BY DEF IInv, TypeOK, Core, CoreType, Calls

LEMMA CoreSame == Core /\ UNCHANGED core => Core'
  BY DEF Core, core, CoreType, Fresh, OnlyCurrent, ProcessesAccounted, Held, ServerInStep, Ready

LEMMA CoreInit == Init => Core
  <1> SUFFICES ASSUME Init PROVE Core
    OBVIOUS
  <1>1. CoreType
    <2>1. NewSession \in Session
      BY ServerAssumption DEF NewSession, Session, Docs
    <2>2. NoServer \in Server
      BY DEF NoServer, Server, Process, Docs
    <2> QED
      <3>1. current = 0 /\ made = 0 /\ ~idle /\ registered = 0 /\ started = 0 /\ abandoned = {}
        BY DEF Init
      <3>2. session \in [Sessions -> Session] /\ server \in [Servers -> Server]
        BY <2>1, <2>2 DEF Init
      <3>3. idle \in BOOLEAN /\ (idle => current # 0)
        <4>1. idle = FALSE
          BY DEF Init
        <4> QED
          BY <4>1
      <3>4. current \in 0..MaxCalls /\ made \in 0..MaxCalls
            /\ registered \in 0..MaxStarts /\ started \in 0..MaxStarts
        BY <3>1, ServerAssumption
      <3>5. abandoned \subseteq Servers
        BY <3>1
      <3> QED
        BY <3>2, <3>3, <3>4, <3>5 DEF CoreType
  <1>2. Fresh
    <2>1. \A s \in Sessions : session[s] = NewSession /\ session[s].child = 0
      BY DEF Init, NewSession
    <2>2. \A c \in Servers : server[c].main = "none" /\ server[c].mate = "none"
      BY DEF Init, NoServer
    <2> QED
      BY <2>1, <2>2 DEF Init, Fresh
  <1>3. OnlyCurrent /\ ServerInStep
    BY DEF Init, OnlyCurrent, ServerInStep, Ready, NewSession
  <1>4. ProcessesAccounted
    BY DEF Init, ProcessesAccounted, NoServer
  <1> QED
    BY <1>1, <1>2, <1>3, <1>4 DEF Core

\* The session of the map goes.
LEMMA DisposeCore ==
  ASSUME Core, DisposeKey, UNCHANGED <<made, started, abandoned>>
  PROVE  Core'
<1>1. CASE current = 0
  BY <1>1, CoreSame DEF DisposeKey, core
<1>2. CASE current # 0
  <2> DEFINE d == session[current].child
  <2>0. CoreType /\ Fresh /\ OnlyCurrent /\ ProcessesAccounted /\ ServerInStep
    BY DEF Core
  <2>1. /\ current' = 0 /\ idle' = FALSE /\ registered' = 0
        /\ session' = [session EXCEPT ![current].child = 0, ![current].ready = FALSE]
        /\ server' = Killed(d)
    BY <1>2 DEF DisposeKey, Reset
  <2>2. current \in Sessions
    BY <2>0, <1>2, ServerAssumption DEF CoreType, Sessions
  <2>3. \A s \in Sessions : session'[s].child = 0
    BY <2>0, <2>1, <2>2 DEF OnlyCurrent, CoreType, Session
  <2>4. \A c \in Servers : server'[c] \in Server
    BY <2>0, <2>1 DEF Killed, Ended, CoreType, Server, Process
  <2>5. \A c \in Servers : server'[c].main = "running" \/ server'[c].mate = "running"
                            => c # d /\ server'[c] = server[c]
    BY <2>0, <2>1 DEF Killed, Ended, CoreType, Server, Process
  <2>6. \A c \in Servers : (server[c].main = "none" => server'[c].main = "none")
                           /\ (server[c].mate = "none" => server'[c].mate = "none")
    BY <2>0, <2>1 DEF Killed, Ended, CoreType, Server
  <2>7. CoreType'
    <3>1. session' \in [Sessions -> Session]
      <4>1. session[current] \in Session /\ 0 \in 0..MaxStarts
        BY <2>0, <2>2, ServerAssumption DEF CoreType
      <4>2. [session[current] EXCEPT !.child = 0, !.ready = FALSE] \in Session
        BY <4>1 DEF Session
      <4>3. session' = [session EXCEPT ![current] = [session[current] EXCEPT !.child = 0, !.ready = FALSE]]
        BY <2>0, <2>1, <2>2, <4>1 DEF CoreType, Session
      <4> QED
        BY <2>0, <4>2, <4>3 DEF CoreType
    <3>2. server' \in [Servers -> Server]
      BY <2>1, <2>4 DEF Killed
    <3> QED
      <4>1. current' \in 0..MaxCalls /\ registered' \in 0..MaxStarts
        BY <2>1, ServerAssumption
      <4>2. idle' \in BOOLEAN /\ (idle' => current' # 0)
        BY <2>1
      <4>3. made' \in 0..MaxCalls /\ started' \in 0..MaxStarts /\ abandoned' \subseteq Servers
        BY <2>0 DEF CoreType
      <4> QED
        BY <3>1, <3>2, <4>1, <4>2, <4>3 DEF CoreType
  <2>8. Fresh'
    <3>1. \A s \in Sessions : s > made => session'[s] = session[s]
      BY <2>0, <2>1, <2>2 DEF CoreType, Fresh, Sessions
    <3>2. \A s \in Sessions : session'[s].child <= started
      BY <2>0, <2>3, ServerAssumption DEF CoreType
    <3>3. current' <= made'
      BY <2>0, <2>1, ServerAssumption DEF CoreType
    <3>4. \A z \in Sessions : z > made' => session'[z] = NewSession
      BY <2>0, <3>1 DEF Fresh
    <3>5. \A c \in Servers : c > started' => server'[c].main = "none" /\ server'[c].mate = "none"
      <4> SUFFICES ASSUME NEW c \in Servers, c > started'
                   PROVE  server'[c].main = "none" /\ server'[c].mate = "none"
        OBVIOUS
      <4>1. server[c].main = "none" /\ server[c].mate = "none"
        BY <2>0 DEF Fresh
      <4> QED
        BY <2>6, <4>1
    <3>6. (\A z \in Sessions : session'[z].child <= started') /\ (\A c \in abandoned' : c <= started')
      BY <2>0, <3>2 DEF Fresh
    <3> QED
      BY <3>3, <3>4, <3>5, <3>6 DEF Fresh
  <2>9. OnlyCurrent' /\ ServerInStep'
    BY <2>3 DEF OnlyCurrent, ServerInStep, Ready
  <2>10. ProcessesAccounted'
    <3>1. \A c \in Servers \ abandoned : ~(server'[c].main = "running" \/ server'[c].mate = "running")
      BY <2>0, <2>5, <1>2 DEF ProcessesAccounted, Held
    <3> QED
      BY <3>1, <2>1 DEF ProcessesAccounted
  <2> QED
    BY <2>7, <2>8, <2>9, <2>10 DEF Core
<1> QED
  BY <1>1, <1>2

Runs(p) == p.main = "running" \/ p.mate = "running"

\* A session that was made changes, keeps or loses its server, and that
\* server alone is told of it.
LEMMA StepCore ==
  ASSUME Core, NEW s \in Sessions, NEW r \in Session,
         s > made => r = NewSession,
         session' = [session EXCEPT ![s] = r],
         r.child \in {0, session[s].child},
         server' \in [Servers -> Server],
         \A c \in Servers : server[c].main = "none" => server'[c].main = "none",
         \A c \in Servers : server[c].mate = "none" => server'[c].mate = "none",
         \A c \in Servers \ abandoned' : Runs(server'[c])
            => Runs(server[c]) /\ (c = session[s].child => c = r.child),
         \A c \in Servers : c # session[s].child => server'[c].view = server[c].view,
         (r.child # 0 /\ r.ready) => server'[r.child].view = r.doc,
         registered' = (IF session[s].child = r.child THEN registered ELSE 0),
         UNCHANGED <<current, made, started>>,
         idle' \in BOOLEAN /\ (idle' => current # 0),
         abandoned \subseteq abandoned', abandoned' \subseteq Servers,
         \A c \in abandoned' : c <= started
  PROVE  Core'
<1>0. CoreType /\ Fresh /\ OnlyCurrent /\ ProcessesAccounted /\ ServerInStep
  BY DEF Core
<1>1. session'[s] = r /\ \A z \in Sessions \ {s} : session'[z] = session[z]
  BY <1>0 DEF CoreType
<1>2. \A z \in Sessions : session[z] \in Session /\ session[z].child \in 0..MaxStarts
  BY <1>0 DEF CoreType, Session
<1>3. CoreType'
  <2>1. session' \in [Sessions -> Session]
    BY <1>0 DEF CoreType
  <2>2. registered' \in 0..MaxStarts
    BY <1>0, ServerAssumption DEF CoreType
  <2>3. idle' \in BOOLEAN /\ (idle' => current' # 0)
    OBVIOUS
  <2>4. /\ current' \in 0..MaxCalls /\ made' \in 0..MaxCalls /\ started' \in 0..MaxStarts
        /\ abandoned' \subseteq Servers
    BY <1>0 DEF CoreType
  <2> QED
    BY <2>1, <2>2, <2>3, <2>4 DEF CoreType
<1>4. Fresh'
  <2>1. current' <= made'
    BY <1>0 DEF Fresh
  <2>2. \A z \in Sessions : z > made' => session'[z] = NewSession
    BY <1>0, <1>1 DEF Fresh
  <2>3. \A c \in Servers : c > started' => server'[c].main = "none" /\ server'[c].mate = "none"
    <3> SUFFICES ASSUME NEW c \in Servers, c > started'
                 PROVE  server'[c].main = "none" /\ server'[c].mate = "none"
      OBVIOUS
    <3>1. server[c].main = "none" /\ server[c].mate = "none"
      BY <1>0 DEF Fresh
    <3> QED
      BY <3>1
  <2>4. \A z \in Sessions : session'[z].child <= started'
    <3>1. started \in Nat /\ session[s].child <= started
      BY <1>0, ServerAssumption DEF CoreType, Fresh
    <3>2. r.child <= started
      BY <3>1
    <3> QED
      BY <1>0, <1>1, <3>2 DEF Fresh
  <2> QED
    BY <2>1, <2>2, <2>3, <2>4 DEF Fresh
<1>5. OnlyCurrent'
  BY <1>0, <1>1 DEF OnlyCurrent
<1>6. ServerInStep'
  <2> SUFFICES ASSUME NEW z \in Sessions, session'[z].child # 0, session'[z].ready
               PROVE  server'[session'[z].child].view = session'[z].doc
    BY DEF ServerInStep, Ready
  <2>1. CASE z = s
    BY <1>1, <2>1
  <2>2. CASE z # s
    <3>1. session'[z] = session[z] /\ session[z].child \in Servers
      BY <1>1, <1>2, <2>2, ServerAssumption DEF Servers
    <3>2. z = current
      BY <1>0, <3>1 DEF OnlyCurrent
    <3>3. session[s].child = 0
      BY <1>0, <2>2, <3>2 DEF OnlyCurrent
    <3>4. server'[session[z].child].view = server[session[z].child].view
      BY <3>1, <3>3
    <3> QED
      BY <1>0, <3>1, <3>4 DEF ServerInStep, Ready
  <2> QED
    BY <2>1, <2>2
<1>7. ProcessesAccounted'
  <2>1. ASSUME NEW c \in Servers \ abandoned', Runs(server'[c])
        PROVE  current # 0 /\ session'[current].child = c
    <3>1. current # 0 /\ session[current].child = c
      BY <1>0, <2>1 DEF ProcessesAccounted, Held, Runs
    <3>2. CASE s = current
      BY <1>1, <2>1, <3>1, <3>2
    <3>3. CASE s # current
      <4>1. current \in Sessions
        BY <1>0, <3>1, ServerAssumption DEF CoreType, Sessions
      <4> QED
        BY <1>1, <3>1, <3>3, <4>1
    <3> QED
      BY <3>2, <3>3
  <2>2. registered' = IF current = 0 THEN 0 ELSE session'[current].child
    <3>1. CASE s = current
      <4>1. current # 0
        BY <3>1, ServerAssumption DEF Sessions
      <4> QED
        BY <1>0, <1>1, <3>1, <4>1 DEF ProcessesAccounted
    <3>2. CASE s # current
      <4>1. session[s].child = 0 /\ r.child = 0
        BY <1>0, <3>2 DEF OnlyCurrent
      <4>2. registered' = registered
        BY <4>1
      <4>3. current # 0 => session'[current] = session[current]
        BY <1>0, <1>1, <3>2, ServerAssumption DEF CoreType, Sessions
      <4> QED
        BY <1>0, <4>2, <4>3 DEF ProcessesAccounted
    <3> QED
      BY <3>1, <3>2
  <2> QED
    BY <2>1, <2>2 DEF ProcessesAccounted, Held, Runs
<1> QED
  BY <1>3, <1>4, <1>5, <1>6, <1>7 DEF Core

\* A session that is not made has never been touched.
LEMMA Untouched ==
  ASSUME Core, NEW s \in Sessions
  PROVE  /\ session[s] \in Session
         /\ s > made => session[s] = NewSession
         /\ session[s].child \in 0..MaxStarts
         /\ session[s].child <= started
  BY DEF Core, CoreType, Fresh, Session

\* A session loses its server, which is killed.
LEMMA KillCore ==
  ASSUME Core, NEW s \in Sessions, NEW p \in 0..MaxStarts,
         session' = [session EXCEPT ![s].child = 0, ![s].ready = FALSE, ![s].pending = p],
         s > made => p = 0,
         server' = Killed(session[s].child),
         registered' = Unregistered(s),
         UNCHANGED <<current, idle, made, started, abandoned>>
  PROVE  Core'
<1> DEFINE d == session[s].child
           r == [child |-> 0, pending |-> p, ready |-> FALSE, doc |-> session[s].doc]
<1>0. CoreType /\ Fresh
  BY DEF Core
<1>1. session[s] \in Session
  BY <1>0 DEF CoreType
<1>2. r \in Session
  BY <1>1, ServerAssumption DEF Session
<1>3. session' = [session EXCEPT ![s] = r]
  <2>1. session'[s] = r
    BY <1>0 DEF CoreType, Session
  <2>2. session' = [session EXCEPT ![s] = session'[s]]
    BY <1>0 DEF CoreType
  <2> QED
    BY <2>1, <2>2
<1>4. s > made => r = NewSession
  <2>1. s > made => session[s].doc = None /\ p = 0
    BY <1>0 DEF Fresh, NewSession
  <2> QED
    BY <2>1 DEF NewSession
<1>5. server' \in [Servers -> Server]
  <2>1. \A c \in Servers : server'[c] \in Server
    BY <1>0 DEF Killed, Ended, CoreType, Server, Process
  <2> QED
    BY <2>1 DEF Killed
<1>6. \A c \in Servers : server[c].main = "none" => server'[c].main = "none"
  BY <1>0 DEF Killed, Ended, CoreType, Server
<1>7. \A c \in Servers : server[c].mate = "none" => server'[c].mate = "none"
  BY <1>0 DEF Killed, Ended, CoreType, Server
<1>8. \A c \in Servers : Runs(server'[c]) => Runs(server[c]) /\ c # d
  BY <1>0 DEF Killed, Ended, CoreType, Server, Process, Runs
<1>9. \A c \in Servers : c # d => server'[c].view = server[c].view
  BY <1>0 DEF Killed
<1>10. registered' = IF d = r.child THEN registered ELSE 0
  BY DEF Unregistered
<1>11. /\ idle' \in BOOLEAN /\ (idle' => current # 0)
       /\ abandoned \subseteq abandoned' /\ abandoned' \subseteq Servers
       /\ \A c \in abandoned' : c <= started
  BY <1>0 DEF CoreType, Fresh
<1> HIDE DEF r
<1>12. r.child = 0
  BY DEF r
<1> QED
  BY <1>2, <1>3, <1>4, <1>5, <1>6, <1>7, <1>8, <1>9, <1>10, <1>11, <1>12, StepCore

\* The session of a start that failed, and of a query.
LEMMA TimeoutCore ==
  ASSUME Core, NEW s \in Sessions, StartTimesOut(s)
  PROVE  Core'
<1>1. session' = [session EXCEPT ![s].child = 0, ![s].ready = FALSE, ![s].pending = 0]
  <2>1. session \in [Sessions -> Session]
    BY DEF Core, CoreType
  <2> QED
    BY <2>1 DEF StartTimesOut, Reset, Session
<1>2. /\ server' = Killed(session[s].child) /\ registered' = Unregistered(s)
      /\ UNCHANGED <<current, idle, made, started, abandoned>>
  BY DEF StartTimesOut
<1>3. 0 \in 0..MaxStarts
  BY ServerAssumption
<1> QED
  BY <1>1, <1>2, <1>3, KillCore

LEMMA ResetCore ==
  ASSUME Core, NEW s \in Sessions,
         session' = Reset(s), server' = Killed(session[s].child),
         registered' = Unregistered(s),
         UNCHANGED <<current, idle, made, started, abandoned>>
  PROVE  Core'
<1>1. session \in [Sessions -> Session] /\ session[s].pending \in 0..MaxStarts
  BY DEF Core, CoreType, Session
<1>2. s > made => session[s].pending = 0
  BY DEF Core, Fresh, NewSession
<1>3. session' = [session EXCEPT ![s].child = 0, ![s].ready = FALSE, ![s].pending = session[s].pending]
  BY <1>1 DEF Reset, Session
<1> QED
  BY <1>1, <1>2, <1>3, KillCore

\* A start settles.
LEMMA AnsweredCore ==
  ASSUME Core, NEW s \in Sessions, StartAnswered(s)
  PROVE  Core'
<1> DEFINE d == session[s].child
           r == [child |-> d, pending |-> 0, ready |-> TRUE, doc |-> session[s].doc]
<1>0. CoreType /\ Fresh
  BY DEF Core
<1>1. session[s] \in Session /\ d \in 0..MaxStarts
  BY <1>0 DEF CoreType, Session
<1>2. r \in Session
  BY <1>1, ServerAssumption DEF Session
<1>3. session' = [session EXCEPT ![s] = r]
  <2>1. session'[s] = r
    BY <1>0 DEF CoreType, Session, StartAnswered
  <2>2. session' = [session EXCEPT ![s] = session'[s]]
    BY <1>0 DEF CoreType, StartAnswered
  <2> QED
    BY <2>1, <2>2
<1>4. s > made => r = NewSession
  <2>1. session[s].pending # 0
    BY DEF StartAnswered
  <2>2. ~(s > made)
    BY <1>0, <2>1 DEF Fresh, NewSession
  <2> QED
    BY <2>2
<1>5. server' = Replayed(s) /\ registered' = registered
  BY DEF StartAnswered
<1>6. server' \in [Servers -> Server]
  <2>1. \A c \in Servers : server'[c] \in Server
    BY <1>0, <1>1, <1>5 DEF Replayed, CoreType, Server, Session
  <2> QED
    BY <1>5, <2>1 DEF Replayed
<1>7. \A c \in Servers : server'[c].main = server[c].main /\ server'[c].mate = server[c].mate
  BY <1>0, <1>5 DEF Replayed, CoreType, Server
<1>8. \A c \in Servers : c # d => server'[c].view = server[c].view
  BY <1>5 DEF Replayed
<1>9. d # 0 => server'[d].view = session[s].doc
  BY <1>0, <1>1, <1>5, ServerAssumption DEF Replayed, CoreType, Server, Servers
<1>10. /\ idle' \in BOOLEAN /\ (idle' => current # 0)
       /\ abandoned \subseteq abandoned' /\ abandoned' \subseteq Servers
       /\ \A c \in abandoned' : c <= started
       /\ UNCHANGED <<current, made, started>>
  BY <1>0 DEF CoreType, Fresh, StartAnswered
<1>11. r.child = d /\ r.doc = session[s].doc
  OBVIOUS
<1>12. \A c \in Servers : Runs(server'[c]) => Runs(server[c])
  BY <1>7 DEF Runs
<1> HIDE DEF r
<1> QED
  BY <1>2, <1>3, <1>4, <1>5, <1>6, <1>7, <1>8, <1>9, <1>10, <1>11, <1>12, StepCore

LEMMA RefusedCore ==
  ASSUME Core, NEW s \in Sessions, StartRefused(s)
  PROVE  Core'
<1> DEFINE r == [child |-> session[s].child, pending |-> 0, ready |-> session[s].ready,
                 doc |-> session[s].doc]
<1>0. CoreType /\ Fresh /\ ServerInStep
  BY DEF Core
<1>1. session[s] \in Session
  BY <1>0 DEF CoreType, Session
<1>2. r \in Session
  BY <1>1, ServerAssumption DEF Session
<1>3. session' = [session EXCEPT ![s] = r]
  <2>1. [session[s] EXCEPT !.pending = 0] = r
    BY <1>1 DEF Session
  <2>2. session' = [session EXCEPT ![s] = [session[s] EXCEPT !.pending = 0]]
    BY <1>0, <1>1 DEF CoreType, Session, StartRefused
  <2> QED
    BY <2>1, <2>2
<1>4. s > made => r = NewSession
  <2>1. session[s].pending # 0
    BY DEF StartRefused
  <2>2. ~(s > made)
    BY <1>0, <2>1 DEF Fresh, NewSession
  <2> QED
    BY <2>2
<1>5. server' = server /\ registered' = registered
  BY DEF StartRefused
<1>6. server \in [Servers -> Server]
  BY <1>0 DEF CoreType
<1>7. r.child # 0 /\ r.ready => server'[r.child].view = r.doc
  BY <1>0, <1>5 DEF ServerInStep, Ready
<1>8. /\ idle' \in BOOLEAN /\ (idle' => current # 0)
      /\ abandoned \subseteq abandoned' /\ abandoned' \subseteq Servers
      /\ \A c \in abandoned' : c <= started
      /\ UNCHANGED <<current, made, started>>
  BY <1>0 DEF CoreType, Fresh, StartRefused
<1>9. r.child = session[s].child
  OBVIOUS
<1> HIDE DEF r
<1> QED
  BY <1>2, <1>3, <1>4, <1>5, <1>6, <1>7, <1>8, <1>9, StepCore

\* The document changes, and the server is told.
LEMMA SentCore ==
  ASSUME Core, NEW s \in Sessions, NEW t \in Docs, s <= made,
         session' = [session EXCEPT ![s].doc = t],
         server' = Sent(s, t),
         UNCHANGED <<current, made, started, registered, abandoned>>,
         idle' \in BOOLEAN /\ (idle' => current # 0)
  PROVE  Core'
<1> DEFINE d == session[s].child
           r == [child |-> d, pending |-> session[s].pending, ready |-> session[s].ready, doc |-> t]
<1>0. CoreType /\ Fresh
  BY DEF Core
<1>1. session[s] \in Session /\ d \in 0..MaxStarts
  BY <1>0 DEF CoreType, Session
<1>2. r \in Session
  BY <1>1 DEF Session
<1>3. session' = [session EXCEPT ![s] = r]
  <2>1. [session[s] EXCEPT !.doc = t] = r
    BY <1>1 DEF Session
  <2>2. session' = [session EXCEPT ![s] = [session[s] EXCEPT !.doc = t]]
    BY <1>0, <1>1 DEF CoreType, Session
  <2> QED
    BY <2>1, <2>2
<1>4. s > made => r = NewSession
  BY <1>0, ServerAssumption DEF CoreType, Sessions
<1>5. server' \in [Servers -> Server]
  <2>1. \A c \in Servers : server'[c] \in Server
    BY <1>0 DEF Sent, CoreType, Server
  <2> QED
    BY <2>1 DEF Sent
<1>6. \A c \in Servers : server'[c].main = server[c].main /\ server'[c].mate = server[c].mate
  BY <1>0 DEF Sent, CoreType, Server
<1>7. \A c \in Servers : c # d => server'[c].view = server[c].view
  BY DEF Sent
<1>8. d # 0 => server'[d].view = t
  BY <1>0, <1>1, ServerAssumption DEF Sent, CoreType, Server, Servers
<1>9. /\ abandoned \subseteq abandoned' /\ abandoned' \subseteq Servers
      /\ \A c \in abandoned' : c <= started
  BY <1>0 DEF CoreType, Fresh
<1>10. r.child = d /\ r.doc = t
  OBVIOUS
<1>11. \A c \in Servers : Runs(server'[c]) => Runs(server[c])
  BY <1>6 DEF Runs
<1>12. registered' = registered /\ UNCHANGED <<current, made, started>>
  OBVIOUS
<1>13. \A c \in Servers \ abandoned' : Runs(server'[c])
          => Runs(server[c]) /\ (c = session[s].child => c = r.child)
  BY <1>11
<1>14. r.child # 0 /\ r.ready => server'[r.child].view = r.doc
  BY <1>8
<1>15. registered' = IF session[s].child = r.child THEN registered ELSE 0
  BY <1>12
<1>16. /\ \A c \in Servers : server[c].main = "none" => server'[c].main = "none"
       /\ \A c \in Servers : server[c].mate = "none" => server'[c].mate = "none"
  BY <1>6
<1>17. r.child \in {0, session[s].child}
  OBVIOUS
<1> HIDE DEF r
<1> QED
  BY <1>2, <1>3, <1>4, <1>5, <1>7, <1>9, <1>12, <1>13, <1>14, <1>15, <1>16, <1>17, StepCore

\* A start: for the session of the map, or for one just put there.
LEMMA SpawnCore ==
  ASSUME Core, NEW s \in Sessions, Spawn(s),
         \/ s = current /\ UNCHANGED <<current, idle, made>>
         \/ current = 0 /\ s = made + 1 /\ current' = s /\ made' = s /\ ~idle'
            /\ idle' \in BOOLEAN
  PROVE  Core'
<1> DEFINE c == started + 1
           d == session[s].child
           r == [child |-> c, pending |-> c, ready |-> FALSE, doc |-> session[s].doc]
           n == [main |-> "running", mate |-> IF Companion THEN "running" ELSE "none",
                 view |-> None]
<1>0. CoreType /\ Fresh /\ OnlyCurrent /\ ProcessesAccounted /\ ServerInStep
  BY DEF Core
<1>1. /\ started < MaxStarts /\ started' = c
      /\ session' = [session EXCEPT ![s].child = c, ![s].pending = c, ![s].ready = FALSE]
      /\ server' = [server EXCEPT ![c] = n]
      /\ registered' = c
      /\ abandoned' = abandoned \cup ({d} \ {0})
  BY DEF Spawn
<1>2. c \in Servers /\ c \in 0..MaxStarts /\ c # 0 /\ started \in Nat /\ d \in 0..MaxStarts
  BY <1>0, <1>1, ServerAssumption DEF CoreType, Servers, Session
<1>3. session'[s] = r /\ \A z \in Sessions \ {s} : session'[z] = session[z]
  BY <1>0, <1>1 DEF CoreType, Session
<1>4. server'[c] = n /\ \A i \in Servers \ {c} : server'[i] = server[i]
  BY <1>0, <1>1, <1>2 DEF CoreType
<1>5. s = current' /\ s <= made' /\ made <= made'
  <2>1. CASE s = current /\ UNCHANGED <<current, idle, made>>
    BY <1>0, <2>1, ServerAssumption DEF CoreType, Fresh
  <2>2. CASE current = 0 /\ s = made + 1 /\ current' = s /\ made' = s
    BY <1>0, <2>2, ServerAssumption DEF CoreType
  <2> QED
    BY <2>1, <2>2
<1>6. CoreType'
  <2>1. session' \in [Sessions -> Session]
    <3>1. session[s].doc \in Docs
      BY <1>0 DEF CoreType, Session
    <3>2. r \in Session
      BY <1>2, <3>1 DEF Session
    <3>3. session' = [session EXCEPT ![s] = session'[s]]
      BY <1>0, <1>1 DEF CoreType
    <3> QED
      BY <1>0, <1>3, <3>2, <3>3 DEF CoreType
  <2>2. server' \in [Servers -> Server]
    <3>1. n \in Server
      BY DEF Server, Process, Docs
    <3> QED
      BY <1>0, <1>1, <3>1 DEF CoreType
  <2>3. idle' \in BOOLEAN /\ (idle' => current' # 0)
    BY <1>0 DEF CoreType
  <2>4. current' \in 0..MaxCalls /\ made' \in 0..MaxCalls
    BY <1>0, ServerAssumption DEF CoreType, Sessions
  <2>5. abandoned' \subseteq Servers
    BY <1>0, <1>1, <1>2, ServerAssumption DEF CoreType, Servers
  <2> QED
    BY <1>1, <1>2, <2>1, <2>2, <2>3, <2>4, <2>5 DEF CoreType
<1>7. Fresh'
  <2>1. current' <= made'
    BY <1>5
  <2>2. \A z \in Sessions : z > made' => session'[z] = NewSession
    BY <1>0, <1>3, <1>5, ServerAssumption DEF Fresh, CoreType, Sessions
  <2>3. \A i \in Servers : i > started' => server'[i].main = "none" /\ server'[i].mate = "none"
    <3> SUFFICES ASSUME NEW i \in Servers, i > c
                 PROVE  server'[i].main = "none" /\ server'[i].mate = "none"
      BY <1>1
    <3>1. i # c /\ i > started
      BY <1>2 DEF Servers
    <3> QED
      BY <1>0, <1>4, <3>1 DEF Fresh
  <2>4. \A z \in Sessions : session'[z].child <= started'
    <3>1. \A z \in Sessions : session[z].child \in Nat /\ session[z].child <= started
      BY <1>0, ServerAssumption DEF Fresh, CoreType, Session
    <3>2. session'[s].child = c
      BY <1>3
    <3>3. \A z \in Sessions \ {s} : session'[z].child = session[z].child
      BY <1>3
    <3>4. ASSUME NEW z \in Sessions PROVE session'[z].child <= c
      <4>1. CASE z = s
        BY <1>2, <3>2, <4>1
      <4>2. CASE z # s
        BY <1>2, <3>1, <3>3, <4>2
      <4> QED
        BY <4>1, <4>2
    <3> QED
      BY <1>1, <3>4
  <2>5. \A i \in abandoned' : i <= started'
    <3>1. \A i \in abandoned : i \in Nat /\ i <= started
      BY <1>0, ServerAssumption DEF Fresh, CoreType, Servers
    <3>2. d <= started
      BY <1>0 DEF Fresh
    <3> QED
      BY <1>1, <1>2, <3>1, <3>2
  <2> QED
    BY <2>1, <2>2, <2>3, <2>4, <2>5 DEF Fresh
<1>8. OnlyCurrent'
  <2> SUFFICES ASSUME NEW z \in Sessions, z # s PROVE session'[z].child = 0
    BY <1>5 DEF OnlyCurrent
  <2>1. z # current
    BY ServerAssumption DEF Sessions
  <2> QED
    BY <1>0, <1>3, <2>1 DEF OnlyCurrent
<1>9. ServerInStep'
  <2> SUFFICES ASSUME NEW z \in Sessions, session'[z].child # 0, session'[z].ready
               PROVE  FALSE
    BY DEF ServerInStep, Ready
  <2>1. z = s
    BY <1>5, <1>8 DEF OnlyCurrent
  <2>2. ~r.ready
    OBVIOUS
  <2> QED
    BY <1>3, <2>1, <2>2
<1>10. ProcessesAccounted'
  <2>1. current' # 0 /\ session'[current'].child = c
    BY <1>3, <1>5, ServerAssumption DEF Sessions
  <2>2. registered' = IF current' = 0 THEN 0 ELSE session'[current'].child
    BY <1>1, <2>1
  <2>3. ASSUME NEW i \in Servers \ abandoned', Runs(server'[i])
        PROVE  i = c
    <3> SUFFICES ASSUME i # c PROVE FALSE
      OBVIOUS
    <3>1. Runs(server[i]) /\ i \notin abandoned
      BY <1>1, <1>4, <2>3
    <3>2. current # 0 /\ session[current].child = i
      BY <1>0, <3>1 DEF ProcessesAccounted, Held, Runs
    <3>3. i = d
      BY <3>2
    <3>4. i # 0
      BY ServerAssumption DEF Servers
    <3> QED
      BY <1>1, <2>3, <3>3, <3>4
  <2> QED
    BY <2>1, <2>2, <2>3 DEF ProcessesAccounted, Held, Runs
<1> QED
  BY <1>6, <1>7, <1>8, <1>9, <1>10 DEF Core

\* A process exits on its own.
LEMMA MainExitsCore ==
  ASSUME Core, NEW c \in Servers, MainExits(c)
  PROVE  Core'
<1>0. CoreType /\ Fresh /\ OnlyCurrent /\ ProcessesAccounted /\ ServerInStep
  BY DEF Core
<1>1. /\ server[c].main = "running"
      /\ UNCHANGED <<current, idle, made, started, abandoned>>
  BY DEF MainExits, Ends
<1>2. CASE \E s \in Sessions : /\ session[s].child = c
                               /\ session' = Reset(s)
                               /\ registered' = Unregistered(s)
                               /\ server' = [server EXCEPT ![c].main = "ended", ![c].mate = Ended(@)]
  <2>1. PICK s \in Sessions : /\ session[s].child = c
                              /\ session' = Reset(s)
                              /\ registered' = Unregistered(s)
                              /\ server' = [server EXCEPT ![c].main = "ended", ![c].mate = Ended(@)]
    BY <1>2
  <2>2. server' = Killed(c)
    <3>1. server \in [Servers -> Server]
      BY <1>0 DEF CoreType
    <3>2. server' = [i \in Servers |-> IF i = c
                       THEN [server[i] EXCEPT !.main = "ended", !.mate = Ended(server[i].mate)]
                       ELSE server[i]]
      BY <2>1, <3>1 DEF Server
    <3>3. Ended(server[c].main) = "ended"
      BY <1>1 DEF Ended
    <3> QED
      BY <3>2, <3>3 DEF Killed
  <2> QED
    BY <1>1, <2>1, <2>2, ResetCore
<1>3. CASE /\ server' = [server EXCEPT ![c].main = "ended"]
           /\ UNCHANGED <<session, registered>>
  <2>1. server' \in [Servers -> Server]
    <3>1. \A i \in Servers : server'[i] \in Server
      BY <1>0, <1>3 DEF CoreType, Server, Process
    <3> QED
      BY <1>0, <1>3, <3>1 DEF CoreType
  <2>2. \A i \in Servers : /\ server'[i].view = server[i].view
                           /\ Runs(server'[i]) => Runs(server[i])
                           /\ server[i].main = "none" => server'[i].main = "none"
                           /\ server'[i].mate = server[i].mate
    BY <1>0, <1>1, <1>3 DEF CoreType, Server, Runs
  <2>3. CoreType'
    BY <1>0, <1>1, <1>3, <2>1 DEF CoreType
  <2>4. Fresh'
    <3>1. \A i \in Servers : i > started' => server'[i].main = "none" /\ server'[i].mate = "none"
      BY <1>0, <1>1, <2>2 DEF Fresh
    <3> QED
      BY <1>0, <1>1, <1>3, <3>1 DEF Fresh
  <2>5. OnlyCurrent'
    BY <1>0, <1>1, <1>3 DEF OnlyCurrent
  <2>6. ProcessesAccounted'
    BY <1>0, <1>1, <1>3, <2>2 DEF ProcessesAccounted, Held, Runs
  <2>7. ServerInStep'
    <3>1. \A s \in Sessions : session[s].child # 0 => session[s].child \in Servers
      BY <1>0, ServerAssumption DEF CoreType, Session, Servers
    <3> QED
      BY <1>0, <1>3, <2>2, <3>1 DEF ServerInStep, Ready
  <2> QED
    BY <2>3, <2>4, <2>5, <2>6, <2>7 DEF Core
<1> QED
  BY <1>2, <1>3 DEF MainExits

LEMMA MateExitsCore ==
  ASSUME Core, NEW c \in Servers, MateExits(c)
  PROVE  Core'
<1>0. CoreType /\ Fresh /\ OnlyCurrent /\ ProcessesAccounted /\ ServerInStep
  BY DEF Core
<1>1. /\ server[c].mate = "running"
      /\ server' = [server EXCEPT ![c].mate = "ended"]
      /\ UNCHANGED <<current, idle, made, started>>
  BY DEF MateExits, Ends
<1>2. server' \in [Servers -> Server]
  <2>1. \A i \in Servers : server'[i] \in Server
    BY <1>0, <1>1 DEF CoreType, Server, Process
  <2> QED
    BY <1>0, <1>1, <2>1 DEF CoreType
<1>3. \A i \in Servers : /\ server'[i].view = server[i].view
                         /\ Runs(server'[i]) => Runs(server[i])
                         /\ server'[i].main = server[i].main
                         /\ server[i].mate = "none" => server'[i].mate = "none"
  BY <1>0, <1>1 DEF CoreType, Server, Runs
<1>4. c <= started
  BY <1>0, <1>1, ServerAssumption DEF Fresh, CoreType, Servers
<1>5. CASE \E s \in Sessions : /\ session[s].child = c
                               /\ session' = Reset(s)
                               /\ registered' = Unregistered(s)
                               /\ abandoned' = abandoned \cup {c}
  <2>1. PICK s \in Sessions : /\ session[s].child = c
                              /\ session' = Reset(s)
                              /\ registered' = Unregistered(s)
                              /\ abandoned' = abandoned \cup {c}
    BY <1>5
  <2> DEFINE r == [child |-> 0, pending |-> session[s].pending, ready |-> FALSE,
                   doc |-> session[s].doc]
  <2>2. session[s] \in Session /\ c # 0
    BY <1>0, ServerAssumption DEF CoreType, Servers
  <2>3. r \in Session
    BY <2>2, ServerAssumption DEF Session
  <2>4. session' = [session EXCEPT ![s] = r]
    <3>1. session'[s] = r
      BY <1>0, <2>1 DEF CoreType, Session, Reset
    <3>2. session' = [session EXCEPT ![s] = session'[s]]
      BY <1>0, <2>1 DEF CoreType, Reset
    <3> QED
      BY <3>1, <3>2
  <2>5. s > made => r = NewSession
    <3>1. ~(s > made)
      BY <1>0, <2>1, <2>2 DEF Fresh, NewSession
    <3> QED
      BY <3>1
  <2>6. \A i \in Servers \ abandoned' : Runs(server'[i])
          => Runs(server[i]) /\ (i = session[s].child => i = r.child)
    BY <1>3, <2>1
  <2>7. \A i \in Servers : i # session[s].child => server'[i].view = server[i].view
    BY <1>3
  <2>8. registered' = IF session[s].child = r.child THEN registered ELSE 0
    BY <2>1, <2>2 DEF Unregistered
  <2>9. /\ idle' \in BOOLEAN /\ (idle' => current # 0)
        /\ abandoned \subseteq abandoned' /\ abandoned' \subseteq Servers
        /\ \A i \in abandoned' : i <= started
        /\ UNCHANGED <<current, made, started>>
    BY <1>0, <1>1, <1>4, <2>1 DEF CoreType, Fresh
  <2>10. r.child = 0
    OBVIOUS
  <2>11. /\ \A i \in Servers : server[i].main = "none" => server'[i].main = "none"
         /\ \A i \in Servers : server[i].mate = "none" => server'[i].mate = "none"
    BY <1>3
  <2> HIDE DEF r
  <2> QED
    BY <1>2, <2>3, <2>4, <2>5, <2>6, <2>7, <2>8, <2>9, <2>10, <2>11, StepCore
<1>6. CASE UNCHANGED <<session, registered, abandoned>>
  <2>3. CoreType'
    BY <1>0, <1>1, <1>2, <1>6 DEF CoreType
  <2>4. Fresh'
    <3>1. \A i \in Servers : i > started' => server'[i].main = "none" /\ server'[i].mate = "none"
      BY <1>0, <1>1, <1>3 DEF Fresh
    <3> QED
      BY <1>0, <1>1, <1>6, <3>1 DEF Fresh
  <2>5. OnlyCurrent'
    BY <1>0, <1>1, <1>6 DEF OnlyCurrent
  <2>6. ProcessesAccounted'
    BY <1>0, <1>1, <1>3, <1>6 DEF ProcessesAccounted, Held, Runs
  <2>7. ServerInStep'
    <3>1. \A s \in Sessions : session[s].child # 0 => session[s].child \in Servers
      BY <1>0, ServerAssumption DEF CoreType, Session, Servers
    <3> QED
      BY <1>0, <1>6, <1>3, <3>1 DEF ServerInStep, Ready
  <2> QED
    BY <2>3, <2>4, <2>5, <2>6, <2>7 DEF Core
<1> QED
  BY <1>5, <1>6 DEF MateExits

----------------------------------------------------------------------------
(* The commands.                                                           *)

Typed ==
  /\ mode \in {"auto", "off"}
  /\ closing \in BOOLEAN
  /\ calls \in 0..MaxCalls /\ exits \in 0..MaxExits

\* While nothing is due, no command is between two awaits.
LEMMA QuietPlaces ==
  ASSUME Placed, Quiet, NEW k \in Callers
  PROVE  call[k].due = "no" /\ call[k].at # "op"
  BY DEF Placed, Stands, Quiet

\* No command moves; one that stands before an operation keeps its session.
LEMMA CallsSame ==
  ASSUME Calls, Typed', UNCHANGED call, made' = made,
         \/ UNCHANGED <<mode, current>>
         \/ \A k \in Callers : call[k].at # "op"
  PROVE  Calls'
  BY DEF Calls, Typed, Placed, Stands

\* One command moves.
LEMMA CallsOne ==
  ASSUME Calls, Typed', NEW k \in Callers, NEW r \in Call,
         call' = [call EXCEPT ![k] = r],
         made \in Nat, made' \in Nat, made <= made',
         r.at \in {"start", "op", "opstart", "query"} => r.session \in Sessions /\ r.session <= made',
         r.at = "op" => mode' = "auto" /\ r.due = "ok" /\ r.session = current',
         r.due # "no" => r.at \in {"start", "op", "opstart"},
         \/ r.due = "no"
         \/ r.due = "ok" /\ \A j \in Callers \ {k} : call[j].due \in {"no", "ok"},
         \/ UNCHANGED <<mode, current>>
         \/ \A j \in Callers \ {k} : call[j].at # "op"
  PROVE  Calls'
<1>1. call \in [Callers -> Call] /\ Placed
  BY DEF Calls
<1>2. call'[k] = r /\ \A j \in Callers \ {k} : call'[j] = call[j]
  BY <1>1
<1>3. call' \in [Callers -> Call]
  BY <1>1
<1>4. ASSUME NEW j \in Callers PROVE Stands(call[j])'
  <2>1. CASE j = k
    BY <1>2, <2>1 DEF Stands
  <2>2. CASE j # k
    <3>1. call'[j] = call[j] /\ Stands(call[j])
      BY <1>1, <1>2, <2>2 DEF Placed
    <3>2. \A z \in Sessions : z <= made => z <= made'
      BY DEF Sessions
    <3> QED
      BY <2>2, <3>1, <3>2 DEF Stands
  <2> QED
    BY <2>1, <2>2
<1>5. ASSUME NEW i \in Callers, NEW j \in Callers, call'[i].due = "ok"
      PROVE  call'[j].due \in {"no", "ok"}
  <2>1. CASE r.due = "no"
    <3>1. i # k /\ call[i].due = "ok"
      BY <1>2, <1>5, <2>1
    <3> QED
      BY <1>1, <1>2, <2>1, <3>1 DEF Placed
  <2>2. CASE r.due = "ok" /\ \A z \in Callers \ {k} : call[z].due \in {"no", "ok"}
    BY <1>2, <2>2
  <2> QED
    BY <2>1, <2>2
<1> QED
  BY <1>3, <1>4, <1>5 DEF Calls, Typed, Placed

LEMMA NoCallStands ==
  /\ NoCall \in Call /\ NoCall.at = "returned" /\ NoCall.due = "no"
  BY ServerAssumption DEF NoCall, Call, Ops, Docs

\* A command returns.
LEMMA CallsReturned ==
  ASSUME Calls, Typed', NEW k \in Callers, call' = Returned(k),
         made \in Nat, made' = made,
         \/ UNCHANGED <<mode, current>>
         \/ \A j \in Callers \ {k} : call[j].at # "op"
  PROVE  Calls'
<1>1. call' = [call EXCEPT ![k] = NoCall] /\ made <= made' /\ made' \in Nat
  BY DEF Returned
<1> QED
  BY <1>1, NoCallStands, CallsOne

\* A start settles for all who wait.
LEMMA CallsSettled ==
  ASSUME Calls, Typed', NEW s \in Sessions, NEW o \in {"ok", "error", "timeout"},
         Quiet, call' = Settled(s, o), UNCHANGED <<mode, current, made>>
  PROVE  Calls'
<1>1. call \in [Callers -> Call] /\ Placed
  BY DEF Calls
<1>2. \A k \in Callers : call[k].due = "no" /\ call[k].at # "op"
  BY <1>1, QuietPlaces
<1>3. ASSUME NEW k \in Callers
      PROVE  /\ call'[k] \in Call
             /\ call'[k].at = call[k].at /\ call'[k].session = call[k].session
             /\ call'[k].due \in {"no", o}
             /\ call'[k].due # "no" => call[k].at \in {"start", "opstart"}
  <2>1. CASE k \in Waiting(s)
    <3>1. call'[k] = [call[k] EXCEPT !.due = o]
      BY <2>1 DEF Settled
    <3>2. call[k].at \in {"start", "opstart"}
      BY <2>1 DEF Waiting
    <3> QED
      BY <1>1, <3>1, <3>2 DEF Call
  <2>2. CASE k \notin Waiting(s)
    <3>1. call'[k] = call[k]
      BY <2>2 DEF Settled
    <3> QED
      BY <1>1, <1>2, <3>1
  <2> QED
    BY <2>1, <2>2
<1>4. call' \in [Callers -> Call]
  BY <1>3 DEF Settled
<1>5. ASSUME NEW k \in Callers PROVE Stands(call[k])'
  <2>1. Stands(call[k])
    BY <1>1 DEF Placed
  <2>2. call[k].at # "op"
    BY <1>2
  <2> QED
    BY <1>3, <2>1, <2>2 DEF Stands
<1>6. \A i, j \in Callers : call'[i].due = "ok" => call'[j].due \in {"no", "ok"}
  BY <1>3
<1> QED
  BY <1>4, <1>5, <1>6 DEF Calls, Typed, Placed

----------------------------------------------------------------------------
(* Every step keeps the invariant.                                         *)

\* A start of a caller, for the session of the map.
LEMMA StartsStep ==
  ASSUME Core, Calls, NEW k \in Callers, NEW s \in Sessions, NEW at \in {"start", "opstart"},
         Starts(k, s, at), Typed', mode' = mode,
         \A j \in Callers \ {k} : call[j].due \in {"no", "ok"},
         \/ s = current /\ UNCHANGED <<current, idle, made>>
         \/ /\ current = 0 /\ s = made + 1 /\ current' = s /\ made' = s /\ ~idle'
            /\ idle' \in BOOLEAN
            /\ \A j \in Callers : call[j].at # "op"
  PROVE  Core' /\ Calls'
<1>0. /\ CoreType /\ Fresh /\ call \in [Callers -> Call] /\ made \in Nat
      /\ session[s] \in Session
  BY ServerAssumption DEF Core, CoreType, Calls
<1>1. s <= made' /\ made <= made' /\ made' \in Nat
  <2>1. CASE s = current /\ UNCHANGED <<current, idle, made>>
    BY <1>0, <2>1 DEF Fresh
  <2>2. CASE s = made + 1 /\ made' = s
    BY <1>0, <2>2
  <2> QED
    BY <2>1, <2>2
<1>2. \/ UNCHANGED <<mode, current>>
      \/ \A j \in Callers \ {k} : call[j].at # "op"
  OBVIOUS
<1>3. s = current \/ session[s] = NewSession
  <2>1. s = made + 1 => s > made
    BY <1>0
  <2> QED
    BY <1>0, <2>1 DEF Fresh
<1>4. \E due \in {"no", "ok"} :
        call' = [call EXCEPT ![k].at = at, ![k].session = s, ![k].due = due]
  BY DEF Starts
<1>5. PICK due \in {"no", "ok"} :
        call' = [call EXCEPT ![k].at = at, ![k].session = s, ![k].due = due]
  BY <1>4
<1>6. Calls'
  <2> DEFINE r == [at |-> at, due |-> due, op |-> call[k].op, text |-> call[k].text,
                   session |-> s]
  <2>1. r \in Call
    BY <1>0, ServerAssumption DEF Call, Sessions
  <2>2. call' = [call EXCEPT ![k] = r]
    <3>1. call'[k] = r
      BY <1>0, <1>5 DEF Call
    <3>2. call' = [call EXCEPT ![k] = call'[k]]
      BY <1>0, <1>5
    <3> QED
      BY <3>1, <3>2
  <2>3. r.at = at /\ r.due = due /\ r.session = s
    OBVIOUS
  <2> HIDE DEF r
  <2> QED
    BY <1>0, <1>1, <1>2, <2>1, <2>2, <2>3, CallsOne
<1>7. CASE Spawn(s)
  <2>1. Core'
    BY <1>7, SpawnCore
  <2> QED
    BY <1>6, <2>1
<1>8. CASE /\ UNCHANGED <<session, server, registered, started, abandoned>>
           /\ (session[s].child # 0 \/ session[s].pending # 0)
  <2>1. session[s] # NewSession
    BY <1>8 DEF NewSession
  <2>2. UNCHANGED core
    BY <1>3, <1>8, <2>1 DEF core, Sessions
  <2> QED
    BY <1>6, <2>2, CoreSame
<1> QED
  BY <1>7, <1>8 DEF Starts, Ready

LEMMA CommandStep ==
  ASSUME Core, Calls, NEW k \in Callers, NEW op \in Ops, NEW t \in Docs, Command(k, op, t)
  PROVE  Core' /\ Calls'
<1>0. call \in [Callers -> Call] /\ Placed /\ Typed /\ made \in Nat
  BY ServerAssumption DEF Calls, Typed, Core, CoreType
<1>1. /\ Quiet /\ calls' = calls + 1 /\ calls < MaxCalls
      /\ call' = [call EXCEPT ![k].at = "resolve", ![k].op = op, ![k].text = t]
      /\ UNCHANGED <<mode, closing, current, idle, session, server, registered, made, started,
                     exits, abandoned>>
  BY DEF Command
<1>2. Core'
  BY <1>1, CoreSame DEF core
<1>3. Typed'
  BY <1>0, <1>1, ServerAssumption DEF Typed
<1> DEFINE r == [at |-> "resolve", due |-> call[k].due, op |-> op, text |-> t,
                 session |-> call[k].session]
<1>4. r \in Call
  BY <1>0 DEF Call
<1>5. call' = [call EXCEPT ![k] = r]
  <2>1. call'[k] = r
    BY <1>0, <1>1 DEF Call
  <2>2. call' = [call EXCEPT ![k] = call'[k]]
    BY <1>0, <1>1
  <2> QED
    BY <2>1, <2>2
<1>6. r.at = "resolve" /\ r.due = "no"
  BY <1>0, <1>1, QuietPlaces
<1>7. UNCHANGED <<mode, current>> /\ made <= made' /\ made' \in Nat
  BY <1>0, <1>1
<1> HIDE DEF r
<1> QED
  BY <1>0, <1>2, <1>3, <1>4, <1>5, <1>6, <1>7, CallsOne

\* The commands that return and leave the rest alone.
LEMMA ReturnStep ==
  ASSUME Core, Calls, NEW k \in Callers, call' = Returned(k),
         UNCHANGED <<mode, closing, current, idle, session, server, registered, made, calls,
                     started, exits, abandoned>>
  PROVE  Core' /\ Calls'
<1>1. Core'
  BY CoreSame DEF core
<1>2. Typed' /\ made \in Nat
  BY ServerAssumption DEF Calls, Typed, Core, CoreType
<1>3. UNCHANGED <<mode, current>> /\ made' = made
  OBVIOUS
<1> QED
  BY <1>1, <1>2, <1>3, CallsReturned

LEMMA ToolResolvedStep ==
  ASSUME Core, Calls, NEW k \in Callers, ToolResolved(k)
  PROVE  Core' /\ Calls'
<1>0. call \in [Callers -> Call] /\ Placed /\ Typed /\ made \in Nat
  BY ServerAssumption DEF Calls, Typed, Core, CoreType
<1>1. /\ Quiet /\ call' = [call EXCEPT ![k].at = "compose"]
      /\ UNCHANGED <<mode, closing, current, idle, session, server, registered, made, calls,
                     started, exits, abandoned>>
  BY DEF ToolResolved
<1>2. Core'
  BY <1>1, CoreSame DEF core
<1>3. Typed'
  BY <1>0, <1>1 DEF Typed
<1> DEFINE r == [call[k] EXCEPT !.at = "compose"]
<1>4. r \in Call /\ r.at = "compose" /\ r.due = call[k].due
  BY <1>0 DEF Call
<1>5. call' = [call EXCEPT ![k] = r]
  BY <1>1
<1>6. r.due = "no"
  BY <1>0, <1>1, <1>4, QuietPlaces
<1>7. UNCHANGED <<mode, current>> /\ made <= made' /\ made' \in Nat
  BY <1>0, <1>1
<1> HIDE DEF r
<1> QED
  BY <1>0, <1>2, <1>3, <1>4, <1>5, <1>6, <1>7, CallsOne

LEMMA SessionObtainedStep ==
  ASSUME Core, Calls, NEW k \in Callers, SessionObtained(k)
  PROVE  Core' /\ Calls'
<1>0. /\ Placed /\ Typed /\ current \in 0..MaxCalls /\ made \in 0..MaxCalls
  BY DEF Calls, Typed, Core, CoreType
<1>1. Quiet /\ UNCHANGED <<mode, closing, calls, exits>>
  BY DEF SessionObtained
<1>2. Typed' /\ mode' = mode
  BY <1>0, <1>1 DEF Typed
<1>3. \A j \in Callers : call[j].due = "no" /\ call[j].at # "op"
  BY <1>0, <1>1, QuietPlaces
<1>4. CASE current # 0 /\ Starts(k, current, "start") /\ UNCHANGED <<current, idle, made>>
  <2>1. current \in Sessions
    BY <1>0, <1>4, ServerAssumption DEF Sessions
  <2> QED
    BY <1>2, <1>3, <1>4, <2>1, StartsStep
<1>5. CASE /\ current = 0 /\ made < MaxCalls
           /\ made' = made + 1 /\ current' = made + 1 /\ idle' = FALSE
           /\ Starts(k, made + 1, "start")
  <2> DEFINE s == made + 1
  <2>1. s \in Sessions
    BY <1>0, <1>5, ServerAssumption DEF Sessions
  <2>2. ~idle' /\ idle' \in BOOLEAN
    BY <1>5
  <2>3. current = 0 /\ s = made + 1 /\ current' = s /\ made' = s /\ Starts(k, s, "start")
    BY <1>5
  <2> HIDE DEF s
  <2> QED
    BY <1>2, <1>3, <2>1, <2>2, <2>3, StartsStep
<1> QED
  BY <1>4, <1>5 DEF SessionObtained

LEMMA EnsureReadyStep ==
  ASSUME Core, Calls, NEW k \in Callers, EnsureReady(k)
  PROVE  Core' /\ Calls'
<1>0. /\ CoreType /\ Fresh /\ Placed /\ Typed /\ call \in [Callers -> Call] /\ made \in Nat
  BY ServerAssumption DEF Calls, Typed, Core, CoreType
<1>1. /\ call[k].due = "ok" /\ mode = "auto" /\ idle' = (current # 0)
      /\ UNCHANGED <<mode, closing, current, session, server, registered, made, calls, started,
                     exits, abandoned>>
  BY DEF EnsureReady, Bump
<1>2. Typed' /\ UNCHANGED <<mode, current>> /\ made' = made /\ made' \in Nat /\ made <= made'
  BY <1>0, <1>1 DEF Typed
<1>3. Core'
  <2>1. idle' \in BOOLEAN /\ (idle' => current # 0)
    BY <1>1
  <2>2. CoreType'
    BY <1>0, <1>1, <2>1 DEF CoreType
  <2>3. Fresh' /\ OnlyCurrent' /\ ProcessesAccounted' /\ ServerInStep'
    BY <1>1 DEF Core, Fresh, OnlyCurrent, ProcessesAccounted, Held, ServerInStep, Ready
  <2> QED
    BY <2>2, <2>3 DEF Core
<1>4. CASE call' = Returned(k)
  BY <1>0, <1>2, <1>3, <1>4, CallsReturned
<1>5. CASE current # 0 /\ call' = [call EXCEPT ![k].at = "op", ![k].session = current]
  <2> DEFINE r == [at |-> "op", due |-> "ok", op |-> call[k].op, text |-> call[k].text,
                   session |-> current]
  <2>1. r \in Call
    BY <1>0 DEF Call, CoreType
  <2>2. call' = [call EXCEPT ![k] = r]
    <3>1. call'[k] = r
      BY <1>0, <1>1, <1>5 DEF Call
    <3>2. call' = [call EXCEPT ![k] = call'[k]]
      BY <1>0, <1>5
    <3> QED
      BY <3>1, <3>2
  <2>3. r.at = "op" /\ r.due = "ok" /\ r.session = current
    OBVIOUS
  <2>4. current \in Sessions /\ current <= made
    BY <1>0, <1>5, ServerAssumption DEF CoreType, Fresh, Sessions
  <2>5. \A j \in Callers \ {k} : call[j].due \in {"no", "ok"}
    BY <1>0, <1>1 DEF Placed
  <2> HIDE DEF r
  <2> QED
    BY <1>0, <1>1, <1>2, <1>3, <2>1, <2>2, <2>3, <2>4, <2>5, CallsOne
<1> QED
  BY <1>4, <1>5 DEF EnsureReady

LEMMA EnsureDisabledStep ==
  ASSUME Core, Calls, NEW k \in Callers, EnsureDisabled(k)
  PROVE  Core' /\ Calls'
<1>0. Placed /\ Typed /\ made \in Nat
  BY ServerAssumption DEF Calls, Typed, Core, CoreType
<1>1. /\ mode = "off" /\ call' = Returned(k)
      /\ UNCHANGED <<mode, closing, made, calls, started, exits, abandoned>>
  BY DEF EnsureDisabled
<1>2. Core'
  <2>1. CASE DisposeKey
    BY <1>1, <2>1, DisposeCore
  <2>2. CASE UNCHANGED <<current, idle, session, server, registered>>
    BY <1>1, <2>2, CoreSame DEF core
  <2> QED
    BY <2>1, <2>2 DEF EnsureDisabled
<1>3. Typed' /\ made' = made
  BY <1>0, <1>1 DEF Typed
<1>4. \A j \in Callers : call[j].at # "op"
  BY <1>0, <1>1 DEF Placed, Stands
<1> QED
  BY <1>0, <1>1, <1>2, <1>3, <1>4, CallsReturned

LEMMA EnsureFailsStep ==
  ASSUME Core, Calls, NEW k \in Callers, EnsureFails(k)
  PROVE  Core' /\ Calls'
<1>0. Placed /\ Typed /\ made \in Nat
  BY ServerAssumption DEF Calls, Typed, Core, CoreType
<1>1. /\ call[k].due \in {"error", "timeout"} /\ call' = Returned(k) /\ DisposeKey
      /\ UNCHANGED <<mode, closing, made, calls, started, exits, abandoned>>
  BY DEF EnsureFails
<1>2. Core'
  BY <1>1, DisposeCore
<1>3. Typed' /\ made' = made
  BY <1>0, <1>1 DEF Typed
<1>4. \A j \in Callers : call[j].at # "op"
  <2>1. \A j \in Callers : call[j].due # "ok"
    BY <1>0, <1>1 DEF Placed
  <2> QED
    BY <1>0, <2>1 DEF Placed, Stands
<1> QED
  BY <1>0, <1>1, <1>2, <1>3, <1>4, CallsReturned

LEMMA OpStartsStep ==
  ASSUME Core, Calls, NEW k \in Callers, OpStarts(k)
  PROVE  Core' /\ Calls'
<1>0. Placed /\ Typed
  BY DEF Calls, Typed
<1>1. /\ call[k].at = "op" /\ Starts(k, call[k].session, "opstart")
      /\ UNCHANGED <<mode, closing, current, idle, made, calls, exits>>
  BY DEF OpStarts
<1>2. Stands(call[k])
  BY <1>0 DEF Placed
<1>3. call[k].session \in Sessions /\ call[k].session = current /\ call[k].due = "ok"
  BY <1>1, <1>2 DEF Stands
<1>4. \A j \in Callers \ {k} : call[j].due \in {"no", "ok"}
  BY <1>0, <1>3 DEF Placed
<1>5. Typed' /\ mode' = mode
  BY <1>0, <1>1 DEF Typed
<1> QED
  BY <1>1, <1>3, <1>4, <1>5, StartsStep

LEMMA EditsStep ==
  ASSUME Core, Calls, NEW k \in Callers, Edits(k)
  PROVE  Core' /\ Calls'
<1>0. /\ Placed /\ Typed /\ call \in [Callers -> Call] /\ made \in Nat
      /\ CoreType
  BY ServerAssumption DEF Calls, Typed, Core, CoreType
<1>1. /\ call[k].at = "opstart" /\ call' = Returned(k)
      /\ UNCHANGED <<mode, closing, current, idle, registered, made, calls, started, exits, abandoned>>
  BY DEF Edits
<1>2. call[k].session \in Sessions /\ call[k].session <= made /\ call[k].text \in Docs
  BY <1>0, <1>1 DEF Placed, Stands, Call
<1>3. Core'
  <2>1. CASE /\ session' = [session EXCEPT ![call[k].session].doc = call[k].text]
             /\ server' = Sent(call[k].session, call[k].text)
    <3>1. /\ UNCHANGED <<current, made, started, registered, abandoned>>
          /\ idle' \in BOOLEAN /\ (idle' => current # 0)
      BY <1>0, <1>1 DEF CoreType
    <3> QED
      BY <1>2, <2>1, <3>1, SentCore
  <2>2. CASE UNCHANGED <<session, server>>
    BY <1>1, <2>2, CoreSame DEF core
  <2> QED
    BY <2>1, <2>2 DEF Edits
<1>4. Typed' /\ made' = made /\ UNCHANGED <<mode, current>>
  BY <1>0, <1>1 DEF Typed
<1> QED
  BY <1>0, <1>1, <1>3, <1>4, CallsReturned

LEMMA QueriesStep ==
  ASSUME Core, Calls, NEW k \in Callers, Queries(k)
  PROVE  Core' /\ Calls'
<1>0. Placed /\ Typed /\ call \in [Callers -> Call] /\ made \in Nat
  BY ServerAssumption DEF Calls, Typed, Core, CoreType
<1>1. /\ call[k].at = "opstart"
      /\ UNCHANGED <<mode, closing, current, idle, session, server, registered, made, calls,
                     started, exits, abandoned>>
  BY DEF Queries
<1>2. CASE call' = Returned(k)
  BY <1>1, <1>2, ReturnStep
<1>3. CASE call' = [call EXCEPT ![k].at = "query", ![k].due = "no"]
  <2> DEFINE r == [at |-> "query", due |-> "no", op |-> call[k].op, text |-> call[k].text,
                   session |-> call[k].session]
  <2>1. r \in Call
    BY <1>0 DEF Call
  <2>2. call' = [call EXCEPT ![k] = r]
    <3>1. call'[k] = r
      BY <1>0, <1>3 DEF Call
    <3>2. call' = [call EXCEPT ![k] = call'[k]]
      BY <1>0, <1>3
    <3> QED
      BY <3>1, <3>2
  <2>3. r.at = "query" /\ r.due = "no" /\ r.session = call[k].session
    OBVIOUS
  <2>4. call[k].session \in Sessions /\ call[k].session <= made
    BY <1>0, <1>1 DEF Placed, Stands
  <2>5. Typed' /\ UNCHANGED <<mode, current>> /\ made' = made /\ made' \in Nat /\ made <= made'
    BY <1>0, <1>1 DEF Typed
  <2>6. Core'
    BY <1>1, CoreSame DEF core
  <2> HIDE DEF r
  <2> QED
    BY <1>0, <2>1, <2>2, <2>3, <2>4, <2>5, <2>6, CallsOne
<1> QED
  BY <1>2, <1>3 DEF Queries

LEMMA QueryTimesOutStep ==
  ASSUME Core, Calls, NEW k \in Callers, QueryTimesOut(k)
  PROVE  Core' /\ Calls'
<1>0. Placed /\ Typed /\ made \in Nat
  BY ServerAssumption DEF Calls, Typed, Core, CoreType
<1> DEFINE s == call[k].session
<1>1. /\ call[k].at = "query" /\ call' = Returned(k)
      /\ session' = Reset(s) /\ server' = Killed(session[s].child)
      /\ registered' = Unregistered(s)
      /\ UNCHANGED <<mode, closing, current, idle, made, calls, started, exits, abandoned>>
  BY DEF QueryTimesOut
<1>2. s \in Sessions
  BY <1>0, <1>1 DEF Placed, Stands
<1>3. Core'
  BY <1>1, <1>2, ResetCore
<1>4. Typed' /\ made' = made /\ UNCHANGED <<mode, current>>
  BY <1>0, <1>1 DEF Typed
<1> QED
  BY <1>0, <1>1, <1>3, <1>4, CallsReturned

\* A start settles.
LEMMA SettleStep ==
  ASSUME Core, Calls, NEW s \in Sessions,
         StartAnswered(s) \/ StartRefused(s) \/ StartTimesOut(s)
  PROVE  Core' /\ Calls'
<1>1. Core'
  BY AnsweredCore, RefusedCore, TimeoutCore
<1>2. PICK o \in {"ok", "error", "timeout"} : call' = Settled(s, o)
  BY DEF StartAnswered, StartRefused, StartTimesOut
<1>3. Quiet /\ UNCHANGED <<mode, closing, current, made, calls, exits>>
  BY DEF StartAnswered, StartRefused, StartTimesOut
<1>4. Typed'
  BY <1>3 DEF Typed, Calls
<1> QED
  BY <1>1, <1>2, <1>3, <1>4, CallsSettled

\* No command moves.
LEMMA CloseStep ==
  ASSUME Core, Calls, CloseDocument
  PROVE  Core' /\ Calls'
<1>0. Placed /\ Typed /\ CoreType /\ Fresh
  BY DEF Calls, Typed, Core
<1>1. /\ current # 0 /\ session' = [session EXCEPT ![current].doc = None]
      /\ server' = (IF session[current].doc = None THEN server ELSE Sent(current, None))
      /\ idle' = (current # 0)
      /\ UNCHANGED <<mode, closing, current, registered, call, made, calls, started, exits,
                     abandoned>>
  BY DEF CloseDocument, Bump
<1>2. current \in Sessions /\ current <= made /\ None \in Docs
  BY <1>0, <1>1, ServerAssumption DEF CoreType, Fresh, Sessions, Docs
<1>3. idle' \in BOOLEAN /\ (idle' => current # 0)
  BY <1>1
<1>4. Core'
  <2>1. CASE server' = Sent(current, None)
    <3>1. UNCHANGED <<current, made, started, registered, abandoned>>
      BY <1>1
    <3> QED
      BY <1>1, <1>2, <1>3, <2>1, <3>1, SentCore
  <2>2. CASE session[current].doc = None /\ server' = server
    <3>1. session' = session
      BY <1>0, <1>1, <1>2, <2>2 DEF CoreType, Session
    <3>2. CoreType'
      BY <1>0, <1>1, <1>3, <2>2, <3>1 DEF CoreType
    <3>3. Fresh' /\ OnlyCurrent' /\ ProcessesAccounted' /\ ServerInStep'
      BY <1>1, <2>2, <3>1
         DEF Core, Fresh, OnlyCurrent, ProcessesAccounted, Held, ServerInStep, Ready
    <3> QED
      BY <3>2, <3>3 DEF Core
  <2> QED
    BY <1>1, <2>1, <2>2
<1>5. Typed' /\ UNCHANGED <<mode, current>> /\ made' = made /\ UNCHANGED call
  BY <1>0, <1>1 DEF Typed
<1> QED
  BY <1>4, <1>5, CallsSame

LEMMA DisposeStep ==
  ASSUME Core, Calls, IdleTimer \/ DisposeWorkspace \/ \E m \in {"auto", "off"} : SetRuntimeMode(m)
  PROVE  Core' /\ Calls'
<1>0. Placed /\ Typed
  BY DEF Calls, Typed
<1>1. Quiet /\ UNCHANGED <<call, made, calls, started, exits, abandoned>>
  BY DEF IdleTimer, DisposeWorkspace, SetRuntimeMode
<1>2. Core'
  <2>1. CASE DisposeKey
    BY <1>1, <2>1, DisposeCore
  <2>2. CASE UNCHANGED <<current, idle, session, server, registered>>
    BY <1>1, <2>2, CoreSame DEF core
  <2> QED
    BY <2>1, <2>2 DEF IdleTimer, DisposeWorkspace, SetRuntimeMode
<1>3. Typed'
  BY <1>0, <1>1 DEF Typed, IdleTimer, DisposeWorkspace, SetRuntimeMode
<1>4. \A k \in Callers : call[k].at # "op"
  BY <1>0, <1>1, QuietPlaces
<1> QED
  BY <1>1, <1>2, <1>3, <1>4, CallsSame

LEMMA ExitStep ==
  ASSUME Core, Calls, NEW c \in Servers, MainExits(c) \/ MateExits(c)
  PROVE  Core' /\ Calls'
<1>1. Core'
  BY MainExitsCore, MateExitsCore
<1>2. /\ exits < MaxExits /\ exits' = exits + 1
      /\ UNCHANGED <<mode, closing, current, call, made, calls>>
  BY DEF MainExits, MateExits, Ends
<1>3. Typed'
  BY <1>2, ServerAssumption DEF Typed, Calls
<1> QED
  BY <1>1, <1>2, <1>3, CallsSame

----------------------------------------------------------------------------
LEMMA InvariantInit == Init => IInv
<1> SUFFICES ASSUME Init PROVE IInv
  OBVIOUS
<1>1. Core
  BY CoreInit
<1>2. call = [k \in Callers |-> NoCall]
  BY DEF Init
<1>3. call \in [Callers -> Call]
  BY <1>2, NoCallStands
<1>4. Placed
  BY <1>2, NoCallStands DEF Placed, Stands
<1>5. mode \in {"auto", "off"} /\ calls \in 0..MaxCalls /\ exits \in 0..MaxExits
  BY ServerAssumption DEF Init
<1>6. closing \in BOOLEAN
  BY DEF Init
<1> QED
  BY <1>1, <1>3, <1>4, <1>5, <1>6, Parts DEF Calls

\* The strengthening holds together: each step keeps all of it.
LEMMA InvariantNext == IInv /\ [Next]_vars => IInv'
<1> SUFFICES ASSUME IInv, [Next]_vars PROVE IInv'
  OBVIOUS
<1>0. Core /\ Calls
  BY Parts
<1>1. ASSUME NEW k \in Callers, NEW op \in Ops, NEW t \in Docs, Command(k, op, t)
      PROVE  Core' /\ Calls'
  BY <1>0, <1>1, CommandStep
<1>2. ASSUME NEW k \in Callers, ToolMissing(k) \/ QueryAnswered(k) \/ OpUnwanted(k) \/ OpFails(k)
      PROVE  Core' /\ Calls'
  <2>1. /\ call' = Returned(k)
        /\ UNCHANGED <<mode, closing, current, idle, session, server, registered, made, calls,
                       started, exits, abandoned>>
    BY <1>2 DEF ToolMissing, QueryAnswered, OpUnwanted, OpFails
  <2> QED
    BY <1>0, <2>1, ReturnStep
<1>3. ASSUME NEW k \in Callers, ToolResolved(k) \/ SessionObtained(k)
      PROVE  Core' /\ Calls'
  BY <1>0, <1>3, ToolResolvedStep, SessionObtainedStep
<1>4. ASSUME NEW k \in Callers, EnsureReady(k) \/ EnsureDisabled(k) \/ EnsureFails(k)
      PROVE  Core' /\ Calls'
  BY <1>0, <1>4, EnsureReadyStep, EnsureDisabledStep, EnsureFailsStep
<1>5. ASSUME NEW k \in Callers, OpStarts(k) \/ Edits(k) \/ Queries(k) \/ QueryTimesOut(k)
      PROVE  Core' /\ Calls'
  BY <1>0, <1>5, OpStartsStep, EditsStep, QueriesStep, QueryTimesOutStep
<1>6. ASSUME NEW s \in Sessions, StartAnswered(s) \/ StartRefused(s) \/ StartTimesOut(s)
      PROVE  Core' /\ Calls'
  BY <1>0, <1>6, SettleStep
<1>7. ASSUME IdleTimer \/ DisposeWorkspace \/ \E m \in {"auto", "off"} : SetRuntimeMode(m)
      PROVE  Core' /\ Calls'
  BY <1>0, <1>7, DisposeStep
<1>8. ASSUME CloseDocument
      PROVE  Core' /\ Calls'
  BY <1>0, <1>8, CloseStep
<1>9. ASSUME NEW c \in Servers, MainExits(c) \/ MateExits(c)
      PROVE  Core' /\ Calls'
  BY <1>0, <1>9, ExitStep
<1>10. Core' /\ Calls' => IInv'
  BY DEF IInv, TypeOK, Core, CoreType, Calls
<1>11. CASE UNCHANGED vars
  <2>1. Core'
    BY <1>0, <1>11, CoreSame DEF vars, core
  <2>2. Typed' /\ UNCHANGED call /\ made' = made /\ UNCHANGED <<mode, current>>
    BY <1>0, <1>11 DEF vars, Calls, Typed
  <2>3. Calls'
    BY <1>0, <2>2, CallsSame
  <2> QED
    BY <1>10, <2>1, <2>3
<1>12. CASE Next
  <2>1. CASE \E k \in Callers, op \in Ops, t \in Docs : Command(k, op, t)
    BY <1>1, <1>10, <2>1
  <2>2. CASE \E k \in Callers : ToolMissing(k) \/ ToolResolved(k) \/ SessionObtained(k)
                                \/ Continues(k) \/ QueryAnswered(k) \/ QueryTimesOut(k)
    <3>1. PICK k \in Callers : ToolMissing(k) \/ ToolResolved(k) \/ SessionObtained(k)
                               \/ Continues(k) \/ QueryAnswered(k) \/ QueryTimesOut(k)
      BY <2>2
    <3>2. CASE ToolMissing(k) \/ QueryAnswered(k) \/ OpUnwanted(k) \/ OpFails(k)
      BY <1>2, <1>10, <3>2
    <3>3. CASE ToolResolved(k) \/ SessionObtained(k)
      BY <1>3, <1>10, <3>3
    <3>4. CASE EnsureReady(k) \/ EnsureDisabled(k) \/ EnsureFails(k)
      BY <1>4, <1>10, <3>4
    <3>5. CASE OpStarts(k) \/ Edits(k) \/ Queries(k) \/ QueryTimesOut(k)
      BY <1>5, <1>10, <3>5
    <3> QED
      BY <3>1, <3>2, <3>3, <3>4, <3>5 DEF Continues
  <2>3. CASE \E s \in Sessions : StartAnswered(s) \/ StartRefused(s) \/ StartTimesOut(s)
    BY <1>6, <1>10, <2>3
  <2>4. CASE CloseDocument
    BY <1>8, <1>10, <2>4
  <2>5. CASE IdleTimer \/ DisposeWorkspace \/ \E m \in {"auto", "off"} : SetRuntimeMode(m)
    BY <1>7, <1>10, <2>5
  <2>6. CASE \E c \in Servers : MainExits(c) \/ MateExits(c)
    BY <1>9, <1>10, <2>6
  <2> QED
    BY <1>12, <2>1, <2>2, <2>3, <2>4, <2>5, <2>6 DEF Next
<1> QED
  BY <1>11, <1>12

LEMMA InvariantHolds == Spec => []IInv
  BY InvariantInit, InvariantNext, PTL DEF Spec

\* The variables of the manager, of its sessions and of the commands keep
\* their types, and a timer runs only for an entry of the map.
THEOREM TypeCorrect == Spec => []TypeOK
<1>1. IInv => TypeOK
  BY DEF IInv
<1> QED
  BY <1>1, InvariantHolds, PTL

\* No process runs that the manager cannot reach, but for those a session
\* lets go of without a word, and the process registry is right about the
\* rest: whatever commands, timers, failures and exits come, in any order.
THEOREM ProcessesHeld == Spec => []ProcessesAccounted
<1>1. IInv => ProcessesAccounted
  BY DEF IInv
<1> QED
  BY <1>1, InvariantHolds, PTL

\* A server that answers queries has been sent what the document holds.
THEOREM InStep == Spec => []ServerInStep
<1>1. IInv => ServerInStep
  BY DEF IInv
<1> QED
  BY <1>1, InvariantHolds, PTL
=============================================================================
