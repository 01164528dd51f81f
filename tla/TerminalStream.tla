--------------------------- MODULE TerminalStream ---------------------------
(***************************************************************************)
(* The output of one live terminal on its way to one browser: the ring     *)
(* buffer and the per-client stream buffer of the server (terminal/        *)
(* ring-buffer.ts, ws/client.ts, ws/stream-buffer.ts), the socket, the     *)
(* xterm host that paints it and the coordinator that recovers what was    *)
(* lost (web/src/features/terminal-panel).                                 *)
(*                                                                         *)
(* A chunk of output is one unit of the sequence number: chunk n takes it  *)
(* from n-1 to n.  Replays are cut at chunk boundaries because the ring    *)
(* buffer's head only ever stands at one.  Frames on the stream path may   *)
(* wait in the bucket or be dropped; control messages, among them the      *)
(* answers of commands, bypass the bucket and overtake what waits there.   *)
(*                                                                         *)
(* Each side is one JavaScript thread: an action is one message, timer or  *)
(* xterm callback handled up to the next await that is not yet settled.    *)
(***************************************************************************)
EXTENDS Integers, Sequences, SequencesExt

CONSTANTS
  RingSize,        \* chunks the ring buffer retains
  BucketCap,       \* frames of one topic the stream buffer retains
  MaxOut,          \* bound: chunks the terminal writes
  MaxDisconnects,  \* bound: times the connection breaks
  MaxResumes       \* bound: times the page returns to the foreground

ASSUME StreamAssumption ==
  /\ {RingSize, BucketCap} \subseteq Nat \ {0}
  /\ {MaxOut, MaxDisconnects, MaxResumes} \subseteq Nat

VARIABLES
  head,          \* sequence number of the ring buffer
  bucket,        \* frames of the terminal's topic in the client's StreamBuffer
  connected,     \* the WebSocket is open
  subscribed,    \* the server has this connection's subscription
  lease,         \* the activation lease names this connection
  up, down,      \* messages on the socket, to the server and to the browser
  recovery,      \* the coordinator's run for the terminal: its await
  queued,        \* state.queued of the coordinator
  reconcileDue,  \* pendingSocketReconcile
  reclaimDue,    \* pendingActivationReclaim
  activation,    \* the client's activation status
  live,          \* replayCompletedRef: output is painted as it arrives
  replayed,      \* replayedSeqRef: what the live path has accepted
  rendered,      \* latestRenderedSeqRef: what xterm has reported as written
  anchor,        \* recoveryReplayAnchorSeqRef
  pending,       \* pendingReplayChunksRef: chunks held back
  chunks,        \* outputAtom.chunks: accepted, not yet given to xterm
  writes,        \* xterm's write queue
  ui,            \* what the terminal panel shows
  mounted,       \* the host has asked for its initial recovery
  disconnects, resumes,
  \* History variables, read by properties only.
  painted,       \* chunks on the screen
  skipped        \* chunks that the flush of held back ones jumped over

server == <<head, bucket, subscribed, lease>>
socket == <<connected, up, down>>
coordinator == <<recovery, queued, reconcileDue, reclaimDue, activation>>
host == <<live, replayed, rendered, anchor, pending, chunks, writes, ui, mounted>>
limits == <<disconnects, resumes>>
screen == <<painted, skipped>>
vars == <<server, socket, coordinator, host, limits, screen>>

Reasons == {"initial_mount", "foreground_resume", "socket_reconnected", "seq_gap"}
\* getRecoveryPriority.  continuity_lost has the priority of seq_gap and network_online that
\* of foreground_resume, and the server tells only initial_mount from the rest.
Priority == [initial_mount |-> 1, foreground_resume |-> 2, socket_reconnected |-> 3,
             seq_gap |-> 4]

None == -1
Seqs == 0..MaxOut
\* Messages: at is a sequence number, from the start of a replay.
ToServer == {"subscribe", "claim", "reconcile", "replay", "snapshot"}
ToBrowser == {"output", "continuity_lost", "claimed", "activation_required", "noop",
              "useReplay", "useSnapshot", "replayed", "too_old", "snapshotted"}
Message == [kind : ToServer \cup ToBrowser, at : Seqs, from : Seqs,
            reason : Reasons \cup {"none"}]
Msg(kind, at) == [kind |-> kind, at |-> at, from |-> 0, reason |-> "none"]

\* A write in xterm's queue paints chunks lo .. hi.
Write == [lo : 1..(MaxOut + 1), hi : Seqs, kind : {"live", "baseline", "pending"}]

\* The awaits of runRecovery: the decision, the data it asks for, the write of the
\* baseline and the writes of the chunks held back meanwhile.
RecoveryPCs == {"off", "decision", "data", "baseline", "pending"}

TypeOK ==
  /\ head \in Seqs /\ bucket \in Seq(1..head) /\ Len(bucket) <= BucketCap
  /\ {connected, subscribed, lease, live, mounted, reconcileDue, reclaimDue} \subseteq BOOLEAN
  /\ up \in Seq(Message) /\ down \in Seq(Message)
  /\ recovery \in RecoveryPCs /\ queued \in Reasons \cup {"none"}
  /\ activation \in {"idle", "claiming", "active"}
  /\ {replayed, rendered} \subseteq 0..head /\ anchor \in {None} \cup 0..head
  /\ pending \in Seq(1..head) /\ chunks \in Seq(1..head)
  /\ writes \in Seq(Write)
  /\ ui \in {"loading", "ready"}
  /\ {painted, skipped} \subseteq SUBSET (1..head)

\* The host has just been mounted for a terminal that may have written before.
Init ==
  /\ head \in {0, 1} \cap Seqs /\ bucket = <<>>
  /\ connected = TRUE /\ subscribed = FALSE /\ lease = TRUE
  /\ up = <<Msg("subscribe", 0)>> /\ down = <<>>
  /\ recovery = "off" /\ queued = "none"
  /\ reconcileDue = FALSE /\ reclaimDue = FALSE /\ activation = "active"
  /\ live = FALSE /\ replayed = 0 /\ rendered = 0 /\ anchor = None
  /\ pending = <<>> /\ chunks = <<>> /\ writes = <<>>
  /\ ui = "loading" /\ mounted = FALSE
  /\ disconnects = 0 /\ resumes = 0
  /\ painted = {} /\ skipped = {}

Larger(a, b) == IF a >= b THEN a ELSE b

----------------------------------------------------------------------------
(* The server                                                              *)

\* handleStreamBufferDrop and handleStreamBufferEviction: a control event at once.
Lost == <<Msg("continuity_lost", 0)>>
Frames(s) == [i \in 1..Len(s) |-> Msg("output", s[i])]

\* enqueue drops the oldest frames over the cap; flushStream then sends as many as
\* the socket takes.
Kept(b) == IF Len(b) > BucketCap THEN Tail(b) ELSE b
Enqueue(n) ==
  LET b == Kept(Append(bucket, n))
      notice == IF Len(bucket) = BucketCap THEN Lost ELSE <<>>
  IN  \E sent \in 0..Len(b) :
        /\ down' = down \o notice \o Frames(SubSeq(b, 1, sent))
        /\ bucket' = SubSeq(b, sent + 1, Len(b))

\* A frame is sent directly if nothing waits and the socket's buffer is below
\* its high water mark.
SendStream(n) ==
  \/ bucket = <<>> /\ down' = Append(down, Msg("output", n)) /\ UNCHANGED bucket
  \/ Enqueue(n)

\* The pty's data event: append to the ring buffer, emit terminal.output.
Output ==
  /\ head < MaxOut /\ head' = head + 1
  /\ IF connected /\ subscribed THEN SendStream(head')
     ELSE UNCHANGED <<bucket, down>>
  /\ UNCHANGED <<subscribed, lease, connected, up, coordinator, host, limits, screen>>

\* flushStream on its timer, as soon as the socket's buffer has drained.
FlushStream ==
  /\ bucket # <<>>
  /\ \E sent \in 1..Len(bucket) :
       /\ down' = down \o Frames(SubSeq(bucket, 1, sent))
       /\ bucket' = SubSeq(bucket, sent + 1, Len(bucket))
  /\ UNCHANGED <<head, subscribed, lease, connected, up, coordinator, host, limits, screen>>

\* The mutant evicts without telling the client.
EvictSilently ==
  /\ bucket # <<>> /\ bucket' = <<>>
  /\ UNCHANGED <<head, subscribed, lease, socket, coordinator, host, limits, screen>>

\* Another terminal's frame makes this one's bucket the least recently used.
EvictTopic ==
  /\ bucket # <<>> /\ bucket' = <<>>
  /\ down' = down \o Lost
  /\ UNCHANGED <<head, subscribed, lease, connected, up, coordinator, host, limits, screen>>

\* RingBuffer.replayFrom: whether what follows from is still retained.
Retained(from) == head - from <= RingSize

\* recovery.reconcile for a live terminal with a snapshot buffer.
Decision(m) ==
  IF m.at = head THEN Msg("noop", head)
  ELSE IF m.reason # "initial_mount" /\ Retained(m.at) THEN Msg("useReplay", m.at)
  ELSE Msg("useSnapshot", head)

\* terminal.replay.  The mutant returns the position asked for as the one reached.
ReplayAsAsked(from) == [Msg("replayed", from) EXCEPT !.from = from]
Replay(from) ==
  IF Retained(from) THEN [Msg("replayed", head) EXCEPT !.from = from]
  ELSE Msg("too_old", 0)

\* terminal.snapshot answers when its mirror has parsed all output.  The mutant takes
\* the number of the chunk to come for that of the last one.
SnapshotAhead == Msg("snapshotted", head + 1)
Snapshot == Msg("snapshotted", head)

Answer(m) ==
  IF ~lease THEN Msg("activation_required", 0)
  ELSE CASE m.kind = "reconcile" -> Decision(m)
         [] m.kind = "replay"    -> Replay(m.at)
         [] m.kind = "snapshot"  -> Snapshot

\* The server handles the next message of the browser.
ServerReceives ==
  /\ up # <<>> /\ up' = Tail(up)
  /\ LET m == Head(up)
     IN  /\ subscribed' = (subscribed \/ m.kind = "subscribe")
         /\ lease' = (lease \/ m.kind = "claim")
         /\ down' = CASE m.kind = "subscribe" -> down
                      [] m.kind = "claim"     -> Append(down, Msg("claimed", 0))
                      [] OTHER                -> Append(down, Answer(m))
  /\ UNCHANGED <<head, bucket, connected, coordinator, host, limits, screen>>

----------------------------------------------------------------------------
(* The recovery coordinator                                                *)

\* getRenderedSeq as the step leaves it.
Position == IF anchor' = None THEN rendered' ELSE anchor'

\* runRecovery up to the answer; without a connection the command is rejected and
\* the recovery left to the next one.
Reconcile(reason) ==
  IF connected
  THEN /\ up' = Append(up, [Msg("reconcile", Position) EXCEPT !.reason = reason])
       /\ recovery' = "decision"
       /\ UNCHANGED reconcileDue
  ELSE /\ recovery' = "off" /\ reconcileDue' = TRUE
       /\ UNCHANGED up

\* queueRecovery: a reason waits, merged by priority, while a recovery runs.
Merged(reason) ==
  IF queued = "none" \/ Priority[reason] >= Priority[queued] THEN reason ELSE queued
Queue(reason) ==
  IF recovery = "off" THEN Reconcile(reason) /\ UNCHANGED queued
  ELSE queued' = Merged(reason) /\ UNCHANGED <<recovery, reconcileDue, up>>

\* A recovery is over: the loop of queueRecovery takes the queued one.
NextRecovery ==
  /\ queued' = "none"
  /\ IF queued = "none" THEN recovery' = "off" /\ UNCHANGED <<reconcileDue, up>>
     ELSE Reconcile(queued)

\* setUiMode of a recovery that needs data.
ShowRecovering ==
  /\ ui' = "loading"
  /\ anchor' = IF anchor = None THEN rendered ELSE anchor
Request(kind, at) ==
  /\ ShowRecovering
  /\ up' = Append(up, Msg(kind, at))
  /\ recovery' = "data"
  /\ UNCHANGED <<queued, reconcileDue>>

----------------------------------------------------------------------------
(* The xterm host                                                          *)

\* collectPendingReplayChunks: what lies beyond covered, in the order received.  Output
\* arrives in order, so that the entries it passes over come first.  Nothing requires
\* the first of the others to continue what is covered.
Held(covered) ==
  LET Beyond(n) == n > covered
      first == SelectInSeq(pending, Beyond)
  IN  IF first = 0 THEN <<>> ELSE SubSeq(pending, first, Len(pending))

\* applyDecision or applyReplay returns: setUiMode("silent"), then what is queued.
Done ==
  /\ anchor' = None /\ ui' = "ready"
  /\ NextRecovery

\* The loop of flushHistoricalRecovery: write what was held back, and look again when
\* xterm has taken it.  replayedSeqRef is not advanced over it.
FlushHeld(covered, queue) ==
  LET held == Held(covered)
  IN  /\ pending' = <<>>
      /\ writes' = queue \o [i \in 1..Len(held) |->
                               [lo |-> held[i], hi |-> held[i], kind |-> "pending"]]
      /\ IF held = <<>>
         THEN Done /\ skipped' = skipped \ painted'
         ELSE /\ recovery' = "pending"
              /\ skipped' = (skipped \cup ((covered + 1)..Last(held) \ ToSet(held))) \ painted'
              /\ UNCHANGED <<anchor, ui, queued, reconcileDue, up>>

\* flushHistoricalRecovery behind the write of the baseline.
FinishBaseline(covered, queue) ==
  /\ replayed' = covered
  /\ rendered' = Larger(rendered, covered)
  /\ live' = TRUE
  /\ chunks' = <<>>
  /\ FlushHeld(covered, queue)

\* applyReplayPayload and applySnapshotPayload up to the write of the baseline, which
\* hold back the output that arrives until it is done.  reset clears what xterm has
\* parsed; the writes it has queued stay.
WriteBaseline(from, to, reset) ==
  /\ live' = FALSE /\ ui' = "ready" /\ recovery' = "baseline"
  /\ writes' = Append(writes, [lo |-> from + 1, hi |-> to, kind |-> "baseline"])
  /\ IF reset THEN painted' = {} /\ skipped' = {} ELSE UNCHANGED screen
  /\ UNCHANGED <<replayed, rendered, anchor, pending, chunks, queued, reconcileDue, up>>

\* The live handler of the output topic.
OutputArrives(n) ==
  /\ IF ~live THEN
       /\ pending' = Append(pending, n)
       /\ UNCHANGED <<replayed, chunks, recovery, queued, reconcileDue, up>>
     ELSE IF n <= replayed THEN
       UNCHANGED <<pending, replayed, chunks, recovery, queued, reconcileDue, up>>
     ELSE IF n - 1 > replayed THEN
       /\ pending' = Append(pending, n)
       /\ chunks' = <<>>
       /\ Queue("seq_gap")
       /\ UNCHANGED replayed
     ELSE
       /\ chunks' = Append(chunks, n)
       /\ replayed' = n
       /\ UNCHANGED <<pending, recovery, queued, reconcileDue, up>>
  /\ UNCHANGED <<live, writes, ui, screen>>

\* handleActivationStatus("active").  The mutant does not ask again.
ClaimedSilently ==
  reclaimDue' = FALSE /\ UNCHANGED <<recovery, queued, reconcileDue, up>>
Claimed ==
  /\ reclaimDue' = FALSE
  /\ IF reclaimDue THEN Queue("socket_reconnected")
     ELSE UNCHANGED <<recovery, queued, reconcileDue, up>>

\* What a message leaves alone when only the coordinator handles it.
HostKept == UNCHANGED <<live, replayed, pending, chunks, writes, screen>>

\* The browser handles the next message of the server.
ClientReceives ==
  /\ down # <<>> /\ down' = Tail(down)
  /\ LET m == Head(down)
     IN  \/ /\ m.kind = "output"
            /\ UNCHANGED <<rendered, anchor>>
            /\ OutputArrives(m.at)
            /\ UNCHANGED <<reclaimDue, activation>>
         \/ /\ m.kind = "continuity_lost"
            /\ UNCHANGED <<rendered, anchor, ui>>
            /\ Queue("seq_gap")
            /\ HostKept /\ UNCHANGED <<reclaimDue, activation>>
         \/ /\ m.kind = "claimed"
            /\ activation' = "active"
            /\ UNCHANGED <<rendered, anchor, ui>>
            /\ Claimed
            /\ HostKept
         \/ /\ m.kind = "activation_required"
            /\ reclaimDue' = TRUE
            /\ UNCHANGED <<rendered, anchor, ui>>
            /\ NextRecovery
            /\ HostKept /\ UNCHANGED activation
         \/ /\ m.kind = "noop"
            /\ UNCHANGED painted
            /\ FinishBaseline(m.at, writes)
            /\ UNCHANGED <<reclaimDue, activation>>
         \/ /\ m.kind = "useReplay"
            /\ Request("replay", m.at)
            /\ HostKept /\ UNCHANGED <<rendered, reclaimDue, activation>>
         \/ /\ m.kind \in {"useSnapshot", "too_old"}
            /\ Request("snapshot", 0)
            /\ HostKept /\ UNCHANGED <<rendered, reclaimDue, activation>>
         \/ /\ m.kind = "replayed"
            /\ WriteBaseline(m.from, m.at, anchor = 0)
            /\ UNCHANGED <<reclaimDue, activation>>
         \/ /\ m.kind = "snapshotted"
            /\ WriteBaseline(0, m.at, TRUE)
            /\ UNCHANGED <<reclaimDue, activation>>
  /\ UNCHANGED <<server, connected, mounted, limits>>

\* The effect on outputAtom gives the accepted chunks to xterm.  The mutant reports
\* them as rendered at once.
WriteLiveRendered ==
  /\ chunks # <<>> /\ chunks' = <<>>
  /\ writes' = writes \o [i \in 1..Len(chunks) |->
                            [lo |-> chunks[i], hi |-> chunks[i], kind |-> "live"]]
  /\ rendered' = Larger(rendered, Last(chunks))
  /\ UNCHANGED <<server, socket, coordinator, live, replayed, anchor, pending, ui,
                 mounted, limits, screen>>
WriteLive ==
  /\ chunks # <<>> /\ chunks' = <<>>
  /\ writes' = writes \o [i \in 1..Len(chunks) |->
                            [lo |-> chunks[i], hi |-> chunks[i], kind |-> "live"]]
  /\ UNCHANGED <<server, socket, coordinator, live, replayed, rendered, anchor, pending,
                 ui, mounted, limits, screen>>

\* xterm parses its next write and calls back.  A recovery goes on when the write it
\* waits for was the last of its batch.
Parse ==
  /\ writes # <<>>
  /\ LET w == Head(writes)
         rest == Tail(writes)
         batchOver == \A i \in 1..Len(rest) : rest[i].kind # "pending"
     IN  /\ painted' = painted \cup w.lo..w.hi
         /\ \/ w.kind = "baseline" /\ FinishBaseline(w.hi, rest)
            \/ /\ w.kind = "pending" /\ batchOver
               /\ rendered' = Larger(rendered, w.hi)
               /\ FlushHeld(w.hi, rest)
               /\ UNCHANGED <<live, replayed, chunks>>
            \/ /\ w.kind = "live" \/ (w.kind = "pending" /\ ~batchOver)
               /\ rendered' = Larger(rendered, w.hi)
               /\ writes' = rest /\ skipped' = skipped \ painted'
               /\ UNCHANGED <<live, replayed, anchor, pending, chunks, ui, recovery, queued,
                              reconcileDue, up>>
  /\ UNCHANGED <<server, connected, down, reclaimDue, activation, mounted, limits>>

----------------------------------------------------------------------------
(* The page and its connection                                             *)

\* The host's effect asks for the initial recovery when its terminal is ready.
Mount ==
  /\ ~mounted /\ mounted' = TRUE
  /\ UNCHANGED <<rendered, anchor>>
  /\ Queue("initial_mount")
  /\ UNCHANGED <<server, connected, down, reclaimDue, activation, live, replayed, pending,
                 chunks, writes, ui, limits, screen>>

\* notifyReason("foreground_resume"), whose probe finds the connection as it is.
Resume ==
  /\ mounted /\ resumes < MaxResumes /\ resumes' = resumes + 1
  /\ UNCHANGED <<rendered, anchor>>
  /\ IF connected THEN Queue("foreground_resume")
     ELSE reconcileDue' = TRUE /\ UNCHANGED <<recovery, queued, up>>
  /\ UNCHANGED <<server, connected, down, reclaimDue, activation, live, replayed, pending,
                 chunks, writes, ui, mounted, disconnects, screen>>

\* The socket closes: pending commands are rejected, and the server forgets the client.
Disconnect ==
  /\ connected /\ disconnects < MaxDisconnects /\ disconnects' = disconnects + 1
  /\ connected' = FALSE /\ subscribed' = FALSE /\ lease' = FALSE
  /\ up' = <<>> /\ down' = <<>> /\ bucket' = <<>>
  /\ reconcileDue' = TRUE
  /\ reclaimDue' = (reclaimDue \/ activation = "active") /\ activation' = "idle"
  /\ IF recovery \in {"decision", "data"} THEN recovery' = "off" /\ queued' = "none"
     ELSE UNCHANGED <<recovery, queued>>
  /\ UNCHANGED <<head, host, resumes, screen>>

\* onopen: the status listeners run first, so the reconcile they send is ahead of the
\* subscribe message.
Reconnect ==
  /\ ~connected /\ connected' = TRUE
  /\ reconcileDue' = FALSE
  /\ IF recovery = "off"
     THEN /\ recovery' = "decision" /\ UNCHANGED queued
          /\ up' = <<[Msg("reconcile", IF anchor = None THEN rendered ELSE anchor)
                        EXCEPT !.reason = "socket_reconnected"], Msg("subscribe", 0)>>
     ELSE /\ queued' = Merged("socket_reconnected") /\ UNCHANGED recovery
          /\ up' = <<Msg("subscribe", 0)>>
  /\ UNCHANGED <<server, down, reclaimDue, activation, host, limits, screen>>

\* The page claims the activation lease for the new connection.
Claim ==
  /\ connected /\ activation = "idle" /\ activation' = "claiming"
  /\ up' = Append(up, Msg("claim", 0))
  /\ UNCHANGED <<server, connected, down, recovery, queued, reconcileDue, reclaimDue, host,
                 limits, screen>>

Next ==
  \/ Output \/ FlushStream \/ EvictTopic \/ ServerReceives
  \/ ClientReceives \/ WriteLive \/ Parse
  \/ Mount \/ Resume \/ Disconnect \/ Reconnect \/ Claim

Fairness ==
  /\ WF_vars(FlushStream) /\ WF_vars(ServerReceives) /\ WF_vars(ClientReceives)
  /\ WF_vars(WriteLive) /\ WF_vars(Parse)
  /\ WF_vars(Mount) /\ WF_vars(Reconnect) /\ WF_vars(Claim)

Spec == Init /\ [][Next]_vars /\ Fairness

----------------------------------------------------------------------------
(* Properties                                                              *)

OnItsWay(kinds) == {m \in ToSet(up) \cup ToSet(down) : m.kind \in kinds}
LaterFrames == ToSet(bucket) \cup {m.at : m \in OnItsWay({"output"})} \cup ToSet(pending)

\* No chunk is forgotten in silence: one that is neither on the screen nor jumped over by
\* a flush is held somewhere, or a later frame will show the gap, or a message on its way
\* or a state of the coordinator makes the browser fetch it.
Fetched(n) ==
  \/ ~mounted \/ ~connected \/ reconcileDue \/ reclaimDue \/ queued # "none"
  \/ OnItsWay({"continuity_lost", "snapshot", "useSnapshot", "too_old"}) # {}
  \/ \E m \in OnItsWay({"reconcile", "useReplay", "replay"}) : m.at < n
  \/ \E m \in OnItsWay({"replayed", "snapshotted"}) : n \in (m.from + 1)..m.at
Accounted ==
  \A n \in 1..head :
    \/ n \in painted \cup skipped \cup ToSet(chunks)
    \/ \E i \in 1..Len(writes) : n \in writes[i].lo..writes[i].hi
    \/ \E later \in LaterFrames : later >= n
    \/ Fetched(n)

\* The position the browser reports stands for what is on its screen: a reconcile never
\* declares chunks rendered that xterm has not parsed, except those that a flush of held
\* back chunks jumped over.  While a baseline is written nobody asks for the position.
HonestPosition ==
  recovery # "baseline" => 1..rendered \subseteq painted \cup skipped

\* Applying a replay or a snapshot never moves the live path backwards: answers overtake
\* the frames that wait in the bucket, and no accepted frame is newer than the answer.
NeverRewinds == [][replayed' >= replayed]_vars

\* Once the terminal is quiet and the connection holds, the browser has all of its output
\* and shows the terminal as ready.
CatchesUp == <>[](rendered = head /\ ui = "ready" /\ recovery = "off")

Quiet == mounted /\ connected /\ recovery = "off" /\ ui = "ready" /\ rendered = head
         /\ bucket = <<>> /\ up = <<>> /\ down = <<>> /\ writes = <<>> /\ chunks = <<>>

\* ws/client.ts promises of frames dropped from the bucket: "Frontend recovers via
\* seq-gap + replay".  So a quiet terminal shows all of its output.
NoHole == Quiet => painted = 1..head
=============================================================================
