---------------------------- MODULE MavlinkNode -----------------------------
(***************************************************************************)
(* MavlinkNode::loop(), run by the link task every Period: the connection  *)
(* state machine, its heartbeats and the first TIMESYNC of a connection.   *)
(* loop() reads millis() once, at its start, and again for every peer      *)
(* heartbeat it dispatches; milliseconds may pass in between.              *)
(*                                                                         *)
(* Of the received frames only peer heartbeats are told apart: the others  *)
(* touch no state of the node.  A frame the transport has no room for is   *)
(* dropped, and the node does not look.                                    *)
(***************************************************************************)
EXTENDS Integers

CONSTANTS
  Wrap,             \* range of millis()
  Period,           \* period of the link task
  MaxLoop,          \* longest a loop() takes
  HeartbeatPeriod,  \* heartbeat_period_ms
  TimesyncPeriod,   \* timesync_period_ms
  PeerTimeout,      \* peer_timeout_ms
  MaxInbox,         \* bound of the model: heartbeats waiting in the transport
  MaxAge            \* bound of the model: ages are told apart up to it

ASSUME TimesAssumption ==
  /\ {Wrap, Period, HeartbeatPeriod, TimesyncPeriod, PeerTimeout, MaxInbox, MaxAge}
       \subseteq Nat \ {0}
  /\ MaxLoop \in Nat /\ MaxLoop < Period

\* The periods are far shorter than a wrap of millis(), and ages are told apart beyond
\* the bounds below.
ASSUME AgesAssumption ==
  /\ HeartbeatPeriod + Period < Wrap /\ HeartbeatPeriod + Period < MaxAge
  /\ PeerTimeout + Period + MaxLoop < Wrap /\ PeerTimeout + Period + MaxLoop < MaxAge

VARIABLES
  millis,
  state,      \* state_
  peerSeen,   \* peer_seen_
  lastPeer,   \* last_peer_heartbeat_ms_
  lastBeat,   \* last_heartbeat_ms_
  lastSync,   \* last_timesync_ms_
  pc,         \* idle, drain, switch: where loop() is
  now,        \* loop()'s local; 0 outside it
  inbox,      \* peer heartbeats received and not yet drained
  arrived     \* whether one was received this millisecond

\* History: time since the loop began, since a peer heartbeat was dispatched and
\* since one of ours was sent; whether this connection has sent a TIMESYNC.
VARIABLES sinceLoop, heard, sinceBeat, synced

clocks == <<millis, sinceLoop, heard, sinceBeat>>
vars == <<state, peerSeen, lastPeer, lastBeat, lastSync, pc, now, inbox,
          arrived, synced, clocks>>

Older(t) == IF t < MaxAge THEN t + 1 ELSE MaxAge
Elapsed(a, b) == (a - b) % Wrap

Init ==
  /\ millis = 0
  /\ state = "WAITING" /\ peerSeen = FALSE
  /\ lastPeer = 0 /\ lastBeat = 0 /\ lastSync = 0
  /\ pc = "idle" /\ now = 0
  /\ inbox = 0 /\ arrived = FALSE
  /\ sinceLoop = 0 /\ heard = MaxAge /\ sinceBeat = 0 /\ synced = FALSE

\* A millisecond passes; the link task wakes on time and its loop is short.
Wrapped(t) == t % Wrap
Unwrapped(t) == t
Counter(t) == Wrapped(t)

Tick ==
  /\ sinceLoop < (IF pc = "idle" THEN Period ELSE MaxLoop)
  /\ millis' = Counter(millis + 1)
  /\ sinceLoop' = sinceLoop + 1
  /\ heard' = Older(heard)
  /\ sinceBeat' = Older(sinceBeat)
  /\ arrived' = FALSE
  /\ UNCHANGED <<state, peerSeen, lastPeer, lastBeat, lastSync, pc, now, inbox, synced>>

\* A peer heartbeat arrives, one in a millisecond at most; with the ring full it is
\* lost.
PeerHeartbeat ==
  /\ ~arrived /\ arrived' = TRUE
  /\ inbox' = IF inbox < MaxInbox THEN inbox + 1 ELSE inbox
  /\ UNCHANGED <<state, peerSeen, lastPeer, lastBeat, lastSync, pc, now, synced, clocks>>

\* emitHeartbeatIfDue(), and emitTimesyncIfDue() alike: 0 means never sent.
PastDeadline(t, last, period) == t >= last + period \/ last = 0
PeriodElapsed(t, last, period) == Elapsed(t, last) >= period \/ last = 0
Due(t, last, period) == PeriodElapsed(t, last, period)

\* loop() up to drainRx().
LoopStart ==
  /\ pc = "idle" /\ sinceLoop = Period
  /\ now' = millis
  /\ IF Due(millis, lastBeat, HeartbeatPeriod)
     THEN lastBeat' = millis /\ sinceBeat' = 0
     ELSE UNCHANGED <<lastBeat, sinceBeat>>
  /\ pc' = "drain"
  /\ sinceLoop' = 0
  /\ UNCHANGED <<state, peerSeen, lastPeer, lastSync, inbox, arrived, synced, millis, heard>>

\* dispatchMessage() of a heartbeat.
Dispatch ==
  /\ pc = "drain" /\ inbox > 0
  /\ inbox' = inbox - 1
  /\ lastPeer' = millis /\ peerSeen' = TRUE
  /\ heard' = 0
  /\ UNCHANGED <<state, lastBeat, lastSync, pc, now, arrived, synced, millis,
                 sinceLoop, sinceBeat>>

Drained ==
  /\ pc = "drain" /\ inbox = 0
  /\ pc' = "switch"
  /\ UNCHANGED <<state, peerSeen, lastPeer, lastBeat, lastSync, now, inbox, arrived, synced,
                 clocks>>

\* loop()'s switch, and its return.
Return == pc' = "idle" /\ now' = 0

\* last_timesync_ms_ at a new connection.
SyncKept == lastSync
SyncAfresh == 0

Waiting ==
  /\ pc = "switch" /\ state = "WAITING"
  /\ IF peerSeen
     THEN state' = "CONNECTED" /\ lastSync' = SyncAfresh /\ synced' = FALSE
     ELSE UNCHANGED <<state, lastSync, synced>>
  /\ Return
  /\ UNCHANGED <<peerSeen, lastPeer, lastBeat, inbox, arrived, clocks>>

NeverSilent == FALSE
PeerSilent == Elapsed(now, lastPeer) > PeerTimeout

\* emitTimesyncIfDue(), then the timeout.
Timesync ==
  IF Due(now, lastSync, TimesyncPeriod)
  THEN lastSync' = now /\ synced' = TRUE
  ELSE UNCHANGED <<lastSync, synced>>

TimeOut ==
  /\ pc = "switch" /\ state = "CONNECTED" /\ PeerSilent
  /\ Timesync
  /\ state' = "DISCONNECTED"
  /\ Return
  /\ UNCHANGED <<peerSeen, lastPeer, lastBeat, inbox, arrived, clocks>>

\* The publishers run.
Publish ==
  /\ pc = "switch" /\ state = "CONNECTED" /\ ~PeerSilent
  /\ Timesync
  /\ Return
  /\ UNCHANGED <<state, peerSeen, lastPeer, lastBeat, inbox, arrived, clocks>>

\* Where DISCONNECTED leads.
StayDown == "DISCONNECTED"
StartOver == "WAITING"

Disconnected ==
  /\ pc = "switch" /\ state = "DISCONNECTED"
  /\ peerSeen' = FALSE
  /\ state' = StartOver
  /\ Return
  /\ UNCHANGED <<lastPeer, lastBeat, lastSync, inbox, arrived, synced, clocks>>

Loop == LoopStart \/ Dispatch \/ Drained \/ Waiting \/ TimeOut \/ Publish \/ Disconnected

Next == Tick \/ PeerHeartbeat \/ Loop

Spec == Init /\ [][Next]_vars

\* Time passes and the link task runs; nothing is assumed of the peer.
FairSpec == Spec /\ WF_vars(Tick) /\ WF_vars(Loop)

-----------------------------------------------------------------------------
Times == 0 .. Wrap - 1

TypeOK ==
  /\ millis \in Times
  /\ state \in {"WAITING", "CONNECTED", "DISCONNECTED"}
  /\ peerSeen \in BOOLEAN
  /\ lastPeer \in Times /\ lastBeat \in Times /\ lastSync \in Times
  /\ pc \in {"idle", "drain", "switch"} /\ now \in Times
  /\ inbox \in 0 .. MaxInbox /\ arrived \in BOOLEAN
  /\ sinceLoop \in 0 .. Period
  /\ heard \in 0 .. MaxAge /\ sinceBeat \in 0 .. MaxAge /\ synced \in BOOLEAN

\* Our heartbeats never pause, whatever the peer does and where millis() wraps:
\* the host's own timeout watches them.
HeartbeatOnTime == sinceBeat < HeartbeatPeriod + Period

\* Telemetry goes only to a peer heard within its timeout.
PublishesToLivePeer == [][Publish => heard <= PeerTimeout + MaxLoop]_vars

\* A connection synchronises the clocks before its first telemetry, whose
\* timestamps the host converts.
TimesyncBeforeTelemetry == [][Publish => synced']_vars

\* A peer whose heartbeats keep coming is connected again and again.
PeerKeepsUp == []<><<PeerHeartbeat>>_vars
LivePeerConnected == PeerKeepsUp => []<>(state = "CONNECTED")

\* ARCHITECTURE.md: "if no peer HEARTBEAT for 3 s -> DISCONNECTED": the node
\* disconnects a peer only after that long a silence.
DisconnectsOnSilenceOnly == [][TimeOut => heard >= PeerTimeout]_vars
=============================================================================
