----------------------------- MODULE BridgePeer -----------------------------
(***************************************************************************)
(* How the bridge follows the MCU: whether it is alive, and the offset     *)
(* from its clock to the wall clock.  The receive thread handles the MCU's *)
(* heartbeats and TIMESYNC messages, the executor runs heartbeatTimer()    *)
(* and timesyncTimer(); they meet in atomics.  The MCU may go down and     *)
(* come back with its clock restarted, the wall clock may be stepped,      *)
(* messages get lost, and a reply takes as long as the link makes it.      *)
(*                                                                         *)
(* Offsets are told apart only by being right.  A two-way sample takes the *)
(* MCU's stamp for the middle of the round trip: it is off by half of what *)
(* its two legs differ by, however long they take together.  A reply is    *)
(* even when that half is at most some tolerance, lopsided otherwise, and  *)
(* a sample is right within that tolerance of what the clocks now say, the *)
(* estimate within kStepNs more.  So a wrong estimate and a right sample   *)
(* are further apart than kStepNs, and nothing else is known of their      *)
(* distance.  A lopsided reply, one that a restart or a step crossed, and  *)
(* a one-way sample may be right or wrong.  The tolerance is any one: the  *)
(* link decides for which its replies are even.                            *)
(*                                                                         *)
(* The time a request and its reply take is spent on the reply.  One reply *)
(* is kept under way, the one to the last request: onTimesync() drops the  *)
(* others by their ts1.                                                    *)
(***************************************************************************)
EXTENDS Integers

CONSTANTS
  Period,        \* kTimesyncPeriod, in ticks of kTimesyncFastPeriod
  FastSamples,   \* kTimesyncFastSamples
  FastRequests,  \* kTimesyncFastRequests
  StepSamples,   \* kStepSamples
  MinRtts,       \* kMinRttsForFilter
  PeerTimeout,   \* peer_timeout_
  BeatPeriod,    \* the MCU's heartbeat period
  MaxDelay,      \* longest a reply takes
  Step           \* bound of the model: how far the wall clock is stepped

ASSUME TimesAssumption ==
  /\ {Period, FastSamples, FastRequests, StepSamples, MinRtts, BeatPeriod, Step}
       \subseteq Nat \ {0}
  /\ MaxDelay \in Nat /\ MaxDelay < Period
  /\ PeerTimeout \in Nat /\ PeerTimeout > BeatPeriod

VARIABLES
  up,         \* the MCU runs
  sinceBeat,  \* time since its last heartbeat
  reply       \* to the last request: none, even, lopsided, or crossed (by a restart or
              \* a step of the clocks)

\* The bridge's atomics.  The two times are kept as ages by the wall clock: how long
\* ago it says they were, negative after it was stepped back.
VARIABLES
  alive,      \* peer_alive_
  beatAge,    \* of last_peer_heartbeat_ns_
  requestAge, \* of timesync_request_ns_
  requests,   \* timesync_requests_, up to FastRequests
  accepted    \* timesync_two_way_samples_, up to FastSamples

\* The estimator; time_offset_ns_ and time_synced_ are its copies.
VARIABLES
  synced, right, twoWay, stepCount,
  rtts        \* rtt_count_, up to MinRtts

VARIABLES
  rx,         \* the receive thread: idle, or beat (heartbeat stored)
  exec,       \* heartbeatTimer(): idle, or old (heartbeat found too old)
  fired,      \* timesyncTimer() ran since the last tick
  delay,      \* how long the link takes, at least, for a request and its reply
  waited,     \* how long the reply has been under way
  rightInRow  \* history: right samples in a row since the clocks last changed, up to
              \* StepSamples

mcu == <<up, sinceBeat>>
link == <<reply, waited, delay>>
peer == <<alive, beatAge>>
pace == <<requestAge, requests, accepted>>
estimate == <<synced, right, twoWay, stepCount, rtts, rightInRow>>
threads == <<rx, exec, fired>>
vars == <<mcu, link, peer, pace, estimate, threads>>

UpTo(bound, n) == IF n < bound THEN n ELSE bound

\* last_peer_heartbeat_ns_ is still 0.
Never == PeerTimeout + 2

Init ==
  /\ up = FALSE /\ sinceBeat = 0
  /\ reply = "none" /\ waited = 0 /\ delay \in 0 .. MaxDelay
  /\ alive = FALSE /\ beatAge = Never
  /\ requestAge = Period /\ requests = 0 /\ accepted = 0
  /\ synced = FALSE /\ right = FALSE /\ twoWay = FALSE /\ stepCount = 0 /\ rtts = 0
  /\ rx = "idle" /\ exec = "idle" /\ fired = FALSE
  /\ rightInRow = 0

-----------------------------------------------------------------------------
\* Time, the MCU and the link.

\* The wall clock advances by d.
Advance(d) ==
  /\ beatAge' = IF beatAge = Never THEN Never ELSE UpTo(PeerTimeout + 1, beatAge + d)
  /\ requestAge' = UpTo(Period, requestAge + d)

Tick ==
  /\ up => sinceBeat < BeatPeriod
  /\ reply # "none" => waited < MaxDelay
  /\ sinceBeat' = IF up THEN sinceBeat + 1 ELSE 0
  /\ waited' = IF reply # "none" THEN waited + 1 ELSE 0
  /\ Advance(1)
  /\ fired' = FALSE
  /\ UNCHANGED <<up, reply, delay, alive, requests, accepted, estimate, rx, exec>>

\* The clocks no longer stand as they stood: neither the estimate nor a sample under
\* way is known to be right.
ClocksChange ==
  /\ reply' = IF reply = "none" THEN "none" ELSE "crossed"
  /\ right' \in BOOLEAN /\ rightInRow' = 0
  /\ UNCHANGED <<waited, delay, synced, twoWay, stepCount, rtts>>

GoesDown ==
  /\ up /\ up' = FALSE /\ sinceBeat' = 0
  /\ UNCHANGED <<link, peer, pace, estimate, threads>>

Restart ==
  /\ ~up /\ up' = TRUE /\ sinceBeat' = BeatPeriod
  /\ ClocksChange
  /\ UNCHANGED <<peer, pace, threads>>

WallStep ==
  /\ \E d \in {-Step, Step} : beatAge + d >= -Step /\ requestAge + d >= -Step /\ Advance(d)
  /\ ClocksChange
  /\ UNCHANGED <<mcu, alive, requests, accepted, threads>>

\* A heartbeat, or the reply, is lost.
BeatLost ==
  /\ up /\ sinceBeat > 0 /\ sinceBeat' = 0
  /\ UNCHANGED <<up, link, peer, pace, estimate, threads>>

ReplyGone == reply' = "none" /\ waited' = 0 /\ UNCHANGED delay

ReplyLost ==
  /\ reply # "none"
  /\ ReplyGone
  /\ UNCHANGED <<mcu, peer, pace, estimate, threads>>

-----------------------------------------------------------------------------
\* The receive thread.

\* onHeartbeat() stores the stamp first ...
StampConnectOnly == IF alive THEN beatAge ELSE 0
StampAlways == 0
BeatStamp == StampAlways

BeatStored ==
  /\ up /\ sinceBeat > 0 /\ rx = "idle"
  /\ sinceBeat' = 0
  /\ beatAge' = BeatStamp
  /\ rx' = "beat"
  /\ UNCHANGED <<up, link, alive, pace, estimate, exec, fired>>

\* ... then the flag; a connection starts the estimate over.
BeatDone ==
  /\ rx = "beat" /\ rx' = "idle"
  /\ alive' = TRUE
  /\ IF alive
     THEN UNCHANGED <<pace, estimate>>
     ELSE /\ requests' = 0 /\ accepted' = 0
          /\ synced' = FALSE /\ right' = FALSE /\ twoWay' = FALSE
          /\ stepCount' = 0 /\ rtts' = 0
          /\ UNCHANGED <<requestAge, rightInRow>>
  /\ UNCHANGED <<mcu, link, beatAge, exec, fired>>

\* What update() makes of a sample off the estimate.
Crawl == FALSE
EnoughSteps == stepCount + 1 >= StepSamples
Reseeds == EnoughSteps

\* update(sample), ok telling whether the sample is right: averaged when within kStepNs
\* of the estimate; off it, dropped unless it is the StepSamples-th in a row.  Seeded
\* from a right sample, or averaged with one, the estimate is right.
Update(ok, fresh) ==
  LET RightIf(known) == right' \in IF known THEN {TRUE} ELSE BOOLEAN
      Seed == synced' = TRUE /\ RightIf(ok) /\ stepCount' = 0
      Average == (ok => right) /\ RightIf(ok) /\ stepCount' = 0 /\ UNCHANGED synced
      Off == IF Reseeds THEN Seed
             ELSE stepCount' = stepCount + 1 /\ UNCHANGED <<synced, right>>
  IN /\ \/ (~synced \/ fresh) /\ Seed
        \/ synced /\ ~fresh /\ (Average \/ Off)
     /\ rightInRow' = IF ok THEN UpTo(StepSamples, rightInRow + 1) ELSE 0

\* onTimesync() of the MCU's own TIMESYNC: addOneWay(), until a two-way sample was
\* taken.  It is off by the uplink delay, and by what changed while it was under way.
OneWay ==
  /\ up /\ rx = "idle" /\ ~twoWay
  /\ \E ok \in BOOLEAN : Update(ok, FALSE)
  /\ UNCHANGED <<mcu, link, peer, pace, twoWay, rtts, threads>>

ReplyArrives ==
  /\ rx = "idle" /\ reply # "none" /\ waited >= delay
  /\ ReplyGone

\* onTimesync() of the reply to the last request: addTwoWay() takes it ...
TwoWay ==
  /\ ReplyArrives
  /\ \E ok \in BOOLEAN : (reply = "even" => ok) /\ Update(ok, ~twoWay)
  /\ twoWay' = TRUE /\ rtts' = UpTo(MinRtts, rtts + 1)
  /\ accepted' = UpTo(FastSamples, accepted + 1)
  /\ UNCHANGED <<mcu, peer, requestAge, requests, threads>>

\* ... or finds the round trip longer than twice the median, ...
TooLong ==
  /\ ReplyArrives /\ rtts + 1 >= MinRtts
  /\ rtts' = UpTo(MinRtts, rtts + 1)
  /\ UNCHANGED <<mcu, peer, pace, synced, right, twoWay, stepCount, rightInRow, threads>>

\* ... or negative, the wall clock having been stepped back.
Negative ==
  /\ ReplyArrives /\ reply = "crossed"
  /\ UNCHANGED <<mcu, peer, pace, estimate, threads>>

-----------------------------------------------------------------------------
\* The executor.

\* heartbeatTimer() loads the clock and the stamp ...
FindsOld ==
  /\ exec = "idle" /\ beatAge # Never /\ beatAge > PeerTimeout
  /\ exec' = "old"
  /\ UNCHANGED <<mcu, link, peer, pace, estimate, rx, fired>>

\* ... and clears the flag, whatever the receive thread has done since.
DeclareLost ==
  /\ exec = "old" /\ exec' = "idle"
  /\ alive' = FALSE
  /\ UNCHANGED <<mcu, link, beatAge, pace, estimate, rx, fired>>

\* timesyncTimer(): when a request is due.
FastUntilSampled == accepted < FastSamples
FastForAWhile == accepted < FastSamples /\ requests < FastRequests
Fast == FastForAWhile
RequestDue == alive /\ (Fast \/ requestAge >= Period)

NoRequest ==
  /\ exec = "idle" /\ ~fired /\ ~RequestDue
  /\ fired' = TRUE
  /\ UNCHANGED <<mcu, link, peer, pace, estimate, rx, exec>>

\* It is stamped, counted and sent; an MCU that is up answers.  How the delay falls on
\* the two legs is the link's affair.
Request ==
  /\ exec = "idle" /\ ~fired /\ RequestDue
  /\ fired' = TRUE
  /\ requestAge' = 0 /\ requests' = UpTo(FastRequests, requests + 1)
  /\ reply' \in (IF up THEN {"even", "lopsided"} ELSE {"none"}) /\ waited' = 0
  /\ UNCHANGED <<mcu, delay, peer, accepted, estimate, rx, exec>>

-----------------------------------------------------------------------------
World == GoesDown \/ Restart \/ WallStep \/ BeatLost \/ ReplyLost
Replied == TwoWay \/ TooLong \/ Negative
HeartbeatTimer == FindsOld \/ DeclareLost
TimesyncTimer == NoRequest \/ Request

Rx == BeatStored \/ BeatDone \/ OneWay \/ Replied

Next == Tick \/ World \/ Rx \/ HeartbeatTimer \/ TimesyncTimer

Spec == Init /\ [][Next]_vars

\* Time passes, the heartbeats of a running MCU come in and both threads are scheduled.
FairSpec ==
  /\ Spec
  /\ WF_vars(Tick)
  /\ WF_vars(BeatStored) /\ WF_vars(BeatDone)
  /\ WF_vars(Replied)
  /\ SF_vars(FindsOld) /\ WF_vars(DeclareLost)
  /\ SF_vars(TimesyncTimer)

-----------------------------------------------------------------------------
TypeOK ==
  /\ up \in BOOLEAN /\ sinceBeat \in 0 .. BeatPeriod
  /\ reply \in {"none", "even", "lopsided", "crossed"} /\ waited \in 0 .. MaxDelay
  /\ delay \in 0 .. MaxDelay
  /\ alive \in BOOLEAN
  /\ beatAge \in -Step .. Never
  /\ requestAge \in -Step .. Period
  /\ requests \in 0 .. FastRequests /\ accepted \in 0 .. FastSamples
  /\ synced \in BOOLEAN /\ right \in BOOLEAN /\ twoWay \in BOOLEAN
  /\ stepCount \in 0 .. StepSamples - 1 /\ rtts \in 0 .. MinRtts
  /\ rx \in {"idle", "beat"} /\ exec \in {"idle", "old"}
  /\ fired \in BOOLEAN /\ rightInRow \in 0 .. StepSamples

\* A restart nobody noticed, or a stepped wall clock, costs at most StepSamples samples:
\* once that many right ones came in a row, the offset in use is right.
ReseededInTime == synced /\ rightInRow >= StepSamples => right

\* What the bridge cannot help comes to an end.
Settled == <>[][~World]_vars

\* The flag comes to tell whether the MCU runs, whichever way the timer raced with
\* the heartbeat that proved it alive.
PeerTracked == Settled => <>[](alive = up)

\* The RTT filter follows the median and does not reject one reply after another for ever.
FilterFollows == []<><<TooLong>>_vars => []<><<TwoWay>>_vars

\* What a two-way sample takes for granted and cannot see: the legs of a request and its
\* reply differ by no more than twice the tolerance.
LegsEven == <>[](reply # "lopsided")

\* With an MCU that runs, the offset comes to be the two-way one, even over a link slower
\* than the first requests and after any restart or step before; and where the delays of
\* the link are even, it comes to be right and stays so.
OffsetFollowsClocks ==
  Settled /\ FilterFollows =>
    /\ <>[](up => synced /\ twoWay)
    /\ LegsEven => <>[](up => right)
=============================================================================
