--------------------------- MODULE LinkTaskProofs ---------------------------
(***************************************************************************)
(* Proofs about the two halves of the link task: MavlinkNode::loop(), for  *)
(* any periods short of a wrap of millis() - our heartbeats keep their     *)
(* pace, telemetry goes to a peer heard within its timeout and never       *)
(* before the connection's TIMESYNC - and the receive side under it, for   *)
(* any sizes, payloads and number of frames.                               *)
(***************************************************************************)
EXTENDS MavlinkNode, LinkReceive, SequenceTheorems, TLAPS

-----------------------------------------------------------------------------
(***************************************************************************)
(* MavlinkNode::loop().                                                    *)
(***************************************************************************)


\* A clock value was read d ago, less than a wrap of millis().
Ago(value, d) == value = millis - d \/ value = millis - d + Wrap

\* loop()'s local is the time it began, and a loop is short.
NowIsTrue == pc # "idle" => sinceLoop <= MaxLoop /\ Ago(now, sinceLoop)

\* Since our last heartbeat, one was not yet due or the loop has not run again.
BeatRecent == sinceBeat < HeartbeatPeriod + sinceLoop
BeatIsTrue == lastBeat # 0 => Ago(lastBeat, sinceBeat)
Beats == BeatRecent /\ BeatIsTrue

\* A peer is known while it is connected, or dispatched in this very loop.
Known == state = "CONNECTED" \/ (state = "WAITING" /\ peerSeen)
JustSeen == state = "WAITING" /\ peerSeen => pc # "idle" /\ heard <= sinceLoop

\* The last loop found a connected peer within its timeout.
PeerRecent ==
  state = "CONNECTED" =>
    heard <= PeerTimeout + sinceLoop + IF pc = "idle" THEN 0 ELSE Period
PeerIsTrue == Known => Ago(lastPeer, heard)
Peers == JustSeen /\ PeerRecent /\ PeerIsTrue

\* A connection starts with no TIMESYNC sent, which makes one due.
SyncOwed == state = "CONNECTED" => synced \/ lastSync = 0

IInv == TypeOK /\ NowIsTrue /\ Beats /\ Peers /\ SyncOwed

-----------------------------------------------------------------------------
\* Facts about the numbers.

LEMMA Numbers ==
  /\ Wrap \in Int /\ Period \in Int /\ MaxLoop \in Int /\ HeartbeatPeriod \in Int
  /\ TimesyncPeriod \in Int /\ PeerTimeout \in Int /\ MaxInbox \in Int /\ MaxAge \in Int
  /\ Wrap > 0 /\ Period > 0 /\ HeartbeatPeriod > 0 /\ PeerTimeout > 0
  /\ MaxInbox > 0 /\ MaxAge > 0
  /\ MaxLoop >= 0 /\ MaxLoop < Period
  /\ HeartbeatPeriod + Period < Wrap /\ HeartbeatPeriod + Period < MaxAge
  /\ PeerTimeout + Period + MaxLoop < Wrap /\ PeerTimeout + Period + MaxLoop < MaxAge
BY TimesAssumption, AgesAssumption

LEMMA Zero == 0 \in Times
BY Numbers DEF Times

LEMMA WrapsOnce ==
  ASSUME NEW n \in Nat \ {0}, NEW t \in 0 .. n - 1
  PROVE  (t + 1) % n = IF t + 1 < n THEN t + 1 ELSE 0
OBVIOUS

LEMMA RemainderIsUnique ==
  ASSUME NEW n \in Nat \ {0}, NEW q \in Int, NEW r \in 0 .. n - 1
  PROVE  (n * q + r) % n = r
OBVIOUS

\* The unsigned difference of two clock values is how long the one was read after the
\* other.
LEMMA ElapsedIsExact ==
  ASSUME NEW a \in Times, NEW b \in Times, NEW d \in 0 .. Wrap - 1,
         a - b = d \/ a - b = d - Wrap
  PROVE  Elapsed(a, b) = d
<1>1. Wrap \in Nat \ {0}
  BY TimesAssumption
<1>2. CASE a - b = d
  <2>1. a - b = Wrap * 0 + d
    BY <1>1, <1>2 DEF Times
  <2>2. QED
    BY <1>1, <2>1, RemainderIsUnique DEF Elapsed
<1>3. CASE a - b = d - Wrap
  <2>1. a - b = Wrap * (-1) + d
    BY <1>1, <1>3 DEF Times
  <2>2. QED
    BY <1>1, <2>1, RemainderIsUnique DEF Elapsed
<1>4. QED
  BY <1>2, <1>3

\* A millisecond later, what was read d ago was read d + 1 ago.
LEMMA AgoTicks ==
  ASSUME millis \in Times, Tick, NEW v \in Times, NEW d \in Int, 0 <= d, d + 1 < Wrap,
         Ago(v, d)
  PROVE  v = millis' - (d + 1) \/ v = millis' - (d + 1) + Wrap
<1>1. (millis + 1) % Wrap = IF millis + 1 < Wrap THEN millis + 1 ELSE 0
  BY WrapsOnce, TimesAssumption DEF Times
<1>2. QED
  BY <1>1, Numbers DEF Tick, Counter, Wrapped, Times, Ago

-----------------------------------------------------------------------------
LEMMA InitHolds == Init => IInv
<1>1. /\ 0 \in 0 .. Period /\ 0 \in 0 .. MaxInbox
      /\ 0 \in 0 .. MaxAge /\ MaxAge \in 0 .. MaxAge
  BY Numbers
<1>2. Init => TypeOK
  BY <1>1, Zero DEF Init, TypeOK
<1>3. Init => NowIsTrue /\ Beats /\ Peers /\ SyncOwed
  BY Numbers
  DEF Init, NowIsTrue, Beats, BeatRecent, BeatIsTrue, Peers, JustSeen, PeerRecent, PeerIsTrue,
      Known, SyncOwed
<1>4. QED
  BY <1>2, <1>3 DEF IInv

LEMMA TickHolds == ASSUME IInv, Tick PROVE IInv'
<1>1. millis' \in Times
  BY TimesAssumption, Numbers DEF IInv, TypeOK, Tick, Counter, Wrapped, Times
<1>2. TypeOK'
  <2>1. sinceLoop' \in 0 .. Period
    BY Numbers DEF IInv, TypeOK, Tick
  <2>2. heard' \in 0 .. MaxAge /\ sinceBeat' \in 0 .. MaxAge
    BY Numbers DEF IInv, TypeOK, Tick, Older
  <2>3. QED
    BY <1>1, <2>1, <2>2 DEF IInv, TypeOK, Tick
<1>3. NowIsTrue'
  <2>1. pc # "idle" => sinceLoop < MaxLoop /\ Ago(now, sinceLoop)
    BY DEF IInv, NowIsTrue, Tick
  <2>2. ASSUME pc # "idle" PROVE now = millis' - (sinceLoop + 1)
                                 \/ now = millis' - (sinceLoop + 1) + Wrap
    <3>1. sinceLoop \in Int /\ 0 <= sinceLoop /\ sinceLoop + 1 < Wrap
      BY <2>1, <2>2, Numbers DEF IInv, TypeOK
    <3>2. QED
      BY <2>1, <2>2, <3>1, AgoTicks DEF IInv, TypeOK
  <2>3. QED
    BY <2>1, <2>2, Numbers DEF NowIsTrue, Tick, Ago, IInv, TypeOK
<1>4. Beats'
  <2>1. /\ sinceBeat \in Int /\ sinceLoop \in Int /\ 0 <= sinceBeat
        /\ sinceBeat + 1 < Wrap /\ sinceBeat < MaxAge
    BY Numbers DEF IInv, TypeOK, Beats, BeatRecent
  <2>2. sinceBeat' = sinceBeat + 1 /\ sinceLoop' = sinceLoop + 1
    BY <2>1 DEF Tick, Older
  <2>3. BeatRecent'
    BY <2>1, <2>2, Numbers DEF IInv, Beats, BeatRecent
  <2>4. ASSUME lastBeat # 0 PROVE lastBeat = millis' - (sinceBeat + 1)
                                  \/ lastBeat = millis' - (sinceBeat + 1) + Wrap
    BY <2>1, <2>4, AgoTicks DEF IInv, TypeOK, Beats, BeatIsTrue
  <2>5. BeatIsTrue'
    BY <2>2, <2>4 DEF BeatIsTrue, Ago, Tick
  <2>6. QED
    BY <2>3, <2>5 DEF Beats
<1>5. Peers'
  <2>1. ASSUME Known
        PROVE  /\ heard \in Int /\ sinceLoop \in Int /\ 0 <= heard
               /\ heard + 1 < Wrap /\ heard < MaxAge
    <3>1. /\ heard \in 0 .. MaxAge /\ sinceLoop \in 0 .. Period
          /\ sinceLoop < (IF pc = "idle" THEN Period ELSE MaxLoop)
      BY DEF IInv, TypeOK, Tick
    <3>2. heard <= PeerTimeout + sinceLoop + IF pc = "idle" THEN 0 ELSE Period
      BY <2>1, <3>1, Numbers DEF Known, IInv, Peers, JustSeen, PeerRecent
    <3>3. QED
      BY <3>1, <3>2, Numbers
  <2>2. Known => heard' = heard + 1
    BY <2>1 DEF Tick, Older
  <2>3. sinceLoop' = sinceLoop + 1 /\ UNCHANGED <<state, peerSeen, pc, lastPeer>>
    BY DEF Tick
  <2>4. JustSeen'
    BY <2>1, <2>2, <2>3 DEF IInv, Peers, JustSeen, Known
  <2>5. PeerRecent'
    BY <2>1, <2>2, <2>3, Numbers DEF IInv, Peers, PeerRecent, Known
  <2>6. ASSUME Known PROVE lastPeer = millis' - (heard + 1)
                           \/ lastPeer = millis' - (heard + 1) + Wrap
    BY <2>1, <2>6, AgoTicks DEF IInv, TypeOK, Peers, PeerIsTrue
  <2>7. PeerIsTrue'
    BY <2>2, <2>3, <2>6 DEF PeerIsTrue, Known, Ago
  <2>8. QED
    BY <2>4, <2>5, <2>7 DEF Peers
<1>6. SyncOwed'
  BY DEF IInv, SyncOwed, Tick
<1>7. QED
  BY <1>2, <1>3, <1>4, <1>5, <1>6 DEF IInv

LEMMA HeartbeatHolds == ASSUME IInv, PeerHeartbeat PROVE IInv'
<1>1. inbox' \in 0 .. MaxInbox
  BY Numbers DEF PeerHeartbeat, IInv, TypeOK
<1>2. TypeOK'
  BY <1>1 DEF PeerHeartbeat, IInv, TypeOK, clocks
<1>3. QED
  BY <1>2
  DEF PeerHeartbeat, clocks, IInv, NowIsTrue, Ago, Beats, BeatRecent, BeatIsTrue, Peers,
      JustSeen, PeerRecent, PeerIsTrue, Known, SyncOwed

\* A heartbeat that is not due is young; one sent now is new.
LEMMA LoopStartHolds == ASSUME IInv, LoopStart PROVE IInv'
<1>1. TypeOK'
  <2>1. 0 \in 0 .. Period /\ 0 \in 0 .. MaxAge
    BY Numbers
  <2>2. QED
    BY <2>1 DEF LoopStart, IInv, TypeOK
<1>2. NowIsTrue'
  BY Numbers DEF LoopStart, IInv, TypeOK, Times, NowIsTrue, Ago
<1>3. Beats'
  <2>1. CASE Due(millis, lastBeat, HeartbeatPeriod)
    BY <2>1, Numbers DEF LoopStart, IInv, TypeOK, Times, Beats, BeatRecent, BeatIsTrue, Ago
  <2>2. CASE ~Due(millis, lastBeat, HeartbeatPeriod)
    <3>1. lastBeat # 0 /\ ~(Elapsed(millis, lastBeat) >= HeartbeatPeriod)
      BY <2>2 DEF Due, PeriodElapsed
    <3>2. /\ sinceBeat \in 0 .. Wrap - 1
          /\ millis - lastBeat = sinceBeat \/ millis - lastBeat = sinceBeat - Wrap
      BY <3>1, Numbers DEF LoopStart, IInv, TypeOK, Times, Beats, BeatRecent, BeatIsTrue, Ago
    <3>3. Elapsed(millis, lastBeat) = sinceBeat
      BY <3>2, ElapsedIsExact DEF IInv, TypeOK
    <3>4. sinceBeat < HeartbeatPeriod
      BY <3>1, <3>2, <3>3, Numbers
    <3>5. QED
      BY <2>2, <3>4, Numbers
      DEF LoopStart, IInv, TypeOK, Beats, BeatRecent, BeatIsTrue, Ago
  <2>3. QED
    BY <2>1, <2>2
<1>4. Peers'
  BY Numbers
  DEF LoopStart, IInv, TypeOK, Peers, JustSeen, PeerRecent, PeerIsTrue, Known, Ago
<1>5. SyncOwed'
  BY DEF LoopStart, IInv, SyncOwed
<1>6. QED
  BY <1>1, <1>2, <1>3, <1>4, <1>5 DEF IInv

LEMMA DispatchHolds == ASSUME IInv, Dispatch PROVE IInv'
<1>1. TypeOK'
  <2>1. inbox - 1 \in 0 .. MaxInbox /\ 0 \in 0 .. MaxAge
    BY Numbers DEF Dispatch, IInv, TypeOK
  <2>2. QED
    BY <2>1 DEF Dispatch, IInv, TypeOK
<1>2. Peers'
  BY Numbers
  DEF Dispatch, IInv, TypeOK, Times, Peers, JustSeen, PeerRecent, PeerIsTrue, Known, Ago
<1>3. QED
  BY <1>1, <1>2
  DEF Dispatch, IInv, NowIsTrue, Ago, Beats, BeatRecent, BeatIsTrue, SyncOwed

LEMMA DrainedHolds == ASSUME IInv, Drained PROVE IInv'
<1>1. TypeOK'
  BY DEF Drained, IInv, TypeOK, clocks
<1>2. QED
  BY <1>1
  DEF Drained, clocks, IInv, NowIsTrue, Ago, Beats, BeatRecent, BeatIsTrue, Peers, JustSeen,
      PeerRecent, PeerIsTrue, Known, SyncOwed

-----------------------------------------------------------------------------
\* What a loop's return leaves alone, whichever way its switch went.
LEMMA ReturnHolds ==
  ASSUME IInv, Return, UNCHANGED <<lastBeat, clocks>>
  PROVE  NowIsTrue' /\ Beats'
BY DEF IInv, Return, clocks, NowIsTrue, Beats, BeatRecent, BeatIsTrue, Ago

\* emitTimesyncIfDue() on a connection: afterwards one was sent.
LEMMA TimesyncHolds ==
  ASSUME IInv, state = "CONNECTED", Timesync
  PROVE  synced' /\ lastSync' \in Times
BY DEF IInv, TypeOK, SyncOwed, Timesync, Due, PeriodElapsed

LEMMA WaitingHolds == ASSUME IInv, Waiting PROVE IInv'
<1>1. TypeOK'
  BY Zero DEF Waiting, Return, SyncAfresh, IInv, TypeOK, clocks
<1>2. Peers'
  BY Numbers
  DEF Waiting, Return, clocks, IInv, TypeOK, Peers, JustSeen, PeerRecent, PeerIsTrue, Known,
      Ago
<1>3. SyncOwed'
  BY DEF Waiting, SyncAfresh, IInv, SyncOwed
<1>4. NowIsTrue' /\ Beats'
  BY ReturnHolds DEF Waiting
<1>5. QED
  BY <1>1, <1>2, <1>3, <1>4 DEF IInv

LEMMA TimeOutHolds == ASSUME IInv, TimeOut PROVE IInv'
<1>1. TypeOK'
  BY Zero, TimesyncHolds DEF TimeOut, Return, Timesync, IInv, TypeOK, clocks
<1>2. Peers' /\ SyncOwed'
  BY DEF TimeOut, Peers, JustSeen, PeerRecent, PeerIsTrue, Known, SyncOwed
<1>3. NowIsTrue' /\ Beats'
  BY ReturnHolds DEF TimeOut
<1>4. QED
  BY <1>1, <1>2, <1>3 DEF IInv

\* Telemetry goes out after emitTimesyncIfDue(), to a peer found recent as the loop
\* began.
LEMMA PublishIsTimely ==
  ASSUME IInv, Publish
  PROVE  heard <= PeerTimeout + sinceLoop /\ sinceLoop <= MaxLoop
<1>1. /\ pc = "switch" /\ state = "CONNECTED" /\ ~(Elapsed(now, lastPeer) > PeerTimeout)
      /\ heard \in 0 .. MaxAge /\ sinceLoop \in 0 .. Period
      /\ now \in Times /\ lastPeer \in Times /\ millis \in Times
  BY DEF Publish, PeerSilent, IInv, TypeOK
<1>2. Ago(now, sinceLoop) /\ Ago(lastPeer, heard) /\ sinceLoop <= MaxLoop
  BY <1>1 DEF IInv, NowIsTrue, Peers, PeerIsTrue, Known
<1>3. heard <= PeerTimeout + sinceLoop + Period
  BY <1>1 DEF IInv, Peers, PeerRecent
<1>4. CASE heard < sinceLoop
  BY <1>1, <1>2, <1>4, Numbers
<1>5. CASE heard >= sinceLoop
  <2>1. heard - sinceLoop \in 0 .. Wrap - 1
    BY <1>1, <1>2, <1>3, <1>5, Numbers
  <2>2. \/ now - lastPeer = heard - sinceLoop
        \/ now - lastPeer = (heard - sinceLoop) - Wrap
    BY <1>1, <1>2, <2>1, Numbers DEF Ago, Times
  <2>3. Elapsed(now, lastPeer) = heard - sinceLoop
    BY <1>1, <2>1, <2>2, ElapsedIsExact
  <2>4. QED
    BY <1>1, <1>2, <2>3, Numbers
<1>6. QED
  BY <1>1, <1>4, <1>5

LEMMA PublishHolds == ASSUME IInv, Publish PROVE IInv'
<1>1. TypeOK'
  BY Zero, TimesyncHolds DEF Publish, Return, Timesync, IInv, TypeOK, clocks
<1>2. Peers'
  <2>1. heard <= PeerTimeout + sinceLoop
    BY PublishIsTimely
  <2>2. PeerRecent'
    BY <2>1, Numbers DEF Publish, Return, clocks, PeerRecent, IInv, TypeOK
  <2>3. JustSeen' /\ PeerIsTrue'
    BY DEF Publish, Return, clocks, IInv, Peers, JustSeen, PeerIsTrue, Known, Ago
  <2>4. QED
    BY <2>2, <2>3 DEF Peers
<1>3. SyncOwed'
  BY TimesyncHolds DEF Publish, SyncOwed
<1>4. NowIsTrue' /\ Beats'
  BY ReturnHolds DEF Publish
<1>5. QED
  BY <1>1, <1>2, <1>3, <1>4 DEF IInv

LEMMA DisconnectedHolds == ASSUME IInv, Disconnected PROVE IInv'
<1>1. TypeOK'
  BY Zero DEF Disconnected, StartOver, Return, IInv, TypeOK, clocks
<1>2. Peers' /\ SyncOwed'
  BY DEF Disconnected, StartOver, Peers, JustSeen, PeerRecent, PeerIsTrue, Known, SyncOwed
<1>3. NowIsTrue' /\ Beats'
  BY ReturnHolds DEF Disconnected
<1>4. QED
  BY <1>1, <1>2, <1>3 DEF IInv

LEMMA StutterHolds == ASSUME IInv, UNCHANGED vars PROVE IInv'
<1>1. TypeOK'
  BY DEF IInv, TypeOK, vars, clocks
<1>2. QED
  BY <1>1
  DEF vars, clocks, IInv, NowIsTrue, Ago, Beats, BeatRecent, BeatIsTrue, Peers, JustSeen,
      PeerRecent, PeerIsTrue, Known, SyncOwed

LEMMA StepHolds == IInv /\ [Next]_vars => IInv'
BY TickHolds, HeartbeatHolds, LoopStartHolds, DispatchHolds, DrainedHolds, WaitingHolds,
   TimeOutHolds, PublishHolds, DisconnectedHolds, StutterHolds
DEF Next, Loop

LEMMA Inductive == Spec => []IInv
BY InitHolds, StepHolds, PTL DEF Spec

-----------------------------------------------------------------------------
\* The connection state, the times and where loop() is keep their types.
THEOREM TypeCorrect == Spec => []TypeOK
<1>1. IInv => TypeOK
  BY DEF IInv
<1>2. QED
  BY <1>1, Inductive, PTL

\* emitHeartbeatIfDue() keeps its pace in every state of the connection and across a
\* wrap of millis(), also when the last heartbeat was stamped 0.
THEOREM HeartbeatsNeverPause == Spec => []HeartbeatOnTime
<1>1. IInv => HeartbeatOnTime
  BY Numbers DEF IInv, TypeOK, Beats, BeatRecent, HeartbeatOnTime
<1>2. QED
  BY <1>1, Inductive, PTL

\* The publishers of loop() run for a peer heard within its timeout, by a loop's length
\* at most, though the age is computed from a time read before the drain.
THEOREM PublishesToTheLiving == Spec => PublishesToLivePeer
<1>1. ASSUME IInv, Publish PROVE heard <= PeerTimeout + MaxLoop
  BY <1>1, PublishIsTimely, Numbers DEF IInv, TypeOK
<1>2. IInv /\ [Next]_vars => [Publish => heard <= PeerTimeout + MaxLoop]_vars
  BY <1>1
<1>3. QED
  BY <1>2, Inductive, PTL DEF Spec, PublishesToLivePeer

\* A new connection owes a TIMESYNC, and loop() sends it before the publishers run.
THEOREM ClocksFirst == Spec => TimesyncBeforeTelemetry
<1>1. ASSUME IInv, Publish PROVE synced'
  BY <1>1, TimesyncHolds DEF Publish
<1>2. IInv /\ [Next]_vars => [Publish => synced']_vars
  BY <1>1
<1>3. QED
  BY <1>2, Inductive, PTL DEF Spec, TimesyncBeforeTelemetry

-----------------------------------------------------------------------------
(***************************************************************************)
(* The receive side under loop(), LinkReceive.                             *)
(***************************************************************************)

\* The bytes not parsed yet, and the next of them.
Line == chunk \o stream
NextByte == Line[1]
LastByte == Line[Len(Line)]

\* How two bytes in a row can follow each other: in a frame, or from the end of one, or
\* the cut in it, to the start of a later one.  Up to the first cut no frame is missing.
Continues(b, c) ==
  /\ ~IsEnd(b) /\ c.at = b.at + 1
  /\ c.frame = b.frame /\ c.len = b.len /\ c.cut = b.cut

Begins(b, c) ==
  /\ IsEnd(b) \/ b.cut
  /\ IsStart(c) /\ c.frame > b.frame
  /\ b.frame < whole => c.frame = b.frame + 1

Follows(b, c) == Continues(b, c) \/ Begins(b, c)

GoodByte(b) ==
  /\ b \in AllBytes /\ b.frame \in 1 .. sent /\ b.at <= b.len + 4
  /\ IsStart(b) => b.kind = "stx"
  /\ b.frame <= whole => ~b.cut

\* What is on the line: parts of frames in order, none of them delivered yet.
BytesGood == \A i \in 1 .. Len(Line) : GoodByte(Line[i])
Chained == \A i \in 1 .. Len(Line) - 1 : Follows(Line[i], Line[i + 1])
LineEnds ==
  Line # <<>> => (IsEnd(LastByte) \/ LastByte.cut) /\ LastByte.frame >= whole
LineIsNew == Line # <<>> => NextByte.frame > last
LineGood == BytesGood /\ Chained /\ LineEnds /\ LineIsNew

\* The parser has read a frame up to the next byte.
Reading == frame # 0 /\ Line # <<>> /\ NextByte.frame = frame

\* Where it then is in the frame.
PlaceIsTrue ==
  Reading =>
    \/ phase = "length" /\ NextByte.at = 2
    \/ phase = "flags" /\ NextByte.at = 3 /\ left = NextByte.len
    \/ phase = "body" /\ NextByte.at >= 4 /\ left = NextByte.len + 5 - NextByte.at

ParserGood ==
  /\ phase = "idle" => frame = 0
  /\ frame # 0 => ~v1 /\ frame \in last + 1 .. sent
  /\ phase = "flags" => left <= MaxLen
  /\ phase = "body" => left >= 1
  /\ PlaceIsTrue

\* Up to the first cut, the parser reads each frame from its start.
InStep ==
  last < whole \/ (last = whole /\ whole = sent) =>
    \/ phase = "idle" /\ (last < whole => /\ Line # <<>> /\ IsStart(NextByte)
                                          /\ NextByte.frame = last + 1)
    \/ last < whole /\ Reading /\ frame = last + 1

\* What a parser that took a wrong start, or lost its frame to a cut, has yet to swallow.
ToSwallow ==
  CASE phase = "length" -> IF v1 THEN MaxLen + 2 ELSE MaxSwallow
    [] phase = "flags" -> left + 2 + SigLen
    [] phase = "body" -> left
    [] OTHER -> 0

\* It ended on the start of a frame and takes that one for MAVLink 1: it knows the
\* length, and is done a byte before the frame is.
ReadingAsV1 ==
  /\ frame = 0 /\ v1 /\ Line # <<>> /\ ~NextByte.cut
  /\ \/ phase = "length" /\ NextByte.at = 2
     \/ phase = "body" /\ NextByte.at >= 3 /\ left = NextByte.len + 4 - NextByte.at
  /\ calm <= MaxSwallow + NextByte.at - 2

SwallowsLittle ==
  phase # "idle" /\ ~Reading /\ ~ReadingAsV1 => calm + ToSwallow <= MaxSwallow

\* A frame that starts after that is read from its start on.
BackInStep ==
  Line # <<>> /\ NextByte.at >= 2 /\ calm >= MaxSwallow + NextByte.at - 1 => Reading

RxInv == RxTypeOK /\ LineGood /\ ParserGood /\ InStep /\ SwallowsLittle /\ BackInStep

-----------------------------------------------------------------------------
\* Facts about the sizes, and about the bytes of a frame.

LEMMA Sizes ==
  /\ StreamSize \in Nat /\ ChunkSize \in Nat /\ MaxLen \in Nat /\ SigLen \in Nat
  /\ MaxFrames \in Nat
  /\ StreamSize > 0 /\ ChunkSize > 0 /\ MaxLen > 0 /\ SigLen > 0 /\ MaxFrames > 0
BY SizesAssumption

LEMMA PayloadIsShort ==
  ASSUME NEW p \in Payloads
  PROVE  /\ p \in Seq(Kinds) /\ Len(p) \in 0 .. MaxLen /\ DOMAIN p = 1 .. Len(p)
         /\ \A i \in 1 .. Len(p) : p[i] \in Kinds
<1>1. p \in Seq(Kinds) /\ Len(p) <= MaxLen
  BY SizesAssumption
<1>2. QED
  BY <1>1, Sizes, LenProperties, ElementOfSeq

LEMMA BytesOfFrame ==
  ASSUME NEW n \in 1 .. MaxFrames, NEW p \in Payloads, NEW cut \in BOOLEAN
  PROVE  /\ BytesOf(n, p, cut) \in Seq(AllBytes)
         /\ Len(BytesOf(n, p, cut)) = Len(p) + 4
         /\ \A i \in 1 .. Len(p) + 4 :
              LET b == BytesOf(n, p, cut)[i]
              IN /\ b \in AllBytes
                 /\ b.frame = n /\ b.at = i /\ b.len = Len(p) /\ b.cut = cut
                 /\ i = 1 => b.kind = "stx"
<1> DEFINE Kind(i) == IF i = 1 THEN "stx" ELSE IF i - 3 \in DOMAIN p THEN p[i - 3] ELSE "plain"
           Byte(i) == [frame |-> n, kind |-> Kind(i), at |-> i, len |-> Len(p), cut |-> cut]
<1>1. BytesOf(n, p, cut) = [i \in 1 .. Len(p) + 4 |-> Byte(i)]
  BY DEF BytesOf
<1>2. Len(p) \in Nat /\ Len(p) <= MaxLen
  BY PayloadIsShort, Sizes
<1>3. ASSUME NEW i \in 1 .. Len(p) + 4 PROVE Kind(i) \in Kinds
  BY PayloadIsShort DEF Kinds
<1>4. ASSUME NEW i \in 1 .. Len(p) + 4 PROVE Byte(i) \in AllBytes
  <2>1. i \in 1 .. MaxLen + 4 /\ Len(p) \in 0 .. MaxLen /\ n \in 0 .. MaxFrames
    BY <1>2, Sizes
  <2>2. Kind(i) \in Kinds
    BY <1>3
  <2> HIDE DEF Kind
  <2>3. QED
    BY <2>1, <2>2 DEF AllBytes
<1>5. \A i \in 1 .. Len(p) + 4 : BytesOf(n, p, cut)[i] = Byte(i)
  BY <1>1
<1>6. BytesOf(n, p, cut) \in [1 .. Len(p) + 4 -> AllBytes]
  <2> HIDE DEF Byte
  <2>1. QED
    BY <1>1, <1>4
<1>7. Len(p) + 4 \in Nat
  BY <1>2
<1>8. BytesOf(n, p, cut) \in Seq(AllBytes) /\ Len(BytesOf(n, p, cut)) = Len(p) + 4
  BY <1>6, <1>7
<1>9. QED
  BY <1>4, <1>5, <1>8

\* The part of a datagram that goes into the stream, byte by byte.
LEMMA Prefix ==
  ASSUME NEW S, NEW s \in Seq(S), NEW n \in 0 .. Len(s)
  PROVE  /\ SubSeq(s, 1, n) \in Seq(S) /\ Len(SubSeq(s, 1, n)) = n
         /\ \A i \in 1 .. n : SubSeq(s, 1, n)[i] = s[i]
<1>1. Len(s) \in Nat /\ \A i \in 1 .. n : s[i] \in S
  BY LenProperties, ElementOfSeq
<1>2. QED
  BY <1>1, SubSeqProperties

-----------------------------------------------------------------------------
\* What each action does to the line.

LEMMA LineIsSeq ==
  ASSUME RxTypeOK
  PROVE  /\ Line \in Seq(AllBytes) /\ Len(Line) \in Nat
         /\ Line # <<>> <=> Len(Line) >= 1
<1>1. stream \in Seq(AllBytes) /\ chunk \in Seq(AllBytes)
  BY DEF RxTypeOK
<1>2. Line \in Seq(AllBytes)
  BY <1>1, ConcatProperties DEF Line
<1>3. QED
  BY <1>2, LenProperties, EmptySeq

LEMMA ReadKeepsLine ==
  ASSUME RxTypeOK, Read
  PROVE  /\ Line' = Line
         /\ stream' \in Seq(AllBytes) /\ Len(stream') <= StreamSize
         /\ chunk' \in Seq(AllBytes) /\ Len(chunk') <= ChunkSize
<1> DEFINE n == Least(Len(stream), ChunkSize)
<1>1. /\ chunk = <<>> /\ stream \in Seq(AllBytes) /\ Len(stream) <= StreamSize
      /\ chunk' = SubSeq(stream, 1, n) /\ stream' = SubSeq(stream, n + 1, Len(stream))
  BY DEF RxTypeOK, Read
<1>2. Len(stream) \in Nat
  BY <1>1, LenProperties
<1>3. n \in 0 .. Len(stream) /\ n <= ChunkSize
  BY <1>2, Sizes DEF Least
<1> HIDE DEF n
<1>4. chunk' \in Seq(AllBytes) /\ Len(chunk') = n
  BY <1>1, <1>3, Prefix
<1>5. \A i \in 1 .. Len(stream) : stream[i] \in AllBytes
  BY <1>1, ElementOfSeq
<1>6. stream' \in Seq(AllBytes) /\ Len(stream') = Len(stream) - n
  BY <1>1, <1>2, <1>3, <1>5, SubSeqProperties
<1>7. chunk' \o stream' = SubSeq(stream, 1, Len(stream))
  <2>1. 1 \in 1 .. Len(stream) + 1 /\ n \in 1 - 1 .. Len(stream) /\ Len(stream) \in n .. Len(stream)
    BY <1>2, <1>3
  <2>2. QED
    BY <1>1, <2>1, ConcatAdjacentSubSeq
<1>8. chunk \o stream = stream
  BY <1>1, ConcatEmptySeq
<1>9. Line' = Line
  BY <1>1, <1>7, <1>8, SubSeqFull DEF Line
<1>10. QED
  BY <1>1, <1>2, <1>3, <1>4, <1>6, <1>9, Sizes

LEMMA ParseTakesByte ==
  ASSUME RxTypeOK, Parse
  PROVE  /\ Len(Line) >= 1 /\ byte = NextByte
         /\ Len(Line') = Len(Line) - 1
         /\ \A i \in 1 .. Len(Line) - 1 : Line'[i] = Line[i + 1]
         /\ stream' = stream
         /\ chunk' \in Seq(AllBytes) /\ Len(chunk') <= ChunkSize
<1>1. /\ chunk \in Seq(AllBytes) /\ chunk # <<>> /\ Len(chunk) <= ChunkSize
      /\ stream \in Seq(AllBytes) /\ chunk' = Tail(chunk) /\ stream' = stream
  BY DEF RxTypeOK, Parse
<1>2. /\ Len(chunk) \in Nat /\ Len(chunk) >= 1 /\ Len(stream) \in Nat
  BY <1>1, LenProperties, EmptySeq
<1>3. /\ chunk' \in Seq(AllBytes) /\ Len(chunk') = Len(chunk) - 1
      /\ \A i \in 1 .. Len(chunk') : chunk'[i] = chunk[i + 1]
  BY <1>1, HeadTailProperties
<1>4. /\ Len(Line) = Len(chunk) + Len(stream)
      /\ \A i \in 1 .. Len(chunk) + Len(stream) :
           Line[i] = IF i <= Len(chunk) THEN chunk[i] ELSE stream[i - Len(chunk)]
  BY <1>1, ConcatProperties DEF Line
<1>5. /\ Len(Line') = Len(chunk') + Len(stream)
      /\ \A i \in 1 .. Len(chunk') + Len(stream) :
           Line'[i] = IF i <= Len(chunk') THEN chunk'[i] ELSE stream[i - Len(chunk')]
  <2>1. Line' = chunk' \o stream
    BY <1>1 DEF Line
  <2>2. QED
    BY <1>1, <1>3, <2>1, ConcatProperties
<1>6. byte = NextByte
  BY <1>1, <1>2, <1>4 DEF byte, NextByte
<1>7. ASSUME NEW i \in 1 .. Len(Line) - 1 PROVE Line'[i] = Line[i + 1]
  <2>1. CASE i <= Len(chunk')
    BY <1>2, <1>3, <1>4, <1>5, <2>1
  <2>2. CASE i > Len(chunk')
    <3>1. Line'[i] = stream[i - Len(chunk')] /\ Line[i + 1] = stream[i + 1 - Len(chunk)]
      BY <1>2, <1>3, <1>4, <1>5, <2>2
    <3>2. i - Len(chunk') = i + 1 - Len(chunk)
      BY <1>2, <1>3
    <3>3. QED
      BY <3>1, <3>2
  <2>3. QED
    BY <1>2, <1>3, <2>1, <2>2
<1>8. Len(Line) >= 1 /\ Len(Line') = Len(Line) - 1
  BY <1>2, <1>3, <1>4, <1>5
<1>9. Len(chunk') <= ChunkSize
  BY <1>1, <1>2, <1>3, Sizes
<1>10. QED
  BY <1>1, <1>3, <1>6, <1>7, <1>8, <1>9

LEMMA PushExtendsLine ==
  ASSUME RxTypeOK, NEW bytes \in Seq(AllBytes), Push(bytes), UNCHANGED chunk
  PROVE  /\ Taken(bytes) \in 0 .. Len(bytes)
         /\ Len(bytes) <= StreamSize - Len(stream) => Taken(bytes) = Len(bytes)
         /\ Len(Line') = Len(Line) + Taken(bytes)
         /\ \A i \in 1 .. Len(Line) + Taken(bytes) :
              Line'[i] = IF i <= Len(Line) THEN Line[i] ELSE bytes[i - Len(Line)]
         /\ stream' \in Seq(AllBytes) /\ Len(stream') <= StreamSize
<1> DEFINE n == Taken(bytes)
           part == SubSeq(bytes, 1, n)
<1>1. /\ stream \in Seq(AllBytes) /\ chunk \in Seq(AllBytes)
      /\ Len(stream) \in Nat /\ Len(chunk) \in Nat /\ Len(bytes) \in Nat
      /\ Len(stream) <= StreamSize
  BY LenProperties DEF RxTypeOK
<1>2. /\ n \in 0 .. Len(bytes) /\ n <= StreamSize - Len(stream)
      /\ Len(bytes) <= StreamSize - Len(stream) => n = Len(bytes)
  BY <1>1, Sizes DEF Taken, WhatFits, Least
<1>3. stream' = stream \o part /\ chunk' = chunk
  BY DEF Push
<1> HIDE DEF n
<1>4. /\ part \in Seq(AllBytes) /\ Len(part) = n
      /\ \A i \in 1 .. n : part[i] = bytes[i]
  BY <1>2, Prefix
<1> HIDE DEF part
<1>5. /\ stream' \in Seq(AllBytes) /\ Len(stream') = Len(stream) + n
  BY <1>1, <1>3, <1>4, ConcatProperties
<1>6. Line' = Line \o part
  <2>1. (chunk \o stream) \o part = chunk \o (stream \o part)
    <3>1. ASSUME NEW t \in Seq(AllBytes)
          PROVE  (chunk \o stream) \o t = chunk \o (stream \o t)
      BY <1>1, ConcatAssociative
    <3>2. QED
      BY <1>4, <3>1
  <2>2. QED
    BY <1>3, <2>1 DEF Line
<1>7. /\ Len(Line') = Len(Line) + n
      /\ \A i \in 1 .. Len(Line) + n :
           Line'[i] = IF i <= Len(Line) THEN Line[i] ELSE part[i - Len(Line)]
  <2>1. Line \in Seq(AllBytes)
    BY LineIsSeq
  <2>2. /\ Len(Line \o part) = Len(Line) + Len(part)
        /\ \A i \in 1 .. Len(Line) + Len(part) :
             (Line \o part)[i] = IF i <= Len(Line) THEN Line[i] ELSE part[i - Len(Line)]
    BY <1>4, <2>1, ConcatProperties
  <2>3. QED
    BY <1>4, <1>6, <2>2
<1>8. \A i \in 1 .. Len(Line) + n : i > Len(Line) => part[i - Len(Line)] = bytes[i - Len(Line)]
  BY <1>2, <1>4, LineIsSeq
<1>9. Len(stream') <= StreamSize
  BY <1>1, <1>2, <1>5, Sizes
<1>10. \A i \in 1 .. Len(Line) + n :
         Line'[i] = IF i <= Len(Line) THEN Line[i] ELSE bytes[i - Len(Line)]
  BY <1>7, <1>8, LineIsSeq
<1>11. QED
  BY <1>2, <1>5, <1>7, <1>9, <1>10 DEF n

\* A sequence on the line is empty or has a first byte.
LEMMA Joined ==
  ASSUME NEW s \in Seq(AllBytes), NEW t \in Seq(AllBytes)
  PROVE  /\ s \o t \in Seq(AllBytes) /\ Len(s \o t) \in Nat
         /\ s \o t # <<>> <=> Len(s \o t) >= 1
<1>1. s \o t \in Seq(AllBytes)
  BY ConcatProperties
<1>2. QED
  BY <1>1, LenProperties, EmptySeq

LEMMA Fields ==
  ASSUME NEW b, GoodByte(b), RxTypeOK
  PROVE  /\ b.frame \in Int /\ b.frame >= 1 /\ b.frame <= sent
         /\ b.at \in Int /\ b.at >= 1 /\ b.at <= b.len + 4
         /\ b.len \in Int /\ b.len >= 0 /\ b.len <= MaxLen
         /\ b.cut \in BOOLEAN /\ b.kind \in Kinds
         /\ sent \in Int /\ whole \in Int /\ last \in Int
BY Sizes DEF GoodByte, AllBytes, RxTypeOK

-----------------------------------------------------------------------------
\* What the parser meets.

LEMMA Parsed ==
  ASSUME RxTypeOK, LineGood, Parse
  PROVE  /\ Line # <<>> /\ byte = NextByte /\ GoodByte(byte) /\ byte.frame > last
         /\ Line' # <<>> => Follows(byte, NextByte') /\ GoodByte(NextByte')
         /\ Line' = <<>> => (IsEnd(byte) \/ byte.cut) /\ byte.frame >= whole
         /\ BytesGood' /\ Chained' /\ LineEnds'
<1>1. /\ Len(Line) >= 1 /\ byte = NextByte
      /\ Len(Line') = Len(Line) - 1
      /\ \A i \in 1 .. Len(Line) - 1 : Line'[i] = Line[i + 1]
      /\ stream' = stream /\ chunk' \in Seq(AllBytes)
  BY ParseTakesByte
<1>2. Len(Line) \in Nat /\ Line # <<>>
  BY <1>1, LineIsSeq
<1>3. Line' # <<>> <=> Len(Line') >= 1
  BY <1>1, Joined DEF Line, RxTypeOK
<1>4. UNCHANGED <<sent, whole>>
  BY DEF Parse
<1>5. GoodByte(byte) /\ byte.frame > last
  BY <1>1, <1>2 DEF LineGood, BytesGood, LineIsNew, NextByte
<1>6. BytesGood'
  <2>1. ASSUME NEW i \in 1 .. Len(Line') PROVE GoodByte(Line[i + 1])
    BY <1>1, <1>2 DEF LineGood, BytesGood
  <2>2. ASSUME NEW i \in 1 .. Len(Line') PROVE GoodByte(Line'[i])
    BY <1>1, <1>2, <2>1
  <2>3. QED
    BY <1>4, <2>2 DEF BytesGood, GoodByte
<1>7. Chained'
  <2>1. ASSUME NEW i \in 1 .. Len(Line') - 1 PROVE Follows(Line'[i], Line'[i + 1])
    <3>1. i + 1 \in 1 .. Len(Line) - 1 /\ i \in 1 .. Len(Line) - 1
      BY <1>1, <1>2
    <3>2. Follows(Line[i + 1], Line[i + 1 + 1])
      BY <3>1 DEF LineGood, Chained
    <3>3. QED
      BY <1>1, <3>1, <3>2
  <2>2. QED
    BY <1>4, <2>1 DEF Chained, Follows, Continues, Begins
<1>8. CASE Len(Line) = 1
  <2>1. Line' = <<>>
    BY <1>1, <1>3, <1>8
  <2>2. byte = LastByte
    BY <1>1, <1>8 DEF NextByte, LastByte
  <2>3. (IsEnd(byte) \/ byte.cut) /\ byte.frame >= whole
    BY <1>2, <2>2 DEF LineGood, LineEnds
  <2>4. LineEnds'
    BY <2>1 DEF LineEnds
  <2>5. QED
    BY <1>1, <1>2, <1>5, <1>6, <1>7, <2>1, <2>3, <2>4
<1>9. CASE Len(Line) # 1
  <2>1. Line' # <<>> /\ 1 \in 1 .. Len(Line) - 1 /\ Len(Line') \in 1 .. Len(Line) - 1
    BY <1>1, <1>2, <1>3, <1>9
  <2>2. Line'[1] = Line[2] /\ Line'[Len(Line')] = Line[Len(Line)]
    BY <1>1, <1>2, <2>1
  <2>3. Follows(Line[1], Line[2])
    BY <1>2, <2>1 DEF LineGood, Chained
  <2>4. NextByte' = Line[2] /\ LastByte' = LastByte
    BY <2>2 DEF NextByte, LastByte
  <2>5. Follows(byte, NextByte')
    BY <1>1, <2>3, <2>4 DEF NextByte
  <2>6. GoodByte(NextByte')
    <3>1. 2 \in 1 .. Len(Line)
      BY <1>2, <2>1
    <3>2. QED
      BY <2>4, <3>1 DEF LineGood, BytesGood
  <2>7. LineEnds'
    BY <1>2, <1>4, <2>4 DEF LineGood, LineEnds, IsEnd
  <2>8. QED
    BY <1>1, <1>2, <1>5, <1>6, <1>7, <2>1, <2>5, <2>6, <2>7
<1>10. QED
  BY <1>8, <1>9

LEMMA CalmParsed ==
  ASSUME RxTypeOK, Parse, byte.cut \in BOOLEAN
  PROVE  /\ calm' \in 0 .. MaxCalm /\ calm' <= calm + 1
         /\ byte.cut => calm' = 0
         /\ byte.kind # "plain" /\ ~IsStart(byte) => calm' = 0
<1>1. calm \in 0 .. MaxCalm /\ MaxCalm \in Nat
  BY Sizes DEF RxTypeOK, MaxCalm, MaxSwallow
<1>2. calm' = IF byte.cut \/ (byte.kind # "plain" /\ ~IsStart(byte)) THEN 0
              ELSE Least(calm + 1, MaxCalm)
  BY DEF Parse
<1>3. Least(calm + 1, MaxCalm) \in 0 .. MaxCalm /\ Least(calm + 1, MaxCalm) <= calm + 1
  BY <1>1 DEF Least
<1> HIDE DEF IsStart
<1>4. QED
  BY <1>1, <1>2, <1>3

\* The frame of a byte goes on with the next one, unless it ends there or was cut.
LEMMA Onward ==
  ASSUME RxTypeOK, LineGood, Parse
  PROVE  \/ Line' # <<>> /\ Continues(byte, NextByte')
         \/ /\ IsEnd(byte) \/ byte.cut
            /\ Line' # <<>> => IsStart(NextByte') /\ NextByte'.frame > byte.frame
BY Parsed DEF Follows, Begins

\* Without a frame in hand, or with that of another byte, the parser takes none from
\* this one.
LEMMA NotReading ==
  ASSUME RxTypeOK, LineGood, Parse, ~Reading
  PROVE  Going = 0 /\ ~Intact
<1>1. Line # <<>> /\ byte = NextByte /\ GoodByte(byte)
  BY Parsed
<1>2. byte.frame >= 1 /\ byte.frame \in Int
  BY <1>1, Fields
<1>3. frame = 0 \/ frame # byte.frame
  BY <1>1 DEF Reading
<1>4. QED
  BY <1>2, <1>3 DEF Going, Intact

\* A parser that is not at the start of a frame and not in one has missed something.
LEMMA OutOfStep ==
  ASSUME RxInv, Parse, ~Reading, phase # "idle" \/ ~IsStart(byte)
  PROVE  ~(last < whole \/ (last = whole /\ whole = sent))
<1>1. Line # <<>> /\ byte = NextByte /\ GoodByte(byte) /\ byte.frame > last
  BY Parsed DEF RxInv
<1>2. byte.frame <= sent /\ byte.frame \in Int /\ sent \in Int /\ last \in Int /\ whole \in Int
  BY <1>1, Fields DEF RxInv
<1>3. ~(last = whole /\ whole = sent)
  BY <1>1, <1>2
<1>4. ~(last < whole)
  BY <1>1 DEF RxInv, InStep
<1>5. QED
  BY <1>3, <1>4

LEMMA SwallowBounds ==
  ASSUME RxTypeOK, ParserGood, phase # "idle"
  PROVE  ToSwallow \in Int /\ ToSwallow >= 1 /\ ToSwallow <= MaxSwallow
<1>1. MaxSwallow \in Int /\ MaxSwallow = MaxLen + SigLen + 3
  BY Sizes DEF MaxSwallow
<1>2. /\ phase \in {"length", "flags", "body"} /\ v1 \in BOOLEAN
      /\ left \in 0 .. MaxLen + 1 + SigLen
  BY DEF RxTypeOK
<1>3. CASE phase = "length"
  BY <1>1, <1>2, <1>3, Sizes DEF ToSwallow
<1>4. CASE phase = "flags"
  <2>1. ToSwallow = left + 2 + SigLen /\ left <= MaxLen
    BY <1>4 DEF ToSwallow, ParserGood
  <2>2. QED
    BY <1>1, <1>2, <2>1, Sizes
<1>5. CASE phase = "body"
  <2>1. ToSwallow = left /\ left >= 1
    BY <1>5 DEF ToSwallow, ParserGood
  <2>2. QED
    BY <1>1, <1>2, <2>1, Sizes
<1>6. QED
  BY <1>2, <1>3, <1>4, <1>5

\* Calm enough for a frame begun in time: the parser reads it, or is about to.
LEMMA Caught ==
  ASSUME RxInv, Parse, Line' # <<>>, NextByte'.at >= 2,
         calm' >= MaxSwallow + NextByte'.at - 1
  PROVE  /\ Continues(byte, NextByte')
         /\ Reading \/ (phase = "idle" /\ IsStart(byte))
<1>1. /\ Line # <<>> /\ byte = NextByte /\ GoodByte(byte)
      /\ Follows(byte, NextByte')
  BY Parsed DEF RxInv
<1>2. /\ byte.at \in Int /\ byte.at >= 1 /\ byte.cut \in BOOLEAN
  BY <1>1, Fields DEF RxInv
<1>3. Continues(byte, NextByte')
  BY <1>1 DEF Follows, Begins, IsStart
<1>4. NextByte'.at = byte.at + 1
  BY <1>3 DEF Continues
<1>5. /\ calm \in Int /\ calm' \in Int /\ calm' <= calm + 1
      /\ MaxSwallow \in Int /\ MaxSwallow > 0
  BY <1>2, CalmParsed, Sizes DEF RxInv, RxTypeOK, MaxCalm, MaxSwallow
<1>6. calm >= MaxSwallow + byte.at - 1
  BY <1>2, <1>4, <1>5
<1>7. CASE byte.at >= 2
  BY <1>1, <1>3, <1>6, <1>7 DEF RxInv, BackInStep
<1>8. CASE byte.at = 1
  <2>1. ~Reading /\ ~ReadingAsV1
    BY <1>1, <1>8 DEF RxInv, ParserGood, PlaceIsTrue, ReadingAsV1
  <2>2. phase # "idle" => calm + ToSwallow <= MaxSwallow
    BY <2>1 DEF RxInv, SwallowsLittle
  <2>3. phase # "idle" => ToSwallow \in Int /\ ToSwallow >= 1
    BY SwallowBounds DEF RxInv
  <2>4. phase = "idle"
    BY <1>5, <1>6, <1>8, <2>2, <2>3
  <2>5. QED
    BY <1>3, <1>8, <2>4 DEF IsStart
<1>9. QED
  BY <1>2, <1>7, <1>8

-----------------------------------------------------------------------------
\* rxCallback(): a datagram adds its frame, or the part that fits, to the line.

LEMMA PeerCounts ==
  ASSUME RxTypeOK, NEW p \in Payloads, FromPeer(p)
  PROVE  /\ sent \in Int /\ whole \in Int /\ last \in Int
         /\ 0 <= last /\ last <= sent /\ 0 <= whole /\ whole <= sent
         /\ sent' = sent + 1 /\ sent' <= MaxFrames
         /\ \/ whole' = whole
            \/ whole = sent /\ whole' = sent + 1 /\ Len(p) + 4 <= StreamSize - Len(stream)
         /\ UNCHANGED <<chunk, phase, left, v1, frame, last, calm>>
<1>1. /\ sent < MaxFrames /\ sent' = sent + 1
      /\ UNCHANGED <<chunk, phase, left, v1, frame, last, calm>>
      /\ whole' = IF Len(p) + 4 <= StreamSize - Len(stream) /\ whole = sent
                  THEN sent + 1 ELSE whole
  BY DEF FromPeer, parser
<1>2. sent \in 0 .. MaxFrames /\ whole \in 0 .. sent /\ last \in 0 .. sent
  BY DEF RxTypeOK
<1>3. sent + 1 <= MaxFrames
  BY <1>1, <1>2, Sizes
<1>4. QED
  BY <1>1, <1>2, <1>3

\* One more frame sent: what is on the line stays good.
LEMMA StaysGood ==
  ASSUME RxTypeOK, NEW p \in Payloads, FromPeer(p), NEW b, GoodByte(b)
  PROVE  GoodByte(b)'
<1>1. b.frame \in Int /\ b.frame >= 1 /\ b.frame <= sent
  BY Fields
<1>2. b \in AllBytes /\ b.at <= b.len + 4 /\ (IsStart(b) => b.kind = "stx")
      /\ (b.frame <= whole => ~b.cut)
  BY DEF GoodByte
<1>3. b.frame \in 1 .. sent' /\ (b.frame <= whole' => b.frame <= whole)
  BY <1>1, PeerCounts
<1>4. QED
  BY <1>2, <1>3 DEF GoodByte, IsStart

LEMMA StayChained ==
  ASSUME RxTypeOK, NEW p \in Payloads, FromPeer(p), NEW b, NEW c,
         GoodByte(b), GoodByte(c), Follows(b, c)
  PROVE  Follows(b, c)'
<1>1. CASE Continues(b, c)
  BY <1>1 DEF Follows, Continues, IsEnd
<1>2. CASE Begins(b, c)
  <2>1. /\ b.frame \in Int /\ c.frame \in Int /\ c.frame <= sent /\ c.frame > b.frame
    BY <1>2, Fields DEF Begins
  <2>2. b.frame < whole' => b.frame < whole
    BY <2>1, PeerCounts
  <2>3. QED
    BY <1>2, <2>2 DEF Follows, Begins, IsEnd, IsStart
<1>3. QED
  BY <1>1, <1>2 DEF Follows

LEMMA PeerLine ==
  ASSUME RxTypeOK, LineGood, NEW p \in Payloads, FromPeer(p)
  PROVE  /\ RxTypeOK'
         /\ BytesGood' /\ Chained' /\ LineEnds'
         /\ Line # <<>> => Line' # <<>> /\ NextByte' = NextByte
         /\ Line = <<>> /\ Line' # <<>> => IsStart(NextByte') /\ NextByte'.frame = sent + 1
         /\ whole' # whole => Line' # <<>>
<1> DEFINE fits == Len(p) + 4 <= StreamSize - Len(stream)
<1>1. /\ sent \in Int /\ whole \in Int /\ last \in Int
      /\ 0 <= last /\ last <= sent /\ 0 <= whole /\ whole <= sent
      /\ sent' = sent + 1 /\ sent' <= MaxFrames
      /\ \/ whole' = whole
         \/ whole = sent /\ whole' = sent + 1 /\ fits
      /\ UNCHANGED <<chunk, phase, left, v1, frame, last, calm>>
  BY PeerCounts
<1>2. sent + 1 \in 1 .. MaxFrames
  BY <1>1, Sizes
\* What is on the line and what comes as constants, so that priming leaves them alone.
<1>3. PICK cut \in BOOLEAN : cut = ~fits
  OBVIOUS
<1>4. PICK bs : bs = BytesOf(sent + 1, p, cut)
  OBVIOUS
<1>5. PICK n : n = Taken(bs)
  OBVIOUS
<1>6. PICK old : old = Line
  OBVIOUS
<1>7. PICK k : k = Len(old)
  OBVIOUS
<1>8. /\ bs \in Seq(AllBytes) /\ Len(bs) = Len(p) + 4
      /\ \A i \in 1 .. Len(p) + 4 :
           /\ bs[i] \in AllBytes
           /\ bs[i].frame = sent + 1 /\ bs[i].at = i /\ bs[i].len = Len(p)
           /\ bs[i].cut = cut
           /\ i = 1 => bs[i].kind = "stx"
  BY <1>2, <1>4, BytesOfFrame
<1>9. Push(bs) /\ UNCHANGED chunk
  BY <1>3, <1>4 DEF FromPeer
<1>10. /\ n \in 0 .. Len(bs)
       /\ Len(bs) <= StreamSize - Len(stream) => n = Len(bs)
       /\ Len(Line') = k + n
       /\ \A i \in 1 .. k + n : Line'[i] = IF i <= k THEN old[i] ELSE bs[i - k]
       /\ stream' \in Seq(AllBytes) /\ Len(stream') <= StreamSize
  BY <1>5, <1>6, <1>7, <1>8, <1>9, PushExtendsLine
<1>11. /\ k \in Nat /\ (Line # <<>> <=> k >= 1)
       /\ Len(p) \in Nat
  BY <1>6, <1>7, LineIsSeq, PayloadIsShort, Sizes
<1>12. Line' # <<>> <=> k + n >= 1
  BY <1>1, <1>10, Joined DEF Line, RxTypeOK
<1>13. fits => n = Len(p) + 4
  BY <1>8, <1>10
<1> HIDE DEF fits
<1>14. RxTypeOK'
  <2>1. whole' \in 0 .. sent' /\ sent' \in 0 .. MaxFrames /\ last' \in 0 .. sent'
    BY <1>1
  <2>2. QED
    BY <1>1, <1>10, <2>1 DEF RxTypeOK
<1>15. ASSUME NEW i \in 1 .. n
       PROVE  /\ GoodByte(bs[i])'
              /\ bs[i].frame = sent + 1 /\ bs[i].at = i /\ bs[i].len = Len(p)
              /\ bs[i].cut = cut
  <2>1. i \in 1 .. Len(p) + 4
    BY <1>8, <1>10
  <2>2. /\ bs[i] \in AllBytes /\ bs[i].frame = sent + 1 /\ bs[i].at = i
        /\ bs[i].len = Len(p) /\ bs[i].cut = cut
        /\ i = 1 => bs[i].kind = "stx"
    BY <1>8, <2>1
  <2>3. bs[i].frame \in 1 .. sent' /\ bs[i].at <= bs[i].len + 4
    BY <1>1, <2>1, <2>2, <1>11
  <2>4. bs[i].at = 1 => bs[i].kind = "stx"
    BY <2>2
  <2>5. bs[i].frame <= whole' => ~bs[i].cut
    <3>1. bs[i].frame <= whole' => fits
      BY <1>1, <2>2
    <3>2. fits => ~cut
      BY <1>3, Zenon
    <3>3. QED
      BY <2>2, <3>1, <3>2
  <2>6. QED
    BY <2>2, <2>3, <2>4, <2>5 DEF GoodByte, IsStart
<1>16. ASSUME NEW i \in 1 .. k PROVE GoodByte(old[i]) /\ GoodByte(old[i])'
  <2>1. GoodByte(old[i])
    BY <1>6, <1>7 DEF LineGood, BytesGood
  <2>2. QED
    BY <2>1, StaysGood
<1>17. BytesGood'
  <2>1. ASSUME NEW i \in 1 .. k + n PROVE GoodByte(Line[i])'
    <3>1. CASE i <= k
      <4>1. Line'[i] = old[i] /\ i \in 1 .. k
        BY <1>10, <1>11, <3>1
      <4>2. GoodByte(old[i])'
        BY <1>16, <4>1
      <4>3. QED
        BY <4>1, <4>2 DEF GoodByte
    <3>2. CASE i > k
      <4>1. PICK j \in 1 .. n : j = i - k /\ Line'[i] = bs[j]
        BY <1>8, <1>10, <1>11, <3>2
      <4>2. GoodByte(bs[j])'
        BY <1>15
      <4>3. QED
        BY <4>1, <4>2 DEF GoodByte
    <3>3. QED
      BY <1>8, <1>10, <1>11, <3>1, <3>2
  <2>2. QED
    BY <1>10, <2>1 DEF BytesGood
<1>18. k >= 1 => /\ IsEnd(old[k]) \/ old[k].cut
                /\ old[k].frame >= whole /\ GoodByte(old[k])
  BY <1>6, <1>7, <1>11, <1>16 DEF LineGood, LineEnds, LastByte
<1>19. Chained'
  <2>1. ASSUME NEW i \in 1 .. k + n - 1 PROVE Follows(Line[i], Line[i + 1])'
    <3>1. CASE i < k
      <4>1. Line'[i] = old[i] /\ Line'[i + 1] = old[i + 1]
            /\ i \in 1 .. k - 1 /\ i \in 1 .. k /\ i + 1 \in 1 .. k
        BY <1>8, <1>10, <1>11, <3>1
      <4>2. Follows(old[i], old[i + 1])
        BY <1>6, <1>7, <4>1 DEF LineGood, Chained
      <4>3. Follows(old[i], old[i + 1])'
        BY <1>16, <4>1, <4>2, StayChained
      <4>4. QED
        BY <4>1, <4>3 DEF Follows, Continues, Begins
    <3>2. CASE i = k
      <4>1. Line'[i] = old[k] /\ Line'[i + 1] = bs[1] /\ 1 \in 1 .. n /\ k >= 1
        <5>1. n \in Nat
          BY <1>8, <1>10
        <5>2. k >= 1 /\ 1 \in 1 .. n /\ k \in 1 .. k + n /\ k + 1 \in 1 .. k + n
              /\ k <= k /\ ~(k + 1 <= k) /\ k + 1 - k = 1
          BY <1>11, <3>2, <5>1
        <5>3. Line'[k] = old[k] /\ Line'[k + 1] = bs[k + 1 - k]
          BY <1>10, <5>2
        <5>4. QED
          BY <3>2, <5>2, <5>3
      <4>2. bs[1].frame = sent + 1 /\ bs[1].at = 1
        BY <1>15, <4>1
      <4>3. /\ IsEnd(old[k]) \/ old[k].cut
            /\ old[k].frame >= whole /\ old[k].frame \in Int /\ old[k].frame <= sent
        BY <1>18, <4>1, Fields
      <4>4. old[k].frame < whole' => bs[1].frame = old[k].frame + 1
        BY <1>1, <4>2, <4>3
      <4>5. bs[1].frame > old[k].frame
        BY <1>1, <4>2, <4>3
      <4>6. Begins(old[k], bs[1])'
        BY <4>2, <4>3, <4>4, <4>5 DEF Begins, IsEnd, IsStart
      <4>7. QED
        BY <4>1, <4>6 DEF Follows, Continues, Begins
    <3>3. CASE i > k
      <4>1. Line'[i] = bs[i - k] /\ Line'[i + 1] = bs[i - k + 1]
            /\ i - k \in 1 .. n - 1 /\ i - k \in 1 .. n /\ i - k + 1 \in 1 .. n
            /\ i - k < Len(p) + 4 /\ i - k \in Int
        BY <1>8, <1>10, <1>11, <3>3
      <4>2. /\ bs[i - k].frame = sent + 1 /\ bs[i - k].at = i - k
            /\ bs[i - k].len = Len(p) /\ bs[i - k].cut = cut
        BY <1>15, <4>1
      <4>3. /\ bs[i - k + 1].frame = sent + 1 /\ bs[i - k + 1].at = i - k + 1
            /\ bs[i - k + 1].len = Len(p) /\ bs[i - k + 1].cut = cut
        BY <1>15, <4>1
      <4>4. Continues(bs[i - k], bs[i - k + 1])
        BY <1>11, <4>1, <4>2, <4>3 DEF Continues, IsEnd
      <4>5. QED
        BY <4>1, <4>4 DEF Follows, Continues, IsEnd
    <3>4. QED
      BY <1>11, <3>1, <3>2, <3>3
  <2>2. QED
    <3>1. Len(Line') - 1 = k + n - 1
      BY <1>8, <1>10, <1>11
    <3>2. QED
      BY <2>1, <3>1, Zenon DEF Chained
<1>20. LineEnds'
  <2>1. CASE n = 0
    <3>1. ~fits /\ whole' = whole
      BY <1>1, <1>11, <1>13, <2>1
    <3>2. k >= 1 => LastByte' = old[k]
      BY <1>10, <1>11, <2>1 DEF LastByte
    <3>3. QED
      BY <1>11, <1>12, <1>18, <2>1, <3>1, <3>2 DEF LineEnds, IsEnd
  <2>2. CASE n # 0
    <3>1. LastByte' = bs[n] /\ n \in 1 .. n
      BY <1>8, <1>10, <1>11, <2>2 DEF LastByte
    <3>2. /\ bs[n].frame = sent + 1 /\ bs[n].at = n /\ bs[n].len = Len(p)
          /\ bs[n].cut = cut
      BY <1>15, <3>1
    <3>3. bs[n].frame >= whole'
      BY <1>1, <3>2
    <3>4. IsEnd(bs[n]) \/ bs[n].cut
      BY <1>3, <1>13, <3>2 DEF IsEnd
    <3>5. QED
      BY <3>1, <3>3, <3>4 DEF LineEnds, IsEnd
  <2>3. QED
    BY <2>1, <2>2
<1>21. Line # <<>> => Line' # <<>> /\ NextByte' = NextByte
  BY <1>6, <1>8, <1>10, <1>11, <1>12 DEF NextByte
<1>22. ASSUME Line = <<>>, Line' # <<>>
       PROVE  IsStart(NextByte') /\ NextByte'.frame = sent + 1
  <2>1. k = 0 /\ n >= 1
    BY <1>8, <1>10, <1>11, <1>12, <1>22
  <2>2. NextByte' = bs[1] /\ 1 \in 1 .. n
    BY <1>8, <1>10, <2>1 DEF NextByte
  <2>3. QED
    BY <1>15, <2>2 DEF IsStart
<1>23. whole' # whole => Line' # <<>>
  BY <1>1, <1>8, <1>10, <1>11, <1>12, <1>13
<1>24. QED
  BY <1>14, <1>17, <1>19, <1>20, <1>21, <1>22, <1>23

LEMMA RxInitHolds == RxInit => RxInv
<1> SUFFICES ASSUME RxInit PROVE RxInv
  OBVIOUS
<1>1. Line = <<>> /\ Len(Line) = 0 /\ stream = <<>> /\ chunk = <<>>
  BY DEF RxInit, Line
<1>2. RxTypeOK
  <2>1. <<>> \in Seq(AllBytes) /\ Len(<<>>) = 0
    BY EmptySeq
  <2>2. /\ 0 \in 0 .. MaxLen + 1 + SigLen /\ 0 \in 0 .. MaxFrames /\ 0 \in 0 .. 0
        /\ 0 \in 0 .. MaxCalm /\ 0 <= StreamSize /\ 0 <= ChunkSize
    BY Sizes DEF MaxCalm, MaxSwallow
  <2>3. QED
    BY <2>1, <2>2 DEF RxInit, RxTypeOK
<1>3. LineGood
  BY <1>1 DEF LineGood, BytesGood, Chained, LineEnds, LineIsNew
<1>4. ParserGood /\ SwallowsLittle /\ BackInStep /\ InStep
  BY <1>1 DEF RxInit, ParserGood, PlaceIsTrue, Reading, SwallowsLittle, BackInStep, InStep
<1>5. QED
  BY <1>2, <1>3, <1>4 DEF RxInv

\* Nothing but the line and the parser matters: as long as both stay, all stays.
LEMMA LineKept ==
  ASSUME RxInv, RxTypeOK', Line' = Line,
         UNCHANGED <<phase, left, v1, frame, sent, whole, last, calm>>
  PROVE  RxInv'
<1>1. NextByte' = NextByte /\ LastByte' = LastByte
  BY DEF NextByte, LastByte
<1>2. LineGood'
  BY <1>1
  DEF RxInv, LineGood, BytesGood, GoodByte, Chained, Follows, Continues, Begins, LineEnds,
      LineIsNew, IsStart, IsEnd
<1>3. Reading' = Reading /\ ToSwallow' = ToSwallow /\ ReadingAsV1' = ReadingAsV1
  BY <1>1 DEF Reading, ToSwallow, ReadingAsV1
<1>4. ParserGood'
  BY <1>1, <1>3 DEF RxInv, ParserGood, PlaceIsTrue
<1>5. InStep' /\ SwallowsLittle' /\ BackInStep'
  BY <1>1, <1>3 DEF RxInv, InStep, SwallowsLittle, BackInStep, IsStart
<1>6. QED
  BY <1>2, <1>4, <1>5 DEF RxInv

LEMMA ReadHolds == ASSUME RxInv, Read PROVE RxInv'
<1>1. /\ Line' = Line
      /\ stream' \in Seq(AllBytes) /\ Len(stream') <= StreamSize
      /\ chunk' \in Seq(AllBytes) /\ Len(chunk') <= ChunkSize
  BY ReadKeepsLine DEF RxInv
<1>2. UNCHANGED <<phase, left, v1, frame, sent, whole, last, calm>>
  BY DEF Read, parser
<1>3. RxTypeOK'
  BY <1>1, <1>2 DEF RxInv, RxTypeOK
<1>4. QED
  BY <1>1, <1>2, <1>3, LineKept

LEMMA RxStutterHolds == ASSUME RxInv, UNCHANGED rxVars PROVE RxInv'
<1>1. UNCHANGED <<stream, chunk, phase, left, v1, frame, sent, whole, last, calm>>
  BY DEF rxVars, parser
<1>2. Line' = Line
  BY <1>1 DEF Line
<1>3. RxTypeOK'
  BY <1>1 DEF RxInv, RxTypeOK
<1>4. QED
  BY <1>1, <1>2, <1>3, LineKept

LEMMA OtherHolds == ASSUME RxInv, NEW p \in Payloads, FromOther(p) PROVE RxInv'
BY RxStutterHolds DEF FromOther, Foreign, Ignored, rxVars

LEMMA PeerHolds == ASSUME RxInv, NEW p \in Payloads, FromPeer(p) PROVE RxInv'
<1>1. /\ RxTypeOK'
      /\ BytesGood' /\ Chained' /\ LineEnds'
      /\ Line # <<>> => Line' # <<>> /\ NextByte' = NextByte
      /\ Line = <<>> /\ Line' # <<>> => IsStart(NextByte') /\ NextByte'.frame = sent + 1
      /\ whole' # whole => Line' # <<>>
  BY PeerLine DEF RxInv
<1>2. /\ sent \in Int /\ whole \in Int /\ last \in Int
      /\ 0 <= last /\ last <= sent /\ 0 <= whole /\ whole <= sent
      /\ sent' = sent + 1
      /\ whole' = whole \/ (whole = sent /\ whole' = sent + 1)
      /\ UNCHANGED <<chunk, phase, left, v1, frame, last, calm>>
  BY PeerCounts DEF RxInv
<1>3. LineIsNew'
  BY <1>1, <1>2 DEF RxInv, LineGood, LineIsNew
<1>4. Reading' <=> Reading
  BY <1>1, <1>2 DEF RxInv, ParserGood, Reading
<1>5. ParserGood'
  BY <1>1, <1>2, <1>4 DEF RxInv, ParserGood, PlaceIsTrue, Reading
<1>6. InStep'
  <2>1. CASE last < whole
    BY <1>1, <1>2, <1>4, <2>1 DEF RxInv, InStep, IsStart
  <2>2. CASE last = whole /\ whole = sent
    <3>1. Line = <<>>
      <4>1. Line # <<>> => NextByte.frame \in Int /\ NextByte.frame <= sent
        BY LineIsSeq, Fields DEF RxInv, LineGood, BytesGood, NextByte
      <4>2. QED
        BY <1>2, <2>2, <4>1 DEF RxInv, LineGood, LineIsNew
    <3>2. phase = "idle"
      BY <1>2, <2>2 DEF RxInv, InStep
    <3>3. QED
      BY <1>1, <1>2, <2>2, <3>1, <3>2 DEF InStep
  <2>3. CASE ~(last < whole) /\ ~(last = whole /\ whole = sent)
    BY <1>2, <2>3 DEF InStep
  <2>4. QED
    BY <2>1, <2>2, <2>3
<1>7. SwallowsLittle'
  <2>1. ReadingAsV1 => ReadingAsV1'
    BY <1>1, <1>2 DEF ReadingAsV1
  <2>2. ToSwallow' = ToSwallow
    BY <1>2 DEF ToSwallow
  <2>3. QED
    BY <1>2, <1>4, <2>1, <2>2 DEF RxInv, SwallowsLittle
<1>8. BackInStep'
  BY <1>1, <1>2, <1>4 DEF RxInv, BackInStep, IsStart
<1>9. QED
  BY <1>1, <1>3, <1>5, <1>6, <1>7, <1>8 DEF RxInv, LineGood

-----------------------------------------------------------------------------
\* mavlink_parse_char(): what every byte leaves true, whatever the parser makes of it.

LEMMA ParseTypes ==
  ASSUME RxInv, Parse, phase' \in {"idle", "length", "flags", "body"},
         left' \in 0 .. MaxLen + 1 + SigLen, v1' \in BOOLEAN, frame' \in 0 .. MaxFrames,
         last' \in 0 .. sent
  PROVE  RxTypeOK'
<1>1. /\ stream' = stream /\ chunk' \in Seq(AllBytes) /\ Len(chunk') <= ChunkSize
  BY ParseTakesByte DEF RxInv
<1>2. GoodByte(byte)
  BY Parsed DEF RxInv
<1>3. calm' \in 0 .. MaxCalm
  BY <1>2, Fields, CalmParsed DEF RxInv
<1>4. UNCHANGED <<sent, whole>>
  BY DEF Parse
<1>5. QED
  BY <1>1, <1>3, <1>4 DEF RxInv, RxTypeOK

LEMMA ParseFacts ==
  ASSUME RxInv, Parse
  PROVE  /\ Line # <<>> /\ byte = NextByte
         /\ byte.frame \in Int /\ byte.frame >= 1 /\ byte.frame <= sent
         /\ byte.frame > last /\ byte.frame <= MaxFrames
         /\ byte.at \in Int /\ byte.at >= 1 /\ byte.at <= byte.len + 4
         /\ byte.len \in Int /\ byte.len >= 0 /\ byte.len <= MaxLen
         /\ byte.cut \in BOOLEAN /\ byte.kind \in Kinds
         /\ IsStart(byte) => byte.kind = "stx"
         /\ sent \in Int /\ whole \in Int /\ last \in 0 .. sent
         /\ sent' = sent /\ whole' = whole
         /\ calm \in Int /\ calm' \in Int /\ calm' >= 0 /\ calm' <= calm + 1
         /\ byte.cut => calm' = 0
         /\ byte.kind # "plain" /\ ~IsStart(byte) => calm' = 0
<1>1. Line # <<>> /\ byte = NextByte /\ GoodByte(byte) /\ byte.frame > last
  BY Parsed DEF RxInv
<1>2. /\ byte.frame \in Int /\ byte.frame >= 1 /\ byte.frame <= sent
      /\ byte.at \in Int /\ byte.at >= 1 /\ byte.at <= byte.len + 4
      /\ byte.len \in Int /\ byte.len >= 0 /\ byte.len <= MaxLen
      /\ byte.cut \in BOOLEAN /\ byte.kind \in Kinds
      /\ sent \in Int /\ whole \in Int
  BY <1>1, Fields DEF RxInv
<1>3. /\ calm' \in 0 .. MaxCalm /\ calm' <= calm + 1
      /\ byte.cut => calm' = 0
      /\ byte.kind # "plain" /\ ~IsStart(byte) => calm' = 0
  BY <1>2, CalmParsed DEF RxInv
<1>4. /\ last \in 0 .. sent /\ sent \in 0 .. MaxFrames /\ calm \in 0 .. MaxCalm
      /\ MaxCalm \in Int
  BY Sizes DEF RxInv, RxTypeOK, MaxCalm, MaxSwallow
<1>5. IsStart(byte) => byte.kind = "stx"
  BY <1>1 DEF GoodByte
<1>6. UNCHANGED <<sent, whole>>
  BY DEF Parse
<1>7. byte.frame <= MaxFrames
  BY <1>2, <1>4, Sizes
<1>8. calm \in Int /\ calm' \in Int /\ calm' >= 0
  BY <1>3, <1>4
<1>9. QED
  BY <1>1, <1>2, <1>3, <1>4, <1>5, <1>6, <1>7, <1>8

LEMMA ParseKeepsLineGood ==
  ASSUME RxInv, Parse, last' = last
  PROVE  LineGood'
<1>1. /\ BytesGood' /\ Chained' /\ LineEnds'
      /\ byte.frame > last
      /\ Line' # <<>> => Follows(byte, NextByte') /\ GoodByte(NextByte')
  BY Parsed DEF RxInv
<1>2. byte.frame \in Int /\ last \in Int
  BY ParseFacts
<1>3. Line' # <<>> => NextByte'.frame >= byte.frame /\ NextByte'.frame \in Int
  <2>1. Line' # <<>> => NextByte'.frame \in Int
    BY <1>1, Fields DEF RxInv
  <2>2. QED
    BY <1>1, <1>2, <2>1 DEF Follows, Continues, Begins
<1>4. LineIsNew'
  BY <1>1, <1>2, <1>3 DEF LineIsNew
<1>5. QED
  BY <1>1, <1>4 DEF LineGood

LEMMA SwallowBoundsNext ==
  ASSUME RxTypeOK', phase' # "idle", phase' = "flags" => left' <= MaxLen
  PROVE  ToSwallow' \in Int /\ ToSwallow' <= MaxSwallow
<1>1. MaxSwallow \in Int /\ MaxSwallow = MaxLen + SigLen + 3
  BY Sizes DEF MaxSwallow
<1>2. /\ phase' \in {"idle", "length", "flags", "body"} /\ v1' \in BOOLEAN
      /\ left' \in 0 .. MaxLen + 1 + SigLen
  BY DEF RxTypeOK
<1>3. CASE phase' = "length"
  BY <1>1, <1>2, <1>3, Sizes DEF ToSwallow
<1>4. CASE phase' = "flags"
  BY <1>1, <1>2, <1>4, Sizes DEF ToSwallow
<1>5. CASE phase' = "body"
  BY <1>1, <1>2, <1>5, Sizes DEF ToSwallow
<1>6. QED
  BY <1>2, <1>3, <1>4, <1>5

\* The parser takes a byte of the frame it reads, at the place it thinks.
LEMMA GoesOn ==
  ASSUME RxInv, Parse, RxTypeOK', last' = last, frame' = byte.frame, v1' = FALSE,
         \/ phase' = "length" /\ byte.at = 1
         \/ phase' = "flags" /\ byte.at = 2 /\ left' = byte.len
         \/ phase' = "body" /\ byte.at >= 3 /\ left' = byte.len + 4 - byte.at /\ left' >= 1
  PROVE  RxInv'
<1>1. /\ Line # <<>> /\ byte = NextByte
      /\ byte.frame \in Int /\ byte.frame >= 1 /\ byte.frame <= sent
      /\ byte.frame > last
      /\ byte.at \in Int /\ byte.at >= 1 /\ byte.at <= byte.len + 4
      /\ byte.len \in Int /\ byte.len >= 0 /\ byte.len <= MaxLen
      /\ byte.cut \in BOOLEAN
      /\ sent \in Int /\ whole \in Int /\ last \in 0 .. sent
      /\ sent' = sent /\ whole' = whole
      /\ byte.cut => calm' = 0
  BY ParseFacts
<1>2. LineGood'
  BY ParseKeepsLineGood
<1>3. ~IsEnd(byte)
  BY <1>1 DEF IsEnd
<1>4. \/ Line' # <<>> /\ Continues(byte, NextByte')
      \/ /\ byte.cut
         /\ Line' # <<>> => IsStart(NextByte') /\ NextByte'.frame > byte.frame
  BY <1>3, Onward DEF RxInv
<1>5. ParserGood'
  <2>1. phase' # "idle" /\ frame' \in last' + 1 .. sent'
    BY <1>1
  <2>2. (phase' = "flags" => left' <= MaxLen) /\ (phase' = "body" => left' >= 1)
    BY <1>1
  <2>3. PlaceIsTrue'
    <3>1. Reading' => Continues(byte, NextByte')
      BY <1>1, <1>4 DEF Reading
    <3>2. Continues(byte, NextByte') => NextByte'.at = byte.at + 1 /\ NextByte'.len = byte.len
      BY DEF Continues
    <3>3. QED
      BY <1>1, <3>1, <3>2 DEF PlaceIsTrue
  <2>4. QED
    BY <2>1, <2>2, <2>3 DEF ParserGood
<1>6. Continues(byte, NextByte') /\ Line' # <<>> => Reading'
  BY <1>1 DEF Reading, Continues
<1>7. InStep'
  <2>1. SUFFICES ASSUME last < whole \/ (last = whole /\ whole = sent)
                 PROVE  last < whole /\ Reading' /\ byte.frame = last + 1
    BY <1>1 DEF InStep
  <2>2. last < whole
    BY <1>1, <2>1
  <2>3. byte.frame = last + 1
    BY <1>1, <2>1, <2>2 DEF RxInv, InStep, Reading
  <2>4. ~byte.cut
    <3>1. GoodByte(byte)
      BY Parsed DEF RxInv
    <3>2. QED
      BY <1>1, <2>2, <2>3, <3>1 DEF GoodByte
  <2>5. QED
    BY <1>4, <1>6, <2>2, <2>3, <2>4
<1>8. SwallowsLittle'
  <2>1. ~Reading' => calm' = 0
    BY <1>1, <1>4, <1>6
  <2>2. ToSwallow' \in Int /\ ToSwallow' <= MaxSwallow
    BY <1>5, SwallowBoundsNext DEF ParserGood
  <2>3. QED
    BY <2>1, <2>2 DEF SwallowsLittle
<1>9. BackInStep'
  BY <1>4, <1>6 DEF BackInStep, IsStart
<1>10. QED
  BY <1>2, <1>5, <1>7, <1>8, <1>9 DEF RxInv

\* The parser takes a byte of no frame it reads, and has none in hand after it.
LEMMA Astray ==
  ASSUME RxInv, Parse, RxTypeOK', last' = last, frame' = 0, ~Reading,
         phase # "idle" \/ ~IsStart(byte),
         phase' = "flags" => left' <= MaxLen, phase' = "body" => left' >= 1,
         SwallowsLittle'
  PROVE  RxInv'
<1>1. sent' = sent /\ whole' = whole
  BY ParseFacts
<1>2. LineGood'
  BY ParseKeepsLineGood
<1>3. ParserGood'
  BY DEF ParserGood, PlaceIsTrue, Reading
<1>4. InStep'
  BY <1>1, OutOfStep DEF InStep
<1>5. BackInStep'
  <2>1. SUFFICES ASSUME Line' # <<>>, NextByte'.at >= 2,
                        calm' >= MaxSwallow + NextByte'.at - 1
                 PROVE  FALSE
    BY DEF BackInStep
  <2>2. QED
    BY <2>1, Caught
<1>6. QED
  BY <1>2, <1>3, <1>4, <1>5 DEF RxInv

\* It has one byte less to swallow ...
LEMMA OneLess ==
  ASSUME RxInv, Parse, ~Reading, phase # "idle", ~ReadingAsV1,
         ToSwallow' \in Int, ToSwallow' <= ToSwallow - 1
  PROVE  SwallowsLittle'
<1>1. calm \in Int /\ calm' \in Int /\ calm' <= calm + 1
  BY ParseFacts
<1>2. calm + ToSwallow <= MaxSwallow /\ MaxSwallow \in Int
  BY Sizes DEF RxInv, SwallowsLittle, MaxSwallow
<1>3. ToSwallow \in Int
  BY SwallowBounds DEF RxInv
<1>4. \A c, d, s, t, m \in Int :
        d <= c + 1 /\ t <= s - 1 /\ c + s <= m => d + t <= m
  OBVIOUS
<1>5. calm' + ToSwallow' <= MaxSwallow
  <2> HIDE DEF ToSwallow
  <2>1. QED
    BY <1>1, <1>2, <1>3, <1>4
<1>6. QED
  BY <1>5 DEF SwallowsLittle

\* ... or the byte was of a cut frame, or looked like a start.
LEMMA AllAgain ==
  ASSUME RxTypeOK', calm' = 0, phase' = "flags" => left' <= MaxLen
  PROVE  SwallowsLittle'
<1>1. phase' # "idle" => ToSwallow' \in Int /\ ToSwallow' <= MaxSwallow
  BY SwallowBoundsNext
<1>2. QED
  BY <1>1 DEF SwallowsLittle

-----------------------------------------------------------------------------
\* mavlink_parse_char(), state by state.

LEMMA IdleHolds == ASSUME RxInv, Idle PROVE RxInv'
<1>1. /\ phase = "idle" /\ Parse /\ last' = last /\ frame = 0 /\ ~Reading
      /\ left \in 0 .. MaxLen + 1 + SigLen /\ v1 \in BOOLEAN
  BY DEF Idle, RxInv, RxTypeOK, ParserGood, Reading
<1>2. /\ byte.frame \in Int /\ byte.frame >= 1 /\ byte.frame <= MaxFrames
      /\ byte.kind \in Kinds
      /\ IsStart(byte) => byte.kind = "stx"
      /\ byte.kind # "plain" /\ ~IsStart(byte) => calm' = 0
      /\ last \in 0 .. sent
  BY <1>1, ParseFacts
<1>3. CASE byte.kind = "plain"
  <2>1. UNCHANGED <<phase, left, v1, frame>> /\ ~IsStart(byte)
    BY <1>2, <1>3 DEF Idle, parser
  <2>2. RxTypeOK'
    BY <1>1, <1>2, <2>1, ParseTypes, Sizes
  <2>3. SwallowsLittle'
    BY <1>1, <2>1 DEF SwallowsLittle
  <2>4. QED
    BY <1>1, <2>1, <2>2, <2>3, Astray
<1>4. CASE byte.kind # "plain"
  <2>1. /\ phase' = "length" /\ left' = 0 /\ frame' = Started(v1')
        /\ v1' = (byte.kind = "stx1")
    BY <1>4 DEF Idle, Goes
  <2>2. v1' \in BOOLEAN
    BY <2>1, Zenon
  <2>3. frame' = 0 \/ frame' = byte.frame
    BY <2>1 DEF Started
  <2>4. RxTypeOK'
    <3>1. frame' \in 0 .. MaxFrames /\ left' \in 0 .. MaxLen + 1 + SigLen
      BY <1>2, <2>1, <2>3, Sizes
    <3>2. QED
      BY <1>1, <1>2, <2>1, <2>2, <3>1, ParseTypes
  <2>5. CASE IsStart(byte)
    <3>1. ~v1' /\ byte.at = 1
      BY <1>2, <2>1, <2>5 DEF IsStart
    <3>2. frame' = byte.frame
      BY <2>1, <2>5, <3>1 DEF Started
    <3>3. v1' = FALSE
      BY <2>2, <3>1, Zenon
    <3>4. QED
      BY <1>1, <2>1, <2>4, <3>1, <3>2, <3>3, GoesOn
  <2>6. CASE ~IsStart(byte)
    <3>1. frame' = 0 /\ calm' = 0
      BY <1>2, <1>4, <2>1, <2>6 DEF Started
    <3>2. SwallowsLittle'
      BY <2>1, <2>4, <3>1, AllAgain
    <3>3. QED
      BY <1>1, <2>1, <2>4, <2>6, <3>1, <3>2, Astray
  <2>7. QED
    BY <2>5, <2>6
<1>5. QED
  BY <1>3, <1>4

LEMMA LengthHolds == ASSUME RxInv, Length PROVE RxInv'
<1>1. /\ phase = "length" /\ Parse /\ last' = last /\ v1' = v1
      /\ v1 \in BOOLEAN /\ frame \in 0 .. MaxFrames
  BY DEF Length, RxInv, RxTypeOK
<1>2. PICK n \in IF IsLength(byte) THEN {byte.len} ELSE 0 .. MaxLen :
        IF v1 THEN Goes("body", n + 1, 0) ELSE Goes("flags", n, Going)
  BY DEF Length
<1>3. /\ Line # <<>> /\ byte = NextByte
      /\ byte.frame \in Int /\ byte.at \in Int
      /\ byte.len \in Int /\ byte.len >= 0 /\ byte.len <= MaxLen
      /\ last \in 0 .. sent
      /\ calm \in Int /\ calm' \in Int /\ calm' >= 0 /\ calm' <= calm + 1
  BY <1>1, ParseFacts
<1>4. n \in Int /\ n >= 0 /\ n <= MaxLen /\ (byte.at = 2 => n = byte.len)
  BY <1>2, <1>3, Sizes DEF IsLength
<1>5. Going \in 0 .. MaxFrames
  BY <1>1, Sizes DEF Going
<1>6. /\ phase' \in {"body", "flags"}
      /\ left' \in 0 .. MaxLen + 1 + SigLen /\ frame' \in 0 .. MaxFrames
      /\ phase' = "flags" => left' <= MaxLen
      /\ phase' = "body" => left' >= 1
  <2>1. CASE v1
    BY <1>2, <1>4, <2>1, Sizes DEF Goes
  <2>2. CASE ~v1
    BY <1>2, <1>4, <1>5, <2>2, Sizes DEF Goes
  <2>3. QED
    BY <2>1, <2>2
<1>7. RxTypeOK'
  BY <1>1, <1>3, <1>6, ParseTypes
<1>8. CASE Reading
  <2>1. byte.at = 2 /\ frame # 0 /\ byte.frame = frame /\ ~v1
    BY <1>1, <1>3, <1>8 DEF RxInv, ParserGood, PlaceIsTrue, Reading
  <2>2. phase' = "flags" /\ left' = byte.len /\ frame' = byte.frame
    BY <1>2, <1>4, <2>1 DEF Goes, Going
  <2>3. v1' = FALSE
    BY <1>1, <2>1, Zenon
  <2>4. QED
    BY <1>1, <1>7, <2>1, <2>2, <2>3, GoesOn
<1>9. CASE ~Reading
  <2>1. Going = 0
    BY <1>1, <1>9, NotReading DEF RxInv
  <2>2. frame' = 0
    BY <1>2, <2>1 DEF Goes
  <2>3. SwallowsLittle'
    <3>1. CASE v1 /\ ReadingAsV1
      <4>1. /\ NextByte.at = 2 /\ ~NextByte.cut /\ frame = 0
            /\ calm <= MaxSwallow + NextByte.at - 2
        BY <1>1, <3>1 DEF ReadingAsV1
      <4>2. ~IsEnd(byte)
        BY <1>3, <4>1 DEF IsEnd
      <4>3. Line' # <<>> /\ Continues(byte, NextByte')
        BY <1>1, <1>3, <4>1, <4>2, Onward DEF RxInv
      <4>4. NextByte'.at = 3 /\ NextByte'.len = byte.len /\ NextByte'.cut = byte.cut
        BY <1>3, <4>1, <4>3 DEF Continues
      <4>5. phase' = "body" /\ left' = byte.len + 1
        BY <1>2, <1>3, <1>4, <3>1, <4>1 DEF Goes
      <4>6. MaxSwallow \in Int
        BY Sizes DEF MaxSwallow
      <4>7. v1' /\ ~NextByte'.cut
        BY <1>1, <1>3, <3>1, <4>1, <4>4, Zenon
      <4>8. NextByte'.at >= 3 /\ left' = NextByte'.len + 4 - NextByte'.at
        BY <1>3, <4>4, <4>5
      <4>9. calm' <= MaxSwallow + NextByte'.at - 2
        BY <1>3, <4>1, <4>4, <4>6
      <4>10. ReadingAsV1'
        BY <2>2, <4>3, <4>5, <4>7, <4>8, <4>9 DEF ReadingAsV1
      <4>11. QED
        BY <4>10 DEF SwallowsLittle
    <3>2. CASE v1 /\ ~ReadingAsV1
      <4>1. phase' = "body" /\ left' = n + 1
        BY <1>2, <3>2 DEF Goes
      <4>2. ToSwallow = MaxLen + 2 /\ ToSwallow' = n + 1
        BY <1>1, <3>2, <4>1 DEF ToSwallow
      <4>3. ToSwallow' \in Int /\ ToSwallow' <= ToSwallow - 1
        BY <1>4, <4>2, Sizes
      <4>4. QED
        BY <1>1, <1>9, <3>2, <4>3, OneLess
    <3>3. CASE ~v1
      <4>1. phase' = "flags" /\ left' = n
        BY <1>2, <3>3 DEF Goes
      <4>2. ToSwallow = MaxLen + 3 + SigLen /\ ToSwallow' = n + 2 + SigLen
        BY <1>1, <3>3, <4>1, Sizes DEF ToSwallow, MaxSwallow
      <4>3. ToSwallow' \in Int /\ ToSwallow' <= ToSwallow - 1
        BY <1>4, <4>2, Sizes
      <4>4. ~ReadingAsV1
        BY <3>3 DEF ReadingAsV1
      <4>5. QED
        BY <1>1, <1>9, <4>3, <4>4, OneLess
    <3>4. QED
      BY <3>1, <3>2, <3>3
  <2>4. QED
    BY <1>1, <1>6, <1>7, <1>9, <2>2, <2>3, Astray
<1>10. QED
  BY <1>8, <1>9

LEMMA FlagsHolds == ASSUME RxInv, Flags PROVE RxInv'
<1>1. /\ phase = "flags" /\ Parse /\ last' = last /\ v1' = v1
      /\ v1 \in BOOLEAN /\ frame \in 0 .. MaxFrames
      /\ left \in 0 .. MaxLen + 1 + SigLen /\ left <= MaxLen
  BY DEF Flags, RxInv, RxTypeOK, ParserGood
<1>2. \/ Goes("body", left + 1, Going)
      \/ ~Intact /\ Goes("body", left + 1 + SigLen, 0)
      \/ ~Intact /\ Goes("idle", 0, 0)
  BY DEF Flags
<1>3. /\ Line # <<>> /\ byte = NextByte
      /\ byte.frame \in Int /\ byte.at \in Int /\ byte.len \in Int /\ byte.len >= 0
      /\ last \in 0 .. sent
  BY <1>1, ParseFacts
<1>4. Going \in 0 .. MaxFrames /\ left \in Int
  BY <1>1, Sizes DEF Going
<1>5. /\ phase' \in {"body", "idle"}
      /\ left' \in 0 .. MaxLen + 1 + SigLen /\ frame' \in 0 .. MaxFrames
      /\ phase' = "body" => left' >= 1 /\ left' <= left + 1 + SigLen
  BY <1>1, <1>2, <1>4, Sizes DEF Goes
<1>6. RxTypeOK'
  BY <1>1, <1>3, <1>5, ParseTypes
<1>7. CASE Reading
  <2>1. /\ byte.at = 3 /\ left = byte.len
        /\ frame # 0 /\ byte.frame = frame /\ ~v1 /\ Intact
    BY <1>1, <1>3, <1>7 DEF RxInv, ParserGood, PlaceIsTrue, Reading, Intact
  <2>2. phase' = "body" /\ left' = left + 1 /\ frame' = byte.frame
    BY <1>2, <2>1 DEF Goes, Going
  <2>3. v1' = FALSE
    BY <1>1, <2>1, Zenon
  <2>4. left' = byte.len + 4 - byte.at /\ left' >= 1 /\ byte.at >= 3
    BY <1>3, <2>1, <2>2
  <2>5. QED
    BY <1>1, <1>6, <2>2, <2>3, <2>4, GoesOn
<1>8. CASE ~Reading
  <2>1. Going = 0
    BY <1>1, <1>8, NotReading DEF RxInv
  <2>2. frame' = 0
    BY <1>2, <2>1 DEF Goes
  <2>3. SwallowsLittle'
    <3>1. CASE phase' = "idle"
      BY <3>1 DEF SwallowsLittle
    <3>2. CASE phase' = "body"
      <4>1. ToSwallow = left + 2 + SigLen /\ ToSwallow' = left'
        BY <1>1, <3>2 DEF ToSwallow
      <4>2. ToSwallow' \in Int /\ ToSwallow' <= ToSwallow - 1
        BY <1>4, <1>5, <3>2, <4>1, Sizes
      <4>3. ~ReadingAsV1
        BY <1>1 DEF ReadingAsV1
      <4>4. QED
        BY <1>1, <1>8, <4>2, <4>3, OneLess
    <3>3. QED
      BY <1>5, <3>1, <3>2
  <2>4. QED
    BY <1>1, <1>5, <1>6, <1>8, <2>2, <2>3, Astray
<1>9. QED
  BY <1>7, <1>8

LEMMA BodyHolds == ASSUME RxInv, Body PROVE RxInv'
<1>1. /\ phase = "body" /\ left > 1 /\ Parse /\ last' = last /\ v1' = v1
      /\ v1 \in BOOLEAN /\ frame \in 0 .. MaxFrames
      /\ left \in 0 .. MaxLen + 1 + SigLen /\ left \in Int
      /\ phase' = "body" /\ left' = left - 1 /\ frame' = Going
  BY Sizes DEF Body, Goes, RxInv, RxTypeOK
<1>2. /\ Line # <<>> /\ byte = NextByte
      /\ byte.frame \in Int /\ byte.at \in Int /\ byte.len \in Int /\ byte.len >= 0
      /\ last \in 0 .. sent
      /\ calm \in Int /\ calm' \in Int /\ calm' >= 0 /\ calm' <= calm + 1
  BY <1>1, ParseFacts
<1>3. RxTypeOK'
  <2>1. Going \in 0 .. MaxFrames /\ left' \in 0 .. MaxLen + 1 + SigLen
    BY <1>1, Sizes DEF Going
  <2>2. QED
    BY <1>1, <1>2, <2>1, ParseTypes
<1>4. CASE Reading
  <2>1. /\ byte.at >= 4 /\ left = byte.len + 5 - byte.at
        /\ frame # 0 /\ byte.frame = frame /\ ~v1
    BY <1>1, <1>2, <1>4 DEF RxInv, ParserGood, PlaceIsTrue, Reading
  <2>2. frame' = byte.frame
    BY <1>1, <2>1 DEF Going
  <2>3. v1' = FALSE
    BY <1>1, <2>1, Zenon
  <2>4. left' = byte.len + 4 - byte.at /\ left' >= 1 /\ byte.at >= 3
    <3>1. \A l, m, n \in Int : l > 1 /\ l = m + 5 - n => l - 1 = m + 4 - n /\ l - 1 >= 1
      OBVIOUS
    <3>2. left = byte.len + 5 - byte.at /\ left > 1 /\ left \in Int
      BY <1>1, <2>1
    <3>3. left - 1 = byte.len + 4 - byte.at /\ left - 1 >= 1
      BY <1>2, <3>1, <3>2
    <3>4. QED
      BY <1>1, <1>2, <2>1, <3>3
  <2>5. QED
    BY <1>1, <1>3, <2>2, <2>3, <2>4, GoesOn
<1>5. CASE ~Reading
  <2>1. frame' = 0
    BY <1>1, <1>5, NotReading DEF RxInv
  <2>2. SwallowsLittle'
    <3>1. CASE ReadingAsV1
      <4>1. /\ NextByte.at >= 3 /\ ~NextByte.cut /\ v1
            /\ left = NextByte.len + 4 - NextByte.at
            /\ calm <= MaxSwallow + NextByte.at - 2
        BY <1>1, <3>1 DEF ReadingAsV1
      <4>2. ~IsEnd(byte)
        <5>1. \A l, m, n \in Int : l > 1 /\ l = m + 4 - n => n # m + 4
          OBVIOUS
        <5>2. left = byte.len + 4 - byte.at /\ left > 1 /\ left \in Int
          BY <1>1, <1>2, <4>1
        <5>3. byte.at # byte.len + 4
          BY <1>2, <5>1, <5>2
        <5>4. QED
          BY <5>3 DEF IsEnd
      <4>3. Line' # <<>> /\ Continues(byte, NextByte')
        BY <1>1, <1>2, <4>1, <4>2, Onward DEF RxInv
      <4>4. NextByte'.at = byte.at + 1 /\ NextByte'.len = byte.len /\ NextByte'.cut = byte.cut
        BY <4>3 DEF Continues
      <4>5. MaxSwallow \in Int
        BY Sizes DEF MaxSwallow
      <4>6. v1' /\ ~NextByte'.cut
        BY <1>1, <1>2, <4>1, <4>4, Zenon
      <4>7. NextByte'.at >= 3 /\ left' = NextByte'.len + 4 - NextByte'.at
        <5>1. \A l, m, n \in Int : l = m + 4 - n => l - 1 = m + 4 - (n + 1)
          OBVIOUS
        <5>2. left - 1 = byte.len + 4 - (byte.at + 1)
          BY <1>1, <1>2, <4>1, <5>1
        <5>3. byte.at + 1 >= 3
          BY <1>2, <4>1
        <5>4. QED
          BY <1>1, <4>4, <5>2, <5>3
      <4>8. calm' <= MaxSwallow + NextByte'.at - 2
        BY <1>2, <4>1, <4>4, <4>5
      <4>9. ReadingAsV1'
        BY <1>1, <2>1, <4>3, <4>6, <4>7, <4>8 DEF ReadingAsV1
      <4>10. QED
        BY <4>9 DEF SwallowsLittle
    <3>2. CASE ~ReadingAsV1
      <4>1. ToSwallow = left /\ ToSwallow' = left - 1
        BY <1>1 DEF ToSwallow
      <4>2. ToSwallow' \in Int /\ ToSwallow' <= ToSwallow - 1
        BY <1>1, <4>1
      <4>3. QED
        BY <1>1, <1>5, <3>2, <4>2, OneLess
    <3>3. QED
      BY <3>1, <3>2
  <2>3. left' >= 1
    BY <1>1
  <2>4. QED
    BY <1>1, <1>3, <1>5, <2>1, <2>2, <2>3, Astray
<1>6. QED
  BY <1>4, <1>5

LEMMA BadCrcHolds == ASSUME RxInv, BadCrc PROVE RxInv'
<1>1. /\ phase = "body" /\ left = 1 /\ Parse /\ ~Intact /\ last' = last /\ v1' = v1
      /\ v1 \in BOOLEAN
      /\ IF byte.kind = "stx" THEN Goes("length", 0, Started(v1)) ELSE Goes("idle", 0, 0)
  BY DEF BadCrc, CrcRight, AfterBadCrc, StartsOver, RxInv, RxTypeOK
<1>2. /\ Line # <<>> /\ byte = NextByte
      /\ byte.frame \in Int /\ byte.frame >= 1 /\ byte.frame <= MaxFrames
      /\ byte.at \in Int /\ byte.len \in Int /\ byte.len >= 0
      /\ byte.cut \in BOOLEAN
      /\ last \in 0 .. sent
      /\ calm \in Int /\ calm' \in Int /\ calm' >= 0 /\ calm' <= calm + 1
      /\ byte.cut => calm' = 0
      /\ byte.kind # "plain" /\ ~IsStart(byte) => calm' = 0
  BY <1>1, ParseFacts
<1>3. ~Reading
  BY <1>1, <1>2 DEF Reading, Intact
<1>4. /\ phase' \in {"idle", "length"} /\ left' = 0 /\ frame' \in {0, byte.frame}
  BY <1>1 DEF Goes, Started
<1>5. RxTypeOK'
  <2>1. frame' \in 0 .. MaxFrames /\ left' \in 0 .. MaxLen + 1 + SigLen
    BY <1>2, <1>4, Sizes
  <2>2. QED
    BY <1>1, <1>2, <1>4, <2>1, ParseTypes
<1>6. CASE byte.kind # "stx"
  <2>1. phase' = "idle" /\ frame' = 0
    BY <1>1, <1>6 DEF Goes
  <2>2. SwallowsLittle'
    BY <2>1 DEF SwallowsLittle
  <2>3. QED
    BY <1>1, <1>3, <1>5, <2>1, <2>2, Astray
<1>7. CASE byte.kind = "stx" /\ ~IsStart(byte)
  <2>1. phase' = "length" /\ frame' = 0 /\ calm' = 0
    BY <1>1, <1>2, <1>7 DEF Goes, Started
  <2>2. SwallowsLittle'
    BY <1>5, <2>1, AllAgain
  <2>3. QED
    BY <1>1, <1>3, <1>5, <2>1, <2>2, Astray
<1>8. CASE byte.kind = "stx" /\ IsStart(byte) /\ ~v1
  <2>1. phase' = "length" /\ frame' = byte.frame /\ byte.at = 1
    BY <1>1, <1>8 DEF Goes, Started, IsStart
  <2>2. v1' = FALSE
    BY <1>1, <1>8, Zenon
  <2>3. QED
    BY <1>1, <1>5, <2>1, <2>2, GoesOn
<1>9. CASE byte.kind = "stx" /\ IsStart(byte) /\ v1
  <2>1. phase' = "length" /\ frame' = 0 /\ byte.at = 1
    BY <1>1, <1>9 DEF Goes, Started, IsStart
  <2>2. SwallowsLittle'
    <3>1. CASE byte.cut
      BY <1>2, <1>5, <2>1, <3>1, AllAgain
    <3>2. CASE ~byte.cut
      <4>1. ~ReadingAsV1
        BY <1>1, <1>2, <2>1 DEF ReadingAsV1
      <4>2. calm + ToSwallow <= MaxSwallow /\ ToSwallow = 1
        BY <1>1, <1>3, <4>1 DEF RxInv, SwallowsLittle, ToSwallow
      <4>3. Line' # <<>> /\ Continues(byte, NextByte')
        <5>1. ~IsEnd(byte)
          BY <1>2, <2>1 DEF IsEnd
        <5>2. QED
          BY <1>1, <3>2, <5>1, Onward DEF RxInv
      <4>4. NextByte'.at = 2 /\ NextByte'.cut = byte.cut
        BY <2>1, <4>3 DEF Continues
      <4>5. MaxSwallow \in Int
        BY Sizes DEF MaxSwallow
      <4>6. v1' /\ ~NextByte'.cut
        BY <1>1, <1>9, <3>2, <4>4, Zenon
      <4>7. calm' <= MaxSwallow + NextByte'.at - 2
        BY <1>2, <4>2, <4>4, <4>5
      <4>8. ReadingAsV1'
        BY <2>1, <4>3, <4>4, <4>6, <4>7 DEF ReadingAsV1
      <4>9. QED
        BY <4>8 DEF SwallowsLittle
    <3>3. QED
      BY <3>1, <3>2
  <2>3. QED
    BY <1>1, <1>3, <1>5, <2>1, <2>2, Astray
<1>10. QED
  BY <1>6, <1>7, <1>8, <1>9

\* A frame whose CRC is right is the one the parser read, from its first byte to its last.
LEMMA ReceivedIsWhole ==
  ASSUME RxInv, Received
  PROVE  /\ Parse /\ Reading /\ IsEnd(byte) /\ frame = byte.frame /\ last' = byte.frame
         /\ phase' = "idle" /\ left' = 0 /\ frame' = 0 /\ v1' = v1
<1>1. /\ phase = "body" /\ left = 1 /\ Parse /\ frame # 0 /\ frame = byte.frame
      /\ phase' = "idle" /\ left' = 0 /\ frame' = 0 /\ v1' = v1 /\ last' = byte.frame
  BY DEF Received, CrcRight, Intact, Going, Goes
<1>2. /\ Line # <<>> /\ byte = NextByte /\ byte.at \in Int /\ byte.len \in Int
  BY <1>1, ParseFacts
<1>3. Reading
  BY <1>1, <1>2 DEF Reading
<1>4. left = byte.len + 5 - byte.at
  BY <1>1, <1>2, <1>3 DEF RxInv, ParserGood, PlaceIsTrue
<1>5. IsEnd(byte)
  BY <1>1, <1>2, <1>4 DEF IsEnd
<1>6. QED
  BY <1>1, <1>3, <1>5

\* Up to the first cut no frame is passed over.
LEMMA ReceivedIsNext ==
  ASSUME RxInv, Received
  PROVE  last' \in last + 1 .. sent /\ (last < whole => last' = last + 1)
<1>1. Parse /\ frame = byte.frame /\ last' = byte.frame /\ phase # "idle"
  BY ReceivedIsWhole DEF Received
<1>2. /\ byte.frame \in Int /\ byte.frame > last /\ byte.frame <= sent
      /\ last \in 0 .. sent /\ sent \in Int
  BY <1>1, ParseFacts
<1>3. last < whole => frame = last + 1
  BY <1>1 DEF RxInv, InStep
<1>4. QED
  BY <1>1, <1>2, <1>3

LEMMA ReceivedHolds == ASSUME RxInv, Received PROVE RxInv'
<1>1. /\ Parse /\ IsEnd(byte) /\ last' = byte.frame
      /\ phase' = "idle" /\ left' = 0 /\ frame' = 0 /\ v1' = v1
  BY ReceivedIsWhole
<1>2. /\ byte.frame \in Int /\ byte.frame >= 1 /\ byte.frame <= sent
      /\ byte.at \in Int /\ byte.len \in Int
      /\ sent \in Int /\ whole \in Int /\ sent' = sent /\ whole' = whole
  BY <1>1, ParseFacts
<1>3. /\ BytesGood' /\ Chained' /\ LineEnds'
      /\ Line' # <<>> => Follows(byte, NextByte') /\ GoodByte(NextByte')
      /\ Line' = <<>> => byte.frame >= whole
  BY <1>1, Parsed DEF RxInv
<1>4. Line' # <<>> => Begins(byte, NextByte')
  BY <1>1, <1>3 DEF Follows, Continues
<1>5. RxTypeOK'
  <2>1. /\ left' \in 0 .. MaxLen + 1 + SigLen /\ frame' \in 0 .. MaxFrames
        /\ last' \in 0 .. sent
    BY <1>1, <1>2, Sizes
  <2>2. v1' \in BOOLEAN
    BY <1>1 DEF RxInv, RxTypeOK
  <2>3. QED
    BY <1>1, <2>1, <2>2, ParseTypes
<1>6. LineGood'
  BY <1>1, <1>3, <1>4 DEF LineGood, LineIsNew, Begins
<1>7. ParserGood'
  BY <1>1 DEF ParserGood, PlaceIsTrue, Reading
<1>8. InStep'
  <2>1. last' < whole' =>
          Line' # <<>> /\ IsStart(NextByte') /\ NextByte'.frame = last' + 1
    BY <1>1, <1>2, <1>3, <1>4 DEF Begins
  <2>2. QED
    BY <1>1, <2>1 DEF InStep, IsStart
<1>9. SwallowsLittle' /\ BackInStep'
  BY <1>1, <1>4 DEF SwallowsLittle, BackInStep, Begins, IsStart
<1>10. QED
  BY <1>5, <1>6, <1>7, <1>8, <1>9 DEF RxInv

-----------------------------------------------------------------------------
LEMMA RxStepHolds == RxInv /\ [RxNext]_rxVars => RxInv'
<1> SUFFICES ASSUME RxInv, [RxNext]_rxVars PROVE RxInv'
  OBVIOUS
<1>1. CASE Network
  BY <1>1, PeerHolds, OtherHolds DEF Network
<1>2. CASE DrainRx
  BY <1>2, ReadHolds, IdleHolds, LengthHolds, FlagsHolds, BodyHolds, ReceivedHolds, BadCrcHolds
  DEF DrainRx
<1>3. CASE UNCHANGED rxVars
  BY <1>3, RxStutterHolds
<1>4. QED
  BY <1>1, <1>2, <1>3 DEF RxNext

LEMMA RxInductive == RxSpec => []RxInv
<1>1. QED
  BY RxInitHolds, RxStepHolds, PTL DEF RxSpec

\* Buffers within their sizes, a body no longer than a length byte can announce and a
\* signature, no more frames delivered than sent - for any sizes and payloads.
THEOREM LinkTypeCorrect == RxSpec => []RxTypeOK
<1>1. RxInv => RxTypeOK
  BY DEF RxInv
<1>2. QED
  BY <1>1, RxInductive, PTL

LEMMA StepImplementsLossyLink ==
  RxInv /\ [RxNext]_rxVars => [Abstract!Next]_(Abstract!vars)
<1> SUFFICES ASSUME RxInv, [RxNext]_rxVars PROVE [Abstract!Next]_(Abstract!vars)
  OBVIOUS
<1>1. CASE \E p \in Payloads : FromPeer(p)
  <2>1. /\ sent' = sent + 1 /\ last' = last
        /\ whole' = whole \/ (whole = sent /\ whole' = sent + 1)
    BY <1>1 DEF FromPeer
  <2>2. Abstract!Send
    BY <2>1 DEF Abstract!Send
  <2>3. QED
    BY <2>2 DEF Abstract!Next
<1>2. CASE Received
  <2>1. UNCHANGED <<sent, whole>>
    BY <1>2 DEF Received, Parse
  <2>2. Abstract!Deliver
    BY <1>2, <2>1, ReceivedIsNext DEF Abstract!Deliver
  <2>3. QED
    BY <2>2 DEF Abstract!Next
<1>3. CASE \/ \E p \in Payloads : FromOther(p)
           \/ Read \/ Idle \/ Length \/ Flags \/ Body \/ BadCrc
           \/ UNCHANGED rxVars
  <2>1. UNCHANGED <<sent, whole, last>>
    BY <1>3 DEF FromOther, Read, Idle, Length, Flags, Body, BadCrc, Parse, rxVars
  <2>2. QED
    BY <2>1 DEF Abstract!vars
<1>4. QED
  BY <1>1, <1>2, <1>3 DEF RxNext, Network, DrainRx

\* Through the stream buffer, the chunks and the parser, whatever a cut datagram or a
\* look-alike start makes of it, the node gets frames of the peer only, none twice or
\* out of order, and all of those before the first cut.
THEOREM LinkImplemented == RxSpec => ImplementsLossyLink
<1>1. RxInit => Abstract!Init
  BY DEF RxInit, Abstract!Init
<1>2. QED
  BY <1>1, RxInductive, StepImplementsLossyLink, PTL
  DEF RxSpec, ImplementsLossyLink, Abstract!Spec

\* The only steps that take a byte from the chunk are the parser's.
LEMMA OnlyParseTakes ==
  ASSUME RxInv, [RxNext]_rxVars, chunk # <<>>, chunk' = Tail(chunk)
  PROVE  Idle \/ Length \/ Flags \/ Body \/ Received \/ BadCrc
<1>1. chunk' # chunk
  <2>1. chunk \in Seq(AllBytes)
    BY DEF RxInv, RxTypeOK
  <2>2. Len(chunk') = Len(chunk) - 1 /\ Len(chunk) \in Nat
    BY <2>1, HeadTailProperties, LenProperties
  <2>3. chunk' = chunk => Len(chunk') = Len(chunk)
    OBVIOUS
  <2>4. Len(chunk') # Len(chunk)
    <3>1. \A m, n \in Int : m = n - 1 => m # n
      OBVIOUS
    <3>2. Len(chunk) \in Int /\ Len(chunk') \in Int
      BY <2>2
    <3>3. QED
      BY <2>2, <3>1, <3>2, Zenon
  <2>5. QED
    BY <2>3, <2>4
<1>2. ~Read
  BY DEF Read
<1>3. ~Network /\ ~UNCHANGED rxVars
  BY <1>1 DEF Network, FromPeer, FromOther, rxVars
<1>4. QED
  BY <1>2, <1>3 DEF RxNext, DrainRx

LEMMA EndIsReceived ==
  ASSUME RxInv, [RxNext]_rxVars, chunk # <<>>, chunk' = Tail(chunk),
         IsEnd(byte), calm' >= MaxSwallow + byte.len + 4
  PROVE  last' = byte.frame
<1>1. Idle \/ Length \/ Flags \/ Body \/ Received \/ BadCrc
  BY OnlyParseTakes
<1>2. Parse
  BY <1>1 DEF Idle, Length, Flags, Body, Received, BadCrc
<1>3. /\ Line # <<>> /\ byte = NextByte
      /\ byte.at \in Int /\ byte.len \in Int /\ byte.len >= 0
      /\ calm \in Int /\ calm' \in Int /\ calm' <= calm + 1
  BY <1>2, ParseFacts
<1>4. byte.at = byte.len + 4 /\ MaxSwallow \in Int
  BY Sizes DEF IsEnd, MaxSwallow
<1>5. calm >= MaxSwallow + byte.at - 1 /\ byte.at >= 2
  BY <1>3, <1>4
<1>6. Reading
  BY <1>3, <1>5 DEF RxInv, BackInStep
<1>7. phase = "body" /\ left = 1 /\ Intact
  BY <1>3, <1>4, <1>6 DEF RxInv, ParserGood, PlaceIsTrue, Reading, Intact
<1>8. Received
  BY <1>1, <1>7 DEF Idle, Length, Flags, Body, BadCrc, CrcRight
<1>9. QED
  BY <1>8, ReceivedIsWhole

\* What a cut costs is bounded: whatever the parser took for a frame since, and whatever
\* version it thinks it reads, a frame that starts after MaxSwallow bytes of whole frames
\* without look-alike starts is delivered as soon as its last byte is parsed.
THEOREM CutsAreOvercome == RxSpec => Resyncs
<1>1. RxInv /\ [RxNext]_rxVars =>
        [chunk # <<>> /\ chunk' = Tail(chunk)
         /\ IsEnd(byte) /\ calm' >= MaxSwallow + byte.len + 4
           => last' = byte.frame]_rxVars
  BY EndIsReceived
<1>2. QED
  BY <1>1, RxInductive, PTL DEF RxSpec, Resyncs
=============================================================================
