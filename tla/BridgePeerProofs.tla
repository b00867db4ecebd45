-------------------------- MODULE BridgePeerProofs --------------------------
(***************************************************************************)
(* Proofs about the bridge's view of the MCU, for any periods, timeouts,   *)
(* sample counts and wall-clock steps: its state stays well formed, and    *)
(* right samples in a row correct a wrong offset in time.                  *)
(***************************************************************************)
EXTENDS BridgePeer, TLAPS

\* While the estimate is wrong every right sample is off it, and counts towards the
\* step that re-seeds it.
StepsCounted == synced /\ ~right => rightInRow <= stepCount

IInv == TypeOK /\ StepsCounted

\* The numbers the proofs compute with.
LEMMA Numbers ==
  /\ {Period, FastSamples, FastRequests, StepSamples, MinRtts, BeatPeriod, Step,
      MaxDelay, PeerTimeout} \subseteq Int
  /\ Period > 0 /\ FastSamples > 0 /\ FastRequests > 0 /\ StepSamples > 0 /\ MinRtts > 0
  /\ BeatPeriod > 0 /\ Step > 0 /\ MaxDelay >= 0 /\ PeerTimeout > 0
BY TimesAssumption

\* A sample keeps the estimate well formed and its steps counted.
LEMMA UpdateHolds ==
  ASSUME IInv, NEW ok \in BOOLEAN, NEW fresh, Update(ok, fresh)
  PROVE  /\ synced' \in BOOLEAN /\ right' \in BOOLEAN
         /\ stepCount' \in 0 .. StepSamples - 1
         /\ rightInRow' \in 0 .. StepSamples
         /\ StepsCounted'
<1> DEFINE row == IF ok THEN UpTo(StepSamples, rightInRow + 1) ELSE 0
<1>1. /\ synced \in BOOLEAN /\ right \in BOOLEAN
      /\ stepCount \in 0 .. StepSamples - 1 /\ rightInRow \in 0 .. StepSamples
      /\ StepSamples \in Int /\ StepSamples > 0
  BY Numbers DEF IInv, TypeOK
<1>2. /\ rightInRow' = row /\ row \in 0 .. StepSamples
      /\ row <= rightInRow + 1
      /\ ~ok => row = 0
  BY <1>1 DEF Update, UpTo
<1> HIDE DEF row
<1>3. CASE synced' = TRUE /\ right' \in BOOLEAN /\ (ok => right') /\ stepCount' = 0
  BY <1>1, <1>2, <1>3 DEF StepsCounted
<1>4. CASE /\ synced /\ right' \in BOOLEAN /\ (ok => right')
           /\ stepCount' = 0 /\ UNCHANGED synced
  BY <1>1, <1>2, <1>4 DEF StepsCounted
<1>5. CASE /\ synced /\ ~Reseeds
           /\ stepCount' = stepCount + 1 /\ UNCHANGED <<synced, right>>
  <2>1. stepCount + 1 \in 0 .. StepSamples - 1
    BY <1>1, <1>5 DEF Reseeds, EnoughSteps
  <2>2. ~right => rightInRow <= stepCount
    BY <1>5 DEF IInv, StepsCounted
  <2>3. ~right => row <= stepCount + 1
    BY <1>1, <1>2, <2>2
  <2>4. QED
    BY <1>1, <1>2, <1>5, <2>1, <2>3 DEF StepsCounted
<1>6. QED
  BY <1>3, <1>4, <1>5 DEF Update

\* Time and steps of the wall clock move the two ages within their ranges.
LEMMA AgesMove ==
  ASSUME IInv, NEW d \in Int, Advance(d), beatAge + d >= -Step, requestAge + d >= -Step
  PROVE  beatAge' \in -Step .. Never /\ requestAge' \in -Step .. Period
<1>1. beatAge + d \in Int /\ requestAge + d \in Int /\ -Step \in Int
      /\ -Step <= Period /\ -Step <= PeerTimeout + 1
  BY Numbers DEF IInv, TypeOK
<1>2. /\ UpTo(PeerTimeout + 1, beatAge + d) \in -Step .. PeerTimeout + 1
      /\ UpTo(Period, requestAge + d) \in -Step .. Period
  BY <1>1, Numbers DEF UpTo
<1>3. QED
  BY <1>1, <1>2, Numbers DEF Advance, Never

-----------------------------------------------------------------------------
LEMMA InitHolds == Init => IInv
<1> SUFFICES ASSUME Init PROVE IInv
  OBVIOUS
<1>1. {up, alive, synced, right, twoWay, fired} \subseteq BOOLEAN /\ ~synced
  BY DEF Init
<1>2. /\ sinceBeat \in 0 .. BeatPeriod /\ waited \in 0 .. MaxDelay /\ delay \in 0 .. MaxDelay
      /\ beatAge \in -Step .. Never /\ requestAge \in -Step .. Period
      /\ requests \in 0 .. FastRequests /\ accepted \in 0 .. FastSamples
      /\ stepCount \in 0 .. StepSamples - 1 /\ rtts \in 0 .. MinRtts
      /\ rightInRow \in 0 .. StepSamples
  BY Numbers DEF Init, Never
<1>3. /\ reply \in {"none", "even", "lopsided", "crossed"}
      /\ rx \in {"idle", "beat"} /\ exec \in {"idle", "old"}
  BY DEF Init
<1>4. QED
  BY <1>1, <1>2, <1>3 DEF IInv, TypeOK, StepsCounted

LEMMA TickHolds ==
  ASSUME IInv, Tick
  PROVE  IInv'
<1>1. beatAge' \in -Step .. Never /\ requestAge' \in -Step .. Period
  BY AgesMove, Numbers DEF Tick, IInv, TypeOK
<1>2. sinceBeat' \in 0 .. BeatPeriod /\ waited' \in 0 .. MaxDelay
  BY Numbers DEF Tick, IInv, TypeOK
<1>3. QED
  BY <1>1, <1>2 DEF Tick, estimate, IInv, TypeOK, StepsCounted

\* What changes the clocks only forgets right samples.
LEMMA ClocksChanged ==
  ASSUME IInv, ClocksChange
  PROVE  /\ reply' \in {"none", "even", "lopsided", "crossed"}
         /\ waited' \in 0 .. MaxDelay /\ delay' \in 0 .. MaxDelay
         /\ synced' \in BOOLEAN /\ right' \in BOOLEAN /\ twoWay' \in BOOLEAN
         /\ stepCount' \in 0 .. StepSamples - 1 /\ rtts' \in 0 .. MinRtts
         /\ rightInRow' \in 0 .. StepSamples
         /\ StepsCounted'
<1>1. right' \in BOOLEAN
  BY DEF ClocksChange
<1>2. /\ reply' \in {"none", "even", "lopsided", "crossed"}
      /\ UNCHANGED <<waited, delay, synced, twoWay, stepCount, rtts>>
      /\ rightInRow' = 0
  BY DEF ClocksChange, IInv, TypeOK
<1>3. QED
  BY <1>1, <1>2, Numbers DEF IInv, TypeOK, StepsCounted

LEMMA WorldHolds ==
  ASSUME IInv, World
  PROVE  IInv'
<1>1. ASSUME GoesDown PROVE IInv'
  <2>1. up' \in BOOLEAN
    BY <1>1 DEF GoesDown
  <2>2. sinceBeat' \in 0 .. BeatPeriod /\ UNCHANGED <<link, peer, pace, estimate, threads>>
    BY <1>1, Numbers DEF GoesDown
  <2>3. QED
    BY <2>1, <2>2 DEF link, peer, pace, estimate, threads, IInv, TypeOK, StepsCounted
<1>2. ASSUME Restart PROVE IInv'
  <2>1. up' \in BOOLEAN
    BY <1>2 DEF Restart
  <2>2. sinceBeat' \in 0 .. BeatPeriod /\ UNCHANGED <<peer, pace, threads>>
    BY <1>2, Numbers DEF Restart
  <2>3. QED
    BY <1>2, <2>1, <2>2, ClocksChanged DEF Restart, peer, pace, threads, IInv, TypeOK
<1>3. ASSUME WallStep PROVE IInv'
  <2>1. beatAge' \in -Step .. Never /\ requestAge' \in -Step .. Period
    BY <1>3, AgesMove, Numbers DEF WallStep
  <2>2. QED
    BY <1>3, <2>1, ClocksChanged DEF WallStep, mcu, threads, IInv, TypeOK
<1>4. ASSUME BeatLost PROVE IInv'
  BY <1>4, Numbers DEF BeatLost, link, peer, pace, estimate, threads, IInv, TypeOK, StepsCounted
<1>5. ASSUME ReplyLost PROVE IInv'
  BY <1>5, Numbers DEF ReplyLost, ReplyGone, mcu, peer, pace, estimate, threads,
     IInv, TypeOK, StepsCounted
<1>6. QED
  BY <1>1, <1>2, <1>3, <1>4, <1>5 DEF World

LEMMA RxHolds ==
  ASSUME IInv, Rx
  PROVE  IInv'
<1>1. ASSUME BeatStored PROVE IInv'
  <2>1. beatAge' \in -Step .. Never
    BY <1>1, Numbers DEF BeatStored, BeatStamp, StampAlways, Never
  <2>2. QED
    BY <1>1, <2>1, Numbers DEF BeatStored, link, pace, estimate, IInv, TypeOK, StepsCounted
<1>2. ASSUME BeatDone PROVE IInv'
  <2>1. alive' \in BOOLEAN /\ rx' \in {"idle", "beat"}
        /\ UNCHANGED <<mcu, link, beatAge, exec, fired, requestAge, rightInRow>>
    BY <1>2 DEF BeatDone, pace, estimate
  <2>2. CASE alive
    BY <1>2, <2>1, <2>2 DEF BeatDone, mcu, link, pace, estimate, IInv, TypeOK, StepsCounted
  <2>3. CASE ~alive
    <3>1. /\ synced' \in BOOLEAN /\ right' \in BOOLEAN /\ twoWay' \in BOOLEAN
          /\ ~synced'
      BY <1>2, <2>3 DEF BeatDone
    <3>2. /\ requests' \in 0 .. FastRequests /\ accepted' \in 0 .. FastSamples
          /\ stepCount' \in 0 .. StepSamples - 1 /\ rtts' \in 0 .. MinRtts
      BY <1>2, <2>3, Numbers DEF BeatDone
    <3>3. QED
      BY <2>1, <3>1, <3>2 DEF mcu, link, IInv, TypeOK, StepsCounted
  <2>4. QED
    BY <2>2, <2>3
<1>3. ASSUME OneWay PROVE IInv'
  <2>1. /\ synced' \in BOOLEAN /\ right' \in BOOLEAN
        /\ stepCount' \in 0 .. StepSamples - 1 /\ rightInRow' \in 0 .. StepSamples
        /\ StepsCounted'
    BY <1>3, UpdateHolds DEF OneWay
  <2>2. QED
    BY <1>3, <2>1 DEF OneWay, mcu, link, peer, pace, threads, IInv, TypeOK
<1>4. ASSUME TwoWay PROVE IInv'
  <2>1. /\ synced' \in BOOLEAN /\ right' \in BOOLEAN
        /\ stepCount' \in 0 .. StepSamples - 1 /\ rightInRow' \in 0 .. StepSamples
        /\ StepsCounted'
    <3>1. PICK ok \in BOOLEAN : Update(ok, ~twoWay)
      BY <1>4 DEF TwoWay
    <3>2. QED
      BY <3>1, UpdateHolds
  <2>2. rtts' \in 0 .. MinRtts /\ accepted' \in 0 .. FastSamples
    BY <1>4, Numbers DEF TwoWay, IInv, TypeOK, UpTo
  <2>3. QED
    BY <1>4, <2>1, <2>2, Numbers DEF TwoWay, ReplyArrives, ReplyGone, mcu, peer, threads,
       IInv, TypeOK
<1>5. ASSUME TooLong PROVE IInv'
  <2>1. rtts' \in 0 .. MinRtts
    BY <1>5, Numbers DEF TooLong, IInv, TypeOK, UpTo
  <2>2. QED
    BY <1>5, <2>1, Numbers DEF TooLong, ReplyArrives, ReplyGone, mcu, peer, pace, threads,
       IInv, TypeOK, StepsCounted
<1>6. ASSUME Negative PROVE IInv'
  BY <1>6, Numbers DEF Negative, ReplyArrives, ReplyGone, mcu, peer, pace, estimate, threads,
     IInv, TypeOK, StepsCounted
<1>7. QED
  BY <1>1, <1>2, <1>3, <1>4, <1>5, <1>6 DEF Rx, Replied

LEMMA ExecutorHolds ==
  ASSUME IInv, HeartbeatTimer \/ TimesyncTimer
  PROVE  IInv'
<1>1. ASSUME FindsOld PROVE IInv'
  BY <1>1 DEF FindsOld, mcu, link, peer, pace, estimate, IInv, TypeOK, StepsCounted
<1>2. ASSUME DeclareLost PROVE IInv'
  BY <1>2 DEF DeclareLost, mcu, link, pace, estimate, IInv, TypeOK, StepsCounted
<1>3. ASSUME NoRequest PROVE IInv'
  BY <1>3 DEF NoRequest, mcu, link, peer, pace, estimate, IInv, TypeOK, StepsCounted
<1>4. ASSUME Request PROVE IInv'
  <2>1. requestAge' \in -Step .. Period /\ requests' \in 0 .. FastRequests
        /\ waited' \in 0 .. MaxDelay
    BY <1>4, Numbers DEF Request, IInv, TypeOK, UpTo
  <2>2. QED
    BY <1>4, <2>1 DEF Request, mcu, peer, estimate, IInv, TypeOK, StepsCounted
<1>5. QED
  BY <1>1, <1>2, <1>3, <1>4 DEF HeartbeatTimer, TimesyncTimer

LEMMA StepHolds == IInv /\ [Next]_vars => IInv'
<1> SUFFICES ASSUME IInv, [Next]_vars PROVE IInv'
  OBVIOUS
<1>1. CASE UNCHANGED vars
  BY <1>1 DEF vars, mcu, link, peer, pace, estimate, threads, IInv, TypeOK, StepsCounted
<1>2. CASE Next
  BY <1>2, TickHolds, WorldHolds, RxHolds, ExecutorHolds DEF Next
<1>3. QED
  BY <1>1, <1>2

-----------------------------------------------------------------------------
\* The bridge's atomics, its estimator and both threads keep their types, whatever the
\* MCU, the link and the wall clock do.
THEOREM TypeCorrect == Spec => []TypeOK
<1>1. IInv => TypeOK
  BY DEF IInv
<1>2. QED
  BY InitHolds, StepHolds, <1>1, PTL DEF Spec

\* A restart nobody noticed, or a stepped wall clock, never costs more than StepSamples
\* right samples in a row, for any StepSamples.
THEOREM ReseedsInTime == Spec => []ReseededInTime
<1>1. IInv => ReseededInTime
  BY Numbers DEF IInv, TypeOK, StepsCounted, ReseededInTime
<1>2. QED
  BY InitHolds, StepHolds, <1>1, PTL DEF Spec
=============================================================================
