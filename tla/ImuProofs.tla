----------------------------- MODULE ImuProofs ------------------------------
(***************************************************************************)
(* Proofs about the IMU task's two modules.  ImuCalibration, for any       *)
(* timing: the status a host reads belongs to the save that save_seq       *)
(* counts, and sessions end.  ImuBno055, the driver under it: a save never *)
(* meets a running DMA read, and only fresh samples are published.         *)
(***************************************************************************)
EXTENDS ImuCalibration, ImuBno055, TLAPS

\* Every save accepted is still requested, under way or counted.
Owed == (IF saveRequested THEN 1 ELSE 0)
        + (IF imuPc \in {"claimed", "saving", "stored"} THEN 1 ELSE 0)
NoneLost == accepted = saveSeq + Owed

\* What state holds at each point of serviceSave().
StateOfSave ==
  /\ imuPc = "saving" => state = "saving"
  /\ imuPc = "stored" => state = result
  /\ imuPc \in {"idle", "claimed", "counted"} => state = lastResult

\* A clock value is read d ago, and less than a wrap of millis() has passed.
Ago(value, d) == value = millis - d \/ value = millis - d + Wrap
StartIsTrue == sessionActive => Ago(sessionStarted, age)
LedClockIsTrue == ledPc # "idle" => sinceLed <= MaxLed /\ Ago(ledNow, sinceLed)

\* How old a session can be, by how far the LED task is.
AgeBounded ==
  sessionActive => age <= SessionTimeout + sinceLed + IF ledPc = "idle" THEN 0 ELSE LedPeriod

Saves == NoneLost /\ StateOfSave
Sessions == StartIsTrue /\ LedClockIsTrue /\ AgeBounded
IInv == TypeOK /\ Saves /\ Sessions

-----------------------------------------------------------------------------
\* Facts about the numbers.

LEMMA Numbers ==
  /\ Wrap \in Int /\ SessionTimeout \in Int /\ LedPeriod \in Int /\ MaxSaves \in Int
  /\ MaxAge \in Int /\ MaxLed \in Int
  /\ Wrap > 0 /\ SessionTimeout > 0 /\ LedPeriod > 0 /\ MaxSaves > 0 /\ MaxAge > 0
  /\ MaxLed >= 0 /\ MaxLed < LedPeriod
  /\ SessionTimeout + LedPeriod + MaxLed < Wrap
  /\ SessionTimeout + LedPeriod + MaxLed < MaxAge
BY TimesAssumption

LEMMA WrapsOnce ==
  ASSUME NEW n \in Nat \ {0}, NEW t \in 0 .. n - 1
  PROVE  (t + 1) % n = IF t + 1 < n THEN t + 1 ELSE 0
OBVIOUS

LEMMA RemainderIsUnique ==
  ASSUME NEW n \in Nat \ {0}, NEW q \in Int, NEW r \in 0 .. n - 1
  PROVE  (n * q + r) % n = r
OBVIOUS

\* The unsigned difference of two clock values is how long the one was read after the
\* other.
LEMMA ElapsedIsExact ==
  ASSUME NEW a \in Times, NEW b \in Times, NEW d \in 0 .. Wrap - 1,
         a - b = d \/ a - b = d - Wrap
  PROVE  Elapsed(a, b) = d
<1>1. Wrap \in Nat \ {0}
  BY TimesAssumption
<1>2. CASE a - b = d
  <2>1. a - b = Wrap * 0 + d
    BY <1>1, <1>2 DEF Times
  <2>2. QED
    BY <1>1, <2>1, RemainderIsUnique DEF Elapsed
<1>3. CASE a - b = d - Wrap
  <2>1. a - b = Wrap * (-1) + d
    BY <1>1, <1>3 DEF Times
  <2>2. QED
    BY <1>1, <2>1, RemainderIsUnique DEF Elapsed
<1>4. QED
  BY <1>2, <1>3

-----------------------------------------------------------------------------
LEMMA Zero == 0 \in Times
BY Numbers DEF Times

LEMMA InitHolds == Init => IInv
<1>1. 0 \in 0 .. MaxSaves /\ 0 \in 0 .. LedPeriod /\ MaxAge \in 0 .. MaxAge
  BY Numbers
<1>2. Init => TypeOK
  BY <1>1, Zero, Zenon DEF Init, TypeOK, States
<1>3. Init => Saves
  BY DEF Init, Saves, NoneLost, Owed, StateOfSave
<1>4. Init => Sessions
  BY DEF Init, Sessions, StartIsTrue, LedClockIsTrue, AgeBounded
<1>5. QED
  BY <1>2, <1>3, <1>4 DEF IInv

\* A step that leaves the saves alone, and one that leaves the session alone.
LEMMA SavesUnchanged == ASSUME Saves, UNCHANGED save PROVE Saves'
BY DEF Saves, NoneLost, Owed, StateOfSave, save

LEMMA SessionsUnchanged == ASSUME Sessions, UNCHANGED <<session, led,
clocks>> PROVE Sessions'
BY DEF Sessions, StartIsTrue, LedClockIsTrue, AgeBounded, Ago, session, led, clocks

LEMMA TickHolds == ASSUME IInv, Tick PROVE IInv'
<1>1. (millis + 1) % Wrap = IF millis + 1 < Wrap THEN millis + 1 ELSE 0
  BY WrapsOnce, TimesAssumption DEF IInv, TypeOK, Times
<1>2. TypeOK'
  BY <1>1, Numbers
  DEF IInv, TypeOK, Tick, Times, save, session, led, LedClockIsTrue, Sessions
<1>3. Saves'
  BY SavesUnchanged DEF IInv, Tick
<1>4. Sessions'
  <2>1. sessionActive => age < MaxAge
    BY Numbers DEF IInv, Sessions, AgeBounded, LedClockIsTrue, TypeOK
  <2>2. StartIsTrue'
    <3>1. age \in Int /\ millis \in 0 .. Wrap - 1 /\ sessionStarted \in 0 .. Wrap - 1
      BY DEF IInv, TypeOK, Times
    <3>2. sessionActive => Ago(sessionStarted, age) /\ age < MaxAge
      BY <2>1 DEF IInv, Sessions, StartIsTrue
    <3>3. sessionActive => age' = age + 1 /\ age < Wrap
      BY <3>2, Numbers DEF IInv, Sessions, AgeBounded, LedClockIsTrue, TypeOK, Tick
    <3>4. millis' = (IF millis + 1 < Wrap THEN millis + 1 ELSE 0)
          /\ UNCHANGED <<sessionActive, sessionStarted>>
      BY <1>1 DEF Tick, session
    <3>5. ASSUME sessionActive PROVE Ago(sessionStarted, age)'
      BY <3>1, <3>2, <3>3, <3>4, <3>5, Numbers DEF Ago
    <3>6. QED
      BY <3>4, <3>5 DEF StartIsTrue
  <2>3. LedClockIsTrue'
    BY <1>1, Numbers DEF IInv, Sessions, LedClockIsTrue, Ago, Tick, led, TypeOK, Times
  <2>4. AgeBounded'
    BY <2>1, Numbers DEF IInv, Sessions, AgeBounded, Tick, led, session, TypeOK
  <2>5. QED
    BY <2>2, <2>3, <2>4 DEF Sessions
<1>5. QED
  BY <1>2, <1>3, <1>4 DEF IInv

LEMMA ChipHolds == ASSUME IInv, ChipChanges PROVE IInv'
<1>1. TypeOK'
  BY DEF IInv, TypeOK, ChipChanges, save, session, led, clocks
<1>2. QED
  BY <1>1, SavesUnchanged, SessionsUnchanged DEF IInv, ChipChanges

-----------------------------------------------------------------------------
\* The link task.

LEMMA StartHolds == ASSUME IInv, Start PROVE IInv'
<1>1. TypeOK'
  BY Numbers DEF IInv, TypeOK, Start, save, led
<1>2. Saves'
  BY SavesUnchanged DEF IInv, Start
<1>3. Sessions'
  BY Numbers
  DEF IInv, Sessions, StartIsTrue, LedClockIsTrue, AgeBounded, Ago, Start, led,
     TypeOK, Times
<1>4. QED
  BY <1>1, <1>2, <1>3 DEF IInv

\* A session that is stopped, by whomever, leaves the rest as it is.
LEMMA SessionStopped ==
  ASSUME IInv, sessionActive' \in BOOLEAN, sessionActive' => sessionActive,
         UNCHANGED <<calibrated, save, led, clocks, sessionStarted>>
  PROVE  IInv'
<1>1. TypeOK'
  BY DEF IInv, TypeOK, save, led, clocks
<1>2. Sessions'
  BY DEF IInv, Sessions, StartIsTrue, LedClockIsTrue, AgeBounded, Ago, led, clocks
<1>3. QED
  BY <1>1, <1>2, SavesUnchanged DEF IInv

LEMMA StopHolds == ASSUME IInv, Stop \/ PublishStatus PROVE IInv'
<1>1. sessionActive' \in BOOLEAN /\ (sessionActive' => sessionActive)
  BY Zenon DEF Stop, PublishStatus, IInv, TypeOK
<1>2. QED
  BY <1>1, SessionStopped DEF Stop, PublishStatus

LEMMA RequestHolds == ASSUME IInv, RequestSave PROVE IInv'
<1> USE DEF RequestSave, Busy, BusyAtAll
<1>1. TypeOK'
  BY Numbers DEF IInv, TypeOK, session, led, clocks
<1>2. Saves'
  BY DEF IInv, Saves, NoneLost, Owed, StateOfSave, TypeOK
<1>3. QED
  BY <1>1, <1>2, SessionsUnchanged DEF IInv

-----------------------------------------------------------------------------
\* The IMU task.

LEMMA ImuTaskHolds == ASSUME IInv, ImuTask PROVE IInv'
<1>1. ASSUME Claim PROVE IInv'
  <2>1. TypeOK'
    BY <1>1 DEF Claim, Exchanged, IInv, TypeOK, session, led, clocks
  <2>2. Saves'
    BY <1>1 DEF Claim, Exchanged, IInv, TypeOK, Saves, NoneLost, Owed, StateOfSave
  <2>3. QED
    BY <1>1, <2>1, <2>2, SessionsUnchanged DEF Claim, IInv
<1>2. ASSUME BeginSave PROVE IInv'
  <2>1. TypeOK' /\ Saves'
    BY <1>2
    DEF BeginSave, IInv, TypeOK, States, Saves, NoneLost, Owed, StateOfSave, session,
       led, clocks
  <2>2. QED
    BY <1>2, <2>1, SessionsUnchanged DEF BeginSave, IInv
<1>3. ASSUME StoreOutcome PROVE IInv'
  <2>1. TypeOK' /\ Saves'
    BY <1>3
    DEF StoreOutcome, Outcome, IInv, TypeOK, States, Saves, NoneLost, Owed, StateOfSave,
       session, led, clocks
  <2>2. QED
    BY <1>3, <2>1, SessionsUnchanged DEF StoreOutcome, IInv
<1>4. ASSUME Count PROVE IInv'
  <2>1. Saves'
    BY <1>4 DEF Count, IInv, TypeOK, Saves, NoneLost, Owed, StateOfSave
  <2>2. TypeOK'
    BY <1>4, Numbers
    DEF Count, IInv, TypeOK, Saves, NoneLost, Owed, session, led, clocks
  <2>3. QED
    BY <1>4, <2>1, <2>2, SessionsUnchanged DEF Count, IInv
<1>5. ASSUME EndSave PROVE IInv'
  <2>1. TypeOK' /\ Saves'
    BY <1>5
    DEF EndSave, IInv, TypeOK, States, Saves, NoneLost, Owed, StateOfSave, led, clocks
  <2>2. Sessions'
    BY <1>5
    DEF EndSave, IInv, TypeOK, Sessions, StartIsTrue, LedClockIsTrue, AgeBounded, Ago,
       led, clocks
  <2>3. QED
    BY <2>1, <2>2 DEF IInv
<1>6. QED
  BY <1>1, <1>2, <1>3, <1>4, <1>5 DEF ImuTask

-----------------------------------------------------------------------------
\* The LED task.

LEMMA LedWakesHolds == ASSUME IInv, LedWakes PROVE IInv'
<1>1. TypeOK'
  BY Numbers DEF LedWakes, IInv, TypeOK, save, session
<1>2. Sessions'
  BY Numbers DEF LedWakes, IInv, TypeOK, Times, Sessions, StartIsTrue, LedClockIsTrue,
     AgeBounded, Ago, session
<1>3. QED
  BY <1>1, <1>2, SavesUnchanged DEF LedWakes, IInv

LEMMA LedLoadsActiveHolds == ASSUME IInv, LedLoadsActive PROVE IInv'
<1>1. TypeOK'
  BY Numbers DEF LedLoadsActive, LedReturn, IInv, TypeOK, Times, save, session, clocks
<1>2. Sessions'
  BY Numbers DEF LedLoadsActive, LedReturn, IInv, TypeOK, Sessions, StartIsTrue,
     LedClockIsTrue, AgeBounded, Ago, session, clocks
<1>3. QED
  BY <1>1, <1>2, SavesUnchanged DEF LedLoadsActive, IInv

\* sessionActive() of a session that started before the LED task woke sees how old it
\* was then: one it does not stop is young.
LEMMA LedLoadsStartedHolds == ASSUME IInv, LedLoadsStarted PROVE IInv'
<1>1. TypeOK'
  BY Numbers DEF LedLoadsStarted, LedReturn, IInv, TypeOK, Times, save, session, clocks
<1>2. ASSUME sessionActive, ~Expired
      PROVE  age <= SessionTimeout + sinceLed
  <2>1. CASE age < sinceLed
    BY <2>1, Numbers DEF IInv, TypeOK
  <2>2. CASE age >= sinceLed
    <3>1. /\ age - sinceLed \in 0 .. Wrap - 1
          /\ \/ ledNow - sessionStarted = age - sinceLed
             \/ ledNow - sessionStarted = (age - sinceLed) - Wrap
      BY <1>2, <2>2, Numbers
      DEF LedLoadsStarted, IInv, TypeOK, Times, Sessions, StartIsTrue, LedClockIsTrue,
          AgeBounded, Ago
    <3>2. Elapsed(ledNow, sessionStarted) = age - sinceLed
      BY <3>1, ElapsedIsExact DEF IInv, TypeOK
    <3>3. QED
      BY <1>2, <3>2, Numbers DEF Expired, PastTimeout, IInv, TypeOK
  <2>3. QED
    BY <2>1, <2>2 DEF IInv, TypeOK
<1>3. StartIsTrue' /\ LedClockIsTrue'
  BY
  DEF LedLoadsStarted, LedReturn, IInv, Sessions, StartIsTrue, LedClockIsTrue, Ago,
      session,
     clocks
<1>4. AgeBounded'
  <2>1. CASE Expired
    BY <2>1 DEF LedLoadsStarted, IInv, Sessions, AgeBounded, session, clocks
  <2>2. CASE ~Expired
    BY <1>2, <2>2, Numbers
    DEF LedLoadsStarted, LedReturn, IInv, TypeOK, AgeBounded, session, clocks
  <2>3. QED
    BY <2>1, <2>2
<1>5. QED
  BY <1>1, <1>3, <1>4, SavesUnchanged DEF LedLoadsStarted, IInv, Sessions

LEMMA LedStopsHolds == ASSUME IInv, LedStopsSession PROVE IInv'
<1>1. TypeOK'
  BY Zero DEF LedStopsSession, LedReturn, IInv, TypeOK, save, clocks
<1>2. Sessions'
  BY DEF LedStopsSession, LedReturn, Sessions, StartIsTrue, LedClockIsTrue, AgeBounded
<1>3. QED
  BY <1>1, <1>2, SavesUnchanged DEF LedStopsSession, IInv

-----------------------------------------------------------------------------
LEMMA StutterHolds == ASSUME IInv, UNCHANGED vars PROVE IInv'
<1>1. TypeOK'
  BY DEF IInv, TypeOK, vars, save, session, led, clocks
<1>2. QED
  BY <1>1, SavesUnchanged, SessionsUnchanged DEF IInv, vars

LEMMA StepHolds == IInv /\ [Next]_vars => IInv'
BY TickHolds, ChipHolds, StartHolds, StopHolds, RequestHolds, ImuTaskHolds,
LedWakesHolds,
   LedLoadsActiveHolds, LedLoadsStartedHolds, LedStopsHolds, StutterHolds
DEF Next, LinkTask, LedTask

LEMMA Inductive == Spec => []IInv
BY InitHolds, StepHolds, PTL DEF Spec

-----------------------------------------------------------------------------
\* g_control, the clocks and the three tasks keep their types.
THEOREM TypeCorrect == Spec => []TypeOK
<1>1. IInv => TypeOK
  BY DEF IInv
<1>2. QED
  BY <1>1, Inductive, PTL

\* serviceSave() stores the outcome before it counts the save: a status report never
\* shows an older outcome with a new save_seq.
THEOREM StatusIsTrue == Spec => []StatusTellsOutcome
<1>1. IInv => StatusTellsOutcome
  BY DEF IInv, TypeOK, Saves, NoneLost, Owed, StateOfSave, StatusTellsOutcome
<1>2. QED
  BY <1>1, Inductive, PTL

\* sessionActive() ends a session its host forgot within a period of the LED task after
\* kSessionTimeoutMs, also when millis() wraps in between.
THEOREM SessionsEnd == Spec => []SessionBounded
<1>1. IInv => SessionBounded
  BY Numbers DEF IInv, TypeOK, Sessions, AgeBounded, LedClockIsTrue, SessionBounded
<1>2. QED
  BY <1>1, Inductive, PTL
-----------------------------------------------------------------------------
\* The driver under the calibration: the cycle of the IMU task on its bus.

\* A read runs only while update() waits for it, and has not completed then.
ReadIsAwaited == xfer = "running" => pc \in {"wait", "late"} /\ ~doneSem

\* update() starts with the semaphore drained and the result cleared ...
StartsClean ==
  /\ pc \in {"drain", "start"} => ~xferOk
  /\ pc = "start" => ~doneSem

\* ... so that what it takes is the completion of its own read.
CompletionIsOurs ==
  /\ pc = "wait" /\ doneSem => xfer = "none" /\ xferOk /\ buf = "new"
  /\ pc = "check" => xfer = "none" /\ xferOk /\ buf = "new"

DriverInv ==
  /\ DriverTypeOK /\ ReadIsAwaited /\ StartsClean /\ CompletionIsOurs
  /\ FusionUnlessFailed

LEMMA DriverInitHolds == DriverInit => DriverInv
BY DEF DriverInit, DriverInv, DriverTypeOK, ReadIsAwaited, StartsClean,
       CompletionIsOurs, FusionUnlessFailed

LEMMA DriverSaveHolds ==
  ASSUME DriverInv, Save
  PROVE  DriverInv'
<1> USE DEF dma, DriverInv, DriverTypeOK, ReadIsAwaited, StartsClean,
       CompletionIsOurs, FusionUnlessFailed
<1>1. ASSUME SaveBegins PROVE DriverInv'
  BY <1>1 DEF SaveBegins, chip
<1>2. ASSUME ToConfig PROVE DriverInv'
  BY <1>2 DEF ToConfig, WriteMode
<1>3. ASSUME ReadOffsets PROVE DriverInv'
  BY <1>3 DEF ReadOffsets
<1>4. ASSUME ToNdof PROVE DriverInv'
  BY <1>4 DEF ToNdof, WriteMode, BackTo, SaveResult, IfReadAndBack
<1>5. QED
  BY <1>1, <1>2, <1>3, <1>4 DEF Save

LEMMA DriverUpdateHolds ==
  ASSUME DriverInv, Update
  PROVE  DriverInv'
<1> USE DEF chip, DriverInv, DriverTypeOK, ReadIsAwaited, StartsClean,
       CompletionIsOurs, FusionUnlessFailed
<1>1. ASSUME NoSave PROVE DriverInv'
  BY <1>1 DEF NoSave, dma
<1>2. ASSUME Reset PROVE DriverInv'
  BY <1>2 DEF Reset
<1>3. ASSUME Drain PROVE DriverInv'
  BY <1>3 DEF Drain, AfterDrain, Drained
<1>4. ASSUME StartRead PROVE DriverInv'
  BY <1>4 DEF StartRead
<1>5. ASSUME StartFails PROVE DriverInv'
  BY <1>5 DEF StartFails, dma
<1>6. ASSUME Take PROVE DriverInv'
  BY <1>6 DEF Take
<1>7. ASSUME TimeOut PROVE DriverInv'
  BY <1>7 DEF TimeOut, dma
<1>8. ASSUME Abort PROVE DriverInv'
  BY <1>8 DEF Abort, AfterAbort, AbortStarted
<1>9. ASSUME Check PROVE DriverInv'
  BY <1>9 DEF Check, dma
<1>10. QED
  BY <1>1, <1>2, <1>3, <1>4, <1>5, <1>6, <1>7, <1>8, <1>9 DEF Update

LEMMA DriverBusHolds ==
  ASSUME DriverInv, Bus
  PROVE  DriverInv'
<1> USE DEF chip, DriverInv, DriverTypeOK, ReadIsAwaited, StartsClean,
       CompletionIsOurs, FusionUnlessFailed
<1>1. ASSUME Complete PROVE DriverInv'
  BY <1>1 DEF Complete
<1>2. ASSUME BusError PROVE DriverInv'
  BY <1>2 DEF BusError
<1>3. ASSUME Aborted PROVE DriverInv'
  BY <1>3 DEF Aborted
<1>4. QED
  BY <1>1, <1>2, <1>3 DEF Bus

LEMMA DriverStepHolds == DriverInv /\ [DriverNext]_driverVars => DriverInv'
<1> SUFFICES ASSUME DriverInv, [DriverNext]_driverVars PROVE DriverInv'
  OBVIOUS
<1>1. CASE UNCHANGED driverVars
  BY <1>1
  DEF driverVars, dma, chip, DriverInv, DriverTypeOK, ReadIsAwaited,
      StartsClean, CompletionIsOurs, FusionUnlessFailed
<1>2. CASE DriverNext
  BY <1>2, DriverSaveHolds, DriverUpdateHolds, DriverBusHolds DEF DriverNext
<1>3. QED
  BY <1>1, <1>2

-----------------------------------------------------------------------------
\* The task, the DMA, the buffer and the chip's mode keep their types.
THEOREM DriverTypeCorrect == DriverSpec => []DriverTypeOK
<1>1. DriverInv => DriverTypeOK
  BY DEF DriverInv
<1>2. QED
  BY DriverInitHolds, DriverStepHolds, <1>1, PTL DEF DriverSpec

\* A calibration save has the bus to itself, though it never asks whether the DMA is
\* done: whatever a read that timed out left behind is being aborted at most.
THEOREM SaveHasTheBus == DriverSpec => []BusIsOurs
<1>1. DriverInv => BusIsOurs
  BY DEF DriverInv, ReadIsAwaited, BusIsOurs
<1>2. QED
  BY DriverInitHolds, DriverStepHolds, <1>1, PTL DEF DriverSpec

\* What update() publishes is its own, complete block, however late the completion
\* of an earlier read comes.
THEOREM OnlyFreshSamples == DriverSpec => FreshSample
<1>1. DriverInv /\ [DriverNext]_driverVars
      => [Publish => buf = "new" /\ xfer = "none"]_driverVars
  BY DEF DriverInv, CompletionIsOurs, Publish, Check
<1>2. QED
  BY DriverInitHolds, DriverStepHolds, <1>1, PTL DEF DriverSpec, FreshSample

\* A chip is left without orientation only by a save whose caller was told so.
THEOREM FusionRestored == DriverSpec => []FusionUnlessFailed
<1>1. DriverInv => FusionUnlessFailed
  BY DEF DriverInv
<1>2. QED
  BY DriverInitHolds, DriverStepHolds, <1>1, PTL DEF DriverSpec
=============================================================================
