--------------------------- MODULE ImuCalibration ---------------------------
(***************************************************************************)
(* The runtime calibration of the MCU: imu_calibration::g_control and the  *)
(* three tasks that meet in it.  The link task takes commands and reports  *)
(* the status; it outranks the other two, so what it does is one step.     *)
(* The IMU task services saves, the LED task shows and expires sessions;   *)
(* each of their atomic operations is a step of its own.                   *)
(***************************************************************************)
EXTENDS Integers

CONSTANTS
  Wrap,            \* range of millis()
  SessionTimeout,  \* kSessionTimeoutMs
  LedPeriod,       \* period of the LED task
  MaxLed,          \* longest the LED task takes, preemptions included
  MaxSaves,        \* bound of the model: save requests accepted
  MaxAge           \* bound of the model: the age of a session is told apart up to it

ASSUME TimesAssumption ==
  /\ {Wrap, SessionTimeout, LedPeriod, MaxSaves, MaxAge} \subseteq Nat \ {0}
  /\ MaxLed \in Nat /\ MaxLed < LedPeriod
  /\ SessionTimeout + LedPeriod + MaxLed < Wrap
  /\ SessionTimeout + LedPeriod + MaxLed < MaxAge

VARIABLES
  millis,
  calibrated,     \* calibrationStatus(): read and fully calibrated
  saveRequested,  \* save_requested
  state,          \* state: none, saving, saved, rejected or failed
  sessionActive,  \* session_active
  sessionStarted, \* session_started_ms
  imuPc,          \* IMU task: idle, claimed, saving, stored, counted
  result,         \* serviceSave()'s local; none outside it
  ledPc,          \* LED task in sessionActive(): idle, called, active, expired
  ledNow          \* its argument; 0 outside it

\* save_seq counts the saves completed.  History: the saves accepted, the outcome
\* of the last one completed, time since the LED task woke and since the session
\* was last started.
VARIABLES saveSeq, accepted, lastResult, sinceLed, age

save == <<saveRequested, state, saveSeq, accepted, lastResult, imuPc, result>>
session == <<sessionActive, sessionStarted>>
led == <<ledPc, ledNow>>
clocks == <<millis, sinceLed, age>>
vars == <<calibrated, save, session, led, clocks>>

Elapsed(a, b) == (a - b) % Wrap

Init ==
  /\ millis = 0
  /\ calibrated \in BOOLEAN
  /\ saveRequested = FALSE /\ state = "none" /\ saveSeq = 0
  /\ sessionActive = FALSE /\ sessionStarted = 0
  /\ imuPc = "idle" /\ result = "none"
  /\ ledPc = "idle" /\ ledNow = 0
  /\ accepted = 0 /\ lastResult = "none" /\ sinceLed = 0 /\ age = MaxAge

Tick ==
  /\ sinceLed < (IF ledPc = "idle" THEN LedPeriod ELSE MaxLed)
  /\ millis' = (millis + 1) % Wrap
  /\ sinceLed' = sinceLed + 1
  /\ age' = IF age < MaxAge THEN age + 1 ELSE MaxAge
  /\ UNCHANGED <<calibrated, save, session, led>>

\* The chip calibrates, and loses calibration, as the robot moves.
ChipChanges ==
  /\ calibrated' = ~calibrated
  /\ UNCHANGED <<save, session, led, clocks>>

-----------------------------------------------------------------------------
\* Link task: ImuCalibrationCommand::onMessage.

\* startSession().
Start ==
  /\ sessionActive' = TRUE /\ sessionStarted' = millis
  /\ age' = 0
  /\ UNCHANGED <<calibrated, save, led, millis, sinceLed>>

Stop ==
  /\ sessionActive' = FALSE
  /\ UNCHANGED <<calibrated, save, led, clocks, sessionStarted>>

\* kSave: taken unless the chip is not calibrated or a save is under way.  A
\* request that is not taken changes nothing.
BusySaving == state = "saving"
BusyAtAll == saveRequested \/ state = "saving"
Busy == BusyAtAll

RequestSave ==
  /\ calibrated /\ ~Busy
  /\ accepted < MaxSaves
  /\ saveRequested' = TRUE
  /\ accepted' = accepted + 1
  /\ UNCHANGED <<calibrated, state, saveSeq, lastResult, imuPc, result, session, led,
                 clocks>>

\* MavlinkImuCalibrationPublisher::publish(): its sessionActive() retires an
\* expired session too.
PublishStatus ==
  /\ sessionActive' = (sessionActive /\ Elapsed(millis, sessionStarted) <= SessionTimeout)
  /\ UNCHANGED <<calibrated, save, led, clocks, sessionStarted>>

-----------------------------------------------------------------------------
\* IMU task.

\* save_requested.exchange(false).
LoadOnly == saveRequested
Exchanged == FALSE

Claim ==
  /\ imuPc = "idle" /\ saveRequested
  /\ saveRequested' = Exchanged
  /\ imuPc' = "claimed"
  /\ UNCHANGED <<calibrated, state, saveSeq, accepted, lastResult, result, session, led,
                 clocks>>

\* serviceSave() up to the first check.
BeginSave ==
  /\ imuPc = "claimed"
  /\ state' = "saving"
  /\ imuPc' = "saving"
  /\ UNCHANGED <<calibrated, saveRequested, saveSeq, accepted, lastResult, result,
                 session, led, clocks>>

\* What state holds once the outcome is known.
OnSuccessOnly(r) == IF r = "saved" THEN r ELSE state
Outcome(r) == r

\* The status is read again; reading the offsets and the flash may fail.
StoreOutcome ==
  /\ imuPc = "saving"
  /\ result' \in IF calibrated THEN {"saved", "failed"} ELSE {"rejected"}
  /\ state' = Outcome(result')
  /\ imuPc' = "stored"
  /\ UNCHANGED <<calibrated, saveRequested, saveSeq, accepted, lastResult, session, led,
                 clocks>>

\* Counted last: whoever sees save_seq move reads the outcome it counts.
Count ==
  /\ imuPc = "stored"
  /\ saveSeq' = saveSeq + 1
  /\ lastResult' = result
  /\ imuPc' = "counted"
  /\ UNCHANGED <<calibrated, saveRequested, state, accepted, result, session, led, clocks>>

\* A save that succeeded ends the session.
EndSave ==
  /\ imuPc = "counted"
  /\ sessionActive' = (sessionActive /\ result # "saved")
  /\ imuPc' = "idle" /\ result' = "none"
  /\ UNCHANGED <<calibrated, saveRequested, state, saveSeq, accepted, lastResult,
                 sessionStarted, led, clocks>>

-----------------------------------------------------------------------------
\* LED task: sessionActive(millis()).

LedReturn == ledPc' = "idle" /\ ledNow' = 0

LedWakes ==
  /\ ledPc = "idle" /\ sinceLed = LedPeriod
  /\ ledNow' = millis
  /\ ledPc' = "called"
  /\ sinceLed' = 0
  /\ UNCHANGED <<calibrated, save, session, millis, age>>

LedLoadsActive ==
  /\ ledPc = "called"
  /\ IF sessionActive THEN ledPc' = "active" /\ UNCHANGED ledNow ELSE LedReturn
  /\ UNCHANGED <<calibrated, save, session, clocks>>

\* Expired by the clock the call was given.
PastDeadline == ledNow > sessionStarted + SessionTimeout
PastTimeout == Elapsed(ledNow, sessionStarted) > SessionTimeout
Expired == PastTimeout

LedLoadsStarted ==
  /\ ledPc = "active"
  /\ IF Expired THEN ledPc' = "expired" /\ UNCHANGED ledNow ELSE LedReturn
  /\ UNCHANGED <<calibrated, save, session, clocks>>

LedStopsSession ==
  /\ ledPc = "expired"
  /\ sessionActive' = FALSE
  /\ LedReturn
  /\ UNCHANGED <<calibrated, save, clocks, sessionStarted>>

-----------------------------------------------------------------------------
LinkTask == Start \/ Stop \/ RequestSave \/ PublishStatus
ImuTask == Claim \/ BeginSave \/ StoreOutcome \/ Count \/ EndSave
LedTask == LedWakes \/ LedLoadsActive \/ LedLoadsStarted \/ LedStopsSession

Next == Tick \/ ChipChanges \/ LinkTask \/ ImuTask \/ LedTask

Spec == Init /\ [][Next]_vars

\* The two tasks are periodic; commands and status reports depend on the host.
FairSpec == Spec /\ WF_vars(Tick) /\ WF_vars(ImuTask) /\ WF_vars(LedTask)

-----------------------------------------------------------------------------
States == {"none", "saving", "saved", "rejected", "failed"}
Times == 0 .. Wrap - 1

TypeOK ==
  /\ millis \in Times
  /\ calibrated \in BOOLEAN
  /\ saveRequested \in BOOLEAN /\ state \in States
  /\ sessionActive \in BOOLEAN /\ sessionStarted \in Times
  /\ imuPc \in {"idle", "claimed", "saving", "stored", "counted"} /\ result \in States
  /\ ledPc \in {"idle", "called", "active", "expired"} /\ ledNow \in Times
  /\ saveSeq \in 0 .. MaxSaves /\ accepted \in 0 .. MaxSaves /\ lastResult \in States
  /\ sinceLed \in 0 .. LedPeriod /\ age \in 0 .. MaxAge

\* Whenever the status is reported, state tells of a save that is still owed, or
\* the outcome of the one save_seq counts (or is about to): a host that waits for
\* save_seq to move never reads an older outcome with it.
StatusTellsOutcome ==
  \/ state = "saving" /\ saveSeq < accepted
  \/ imuPc = "stored" /\ state = result
  \/ state = lastResult

\* A session the host forgot ends, whenever the clock wraps, within a period of
\* the LED task after its timeout.
SessionBounded == sessionActive => age <= SessionTimeout + LedPeriod + MaxLed

\* Every save request accepted is carried out, a save of its own, though one can
\* be accepted while the IMU task has claimed another and not yet begun it.
EveryRequestServed ==
  \A n \in 1 .. MaxSaves : accepted >= n ~> saveSeq >= n
=============================================================================
