--------------------------- MODULE MotorArrayProofs ---------------------------
(***************************************************************************)
(* For any number of motors, any speeds and any timing constants: a        *)
(* control cycle never mixes the setpoints of two messages, a braked wheel *)
(* moves again only on a setpoint written after the brake, no wheel moves  *)
(* on a stale command, and the fault latch holds until the pin was quiet.  *)
(***************************************************************************)
EXTENDS MotorArray, TLAPS

\* The mutex excludes the two loops over the motors.
MutexHeld ==
  /\ cpc = "motor" <=> mutex = "control"
  /\ lpc \in {"set", "feed"} <=> mutex = "link"

\* While setVelocities() is not writing them, targets that are not zero are equal;
\* while it is, those already written are the new setpoint.
TargetsAgree ==
  lpc # "set" => \A m, k \in Motors : target[m] # 0 /\ target[k] # 0 => target[m] = target[k]
TargetsWritten == lpc = "set" => \A m \in Motors : m < setMotor => target[m] = setpoint

\* While update() is not driving them, wheels that move agree; while it is, those
\* already driven follow their targets.
GoalsAgree ==
  cpc # "motor" => \A m, k \in Motors : goal[m] # 0 /\ goal[k] # 0 => goal[m] = goal[k]
GoalsFollow ==
  cpc = "motor" => \A m \in Motors : m < nextMotor /\ goal[m] # 0 => goal[m] = target[m]

\* A target is zero, or newer than the last brake.
TargetsFresh == \A m \in Motors : target[m] # 0 => fresh[m]

IInv ==
  /\ TypeOK /\ MutexHeld
  /\ TargetsAgree /\ TargetsWritten /\ GoalsAgree /\ GoalsFollow /\ TargetsFresh

USE MotorsAssumption, SpeedsAssumption, TimesAssumption

-----------------------------------------------------------------------------
LEMMA Remainder ==
  ASSUME NEW a \in Int, NEW n \in Nat \ {0}
  PROVE  a % n \in 0 .. n - 1
OBVIOUS

LEMMA OlderTyped ==
  ASSUME NEW cap \in Nat, NEW t \in 0 .. cap
  PROVE  Older(t, cap) \in 0 .. cap
BY DEF Older

LEMMA Constants ==
  /\ Wrap \in Nat \ {0} /\ FaultClear \in Nat \ {0} /\ FaultAssert \in Nat \ {0}
  /\ Period \in Nat \ {0} /\ MaxAge \in Nat \ {0}
  /\ MaxCycle \in Nat /\ MaxHold \in Nat /\ MaxCycle < Period
  /\ 1 \in Motors /\ 0 \in Speeds
BY DEF Motors

LEMMA InitHolds == Init => IInv
<1>1. SUFFICES ASSUME Init PROVE IInv
  OBVIOUS
<1>2. /\ 0 \in 0 .. Wrap - 1 /\ 0 \in 0 .. FaultAssert /\ 0 \in 0 .. Period
      /\ 0 \in 0 .. MaxHold /\ MaxAge \in 0 .. MaxAge /\ FaultClear \in 0 .. FaultClear
      /\ 1 \in Motors /\ 0 \in Speeds
  BY Constants
<1>3. TypeOK
  BY <1>1, <1>2, Zenon DEF Init, TypeOK
<1>4. QED
  BY <1>1, <1>3 DEF Init, IInv, MutexHeld, TargetsAgree, TargetsWritten, GoalsAgree,
     GoalsFollow, TargetsFresh

-----------------------------------------------------------------------------
\* The invariant but for its types.
Rest == MutexHeld /\ TargetsAgree /\ TargetsWritten /\ GoalsAgree /\ GoalsFollow /\ TargetsFresh

\* A step that leaves the mutex, the loops, the targets and the goals alone.
LEMMA RestUnchanged ==
  ASSUME Rest, UNCHANGED <<cpc, nextMotor, lpc, setpoint, setMotor, mutex, target, goal, fresh>>
  PROVE  Rest'
BY DEF Rest, MutexHeld, TargetsAgree, TargetsWritten, GoalsAgree, GoalsFollow, TargetsFresh

LEMMA TickHolds ==
  ASSUME IInv, Tick
  PROVE  IInv'
<1>1. millis' \in 0 .. Wrap - 1
  <2>1. millis + 1 \in Int /\ Wrap \in Nat \ {0}
    BY Constants DEF IInv, TypeOK
  <2>2. (millis + 1) % Wrap \in 0 .. Wrap - 1
    BY <2>1, Remainder
  <2>3. QED
    BY <2>2 DEF Tick
<1>2. /\ cmdAge' \in 0 .. MaxAge /\ quiet' \in 0 .. FaultClear
      /\ sinceWake' \in 0 .. Period /\ held' \in 0 .. MaxHold
  <2>1. /\ cmdAge \in 0 .. MaxAge /\ quiet \in 0 .. FaultClear
        /\ sinceWake \in 0 .. Period /\ held \in 0 .. MaxHold
    BY DEF IInv, TypeOK
  <2>2. Older(cmdAge, MaxAge) \in 0 .. MaxAge /\ Older(quiet, FaultClear) \in 0 .. FaultClear
    BY <2>1, Constants, OlderTyped
  <2>3. sinceWake' \in 0 .. Period /\ held' \in 0 .. MaxHold
    BY <2>1, Constants DEF Tick
  <2>4. QED
    BY <2>2, <2>3 DEF Tick
<1>3. TypeOK'
  BY <1>1, <1>2 DEF Tick, IInv, TypeOK, control, link, watchdog, latch
<1>4. Rest'
  BY RestUnchanged DEF Tick, IInv, Rest, control, link
<1>5. QED
  BY <1>3, <1>4 DEF IInv, Rest

LEMMA WakeHolds ==
  ASSUME IInv, Wake
  PROVE  IInv'
<1>1. /\ latched' \in BOOLEAN /\ lastFault' \in 0 .. Wrap - 1
      /\ faultCycles' \in 0 .. FaultAssert /\ quiet' \in 0 .. FaultClear
  <2>1. /\ latched \in BOOLEAN /\ lastFault \in 0 .. Wrap - 1 /\ millis \in 0 .. Wrap - 1
        /\ faultCycles \in 0 .. FaultAssert /\ quiet \in 0 .. FaultClear
    BY DEF IInv, TypeOK
  <2>2. CyclesCapped \in 0 .. FaultAssert
    BY <2>1, Constants DEF CyclesCapped
  <2>3. CASE FaultRead
    BY <2>1, <2>2, <2>3, Constants DEF FaultRead, LastFaultNow
  <2>4. CASE NoFaultRead
    BY <2>1, <2>4, Constants DEF NoFaultRead
  <2>5. QED
    BY <2>3, <2>4 DEF Wake
<1>2. TypeOK'
  BY <1>1 DEF Wake, IInv, TypeOK, link, watchdog
<1>3. MutexHeld'
  BY DEF Wake, IInv, MutexHeld, link
<1>4. Rest'
  BY <1>3 DEF Wake, IInv, Rest, TargetsAgree, TargetsWritten, GoalsAgree, GoalsFollow,
     TargetsFresh, link
<1>5. QED
  BY <1>2, <1>4 DEF IInv, Rest

LEMMA ControlMutexHolds ==
  ASSUME IInv, ControlTakes \/ ControlTimesOut
  PROVE  IInv'
<1>1. 1 \in Motors /\ \A m \in Motors : ~(m < 1)
  BY DEF Motors
<1>2. CASE ControlTakes
  <2>1. TypeOK'
    BY <1>1, <1>2 DEF ControlTakes, IInv, TypeOK, link, watchdog, latch, clocks
  <2>2. Rest'
    BY <1>1, <1>2 DEF ControlTakes, IInv, Rest, MutexHeld, TargetsAgree, TargetsWritten,
       GoalsAgree, GoalsFollow, TargetsFresh, link
  <2>3. QED
    BY <2>1, <2>2 DEF IInv, Rest
<1>3. CASE ControlTimesOut
  <2>1. TypeOK'
    BY <1>3 DEF ControlTimesOut, IInv, TypeOK, link, watchdog, latch, clocks
  <2>2. Rest'
    BY <1>3 DEF ControlTimesOut, IInv, Rest, MutexHeld, TargetsAgree, TargetsWritten,
       GoalsAgree, GoalsFollow, TargetsFresh, link
  <2>3. QED
    BY <2>1, <2>2 DEF IInv, Rest
<1>4. QED
  BY <1>2, <1>3

\* One motor driven or braked: in either case its goal is zero or its target, and
\* its target is kept or zero.
LEMMA MotorUpdated ==
  ASSUME IInv, UpdateMotor
  PROVE  /\ goal' = [goal EXCEPT ![nextMotor] = goal'[nextMotor]]
         /\ target' = [target EXCEPT ![nextMotor] = target'[nextMotor]]
         /\ fresh' = [fresh EXCEPT ![nextMotor] = fresh'[nextMotor]]
         /\ goal'[nextMotor] \in Speeds /\ target'[nextMotor] \in Speeds
         /\ fresh'[nextMotor] \in BOOLEAN
         /\ goal'[nextMotor] # 0 =>
              goal'[nextMotor] = target[nextMotor] /\ target'[nextMotor] = target[nextMotor]
         /\ target'[nextMotor] # 0 =>
              target'[nextMotor] = target[nextMotor] /\ fresh'[nextMotor] = fresh[nextMotor]
<1>1. /\ nextMotor \in Motors /\ 0 \in Speeds
      /\ goal \in [Motors -> Speeds] /\ target \in [Motors -> Speeds]
      /\ fresh \in [Motors -> BOOLEAN]
  BY DEF IInv, TypeOK
<1>2. CASE MayMove
  BY <1>1, <1>2 DEF UpdateMotor, Drive
<1>3. CASE ~MayMove
  BY <1>1, <1>3 DEF UpdateMotor, Brake, TargetAfterBrake
<1>4. QED
  BY <1>2, <1>3

LEMMA UpdateMotorHolds ==
  ASSUME IInv, UpdateMotor
  PROVE  IInv'
<1>1. /\ nextMotor \in Motors /\ cpc = "motor" /\ mutex = "control"
      /\ lpc \notin {"set", "feed"}
      /\ goal \in [Motors -> Speeds] /\ target \in [Motors -> Speeds]
      /\ fresh \in [Motors -> BOOLEAN]
  BY DEF IInv, TypeOK, MutexHeld, UpdateMotor
<1>2. /\ \A m \in Motors : m # nextMotor =>
           goal'[m] = goal[m] /\ target'[m] = target[m] /\ fresh'[m] = fresh[m]
      /\ goal' \in [Motors -> Speeds] /\ target' \in [Motors -> Speeds]
      /\ fresh' \in [Motors -> BOOLEAN]
  BY <1>1, MotorUpdated
<1>3. /\ \A m \in Motors : target'[m] # 0 => target'[m] = target[m] /\ fresh'[m] = fresh[m]
      /\ \A m \in Motors : m <= nextMotor /\ goal'[m] # 0 => goal'[m] = target'[m]
  <2>1. \A m \in Motors : m <= nextMotor /\ m # nextMotor => m < nextMotor
    BY <1>1 DEF Motors
  <2>2. QED
    BY <1>1, <1>2, <2>1, MotorUpdated DEF IInv, GoalsFollow
<1>4. UNCHANGED <<lpc, setpoint, setMotor>> /\ UNCHANGED <<watchdog, latch, clocks>>
  BY DEF UpdateMotor, link
<1>5. TargetsAgree' /\ TargetsWritten' /\ TargetsFresh'
  BY <1>1, <1>3, <1>4 DEF IInv, TargetsAgree, TargetsWritten, TargetsFresh
<1>6. CASE nextMotor = MotorCount
  <2>1. \A m \in Motors : m <= nextMotor
    BY <1>6 DEF Motors
  <2>2. /\ cpc' = "sleep" /\ mutex' = "free" /\ nextMotor' = 1 /\ fault' = FALSE
    BY <1>6 DEF UpdateMotor
  <2>3. GoalsAgree' /\ GoalsFollow'
    BY <1>1, <1>3, <1>4, <1>5, <2>1, <2>2 DEF GoalsAgree, GoalsFollow, TargetsAgree
  <2>4. MutexHeld' /\ 1 \in Motors
    BY <1>1, <1>4, <2>2 DEF MutexHeld, Motors
  <2>5. TypeOK'
    BY <1>2, <1>4, <2>2, <2>4 DEF IInv, TypeOK, watchdog, latch, clocks
  <2>6. QED
    BY <1>5, <2>3, <2>4, <2>5 DEF IInv
<1>7. CASE nextMotor # MotorCount
  <2>1. /\ nextMotor' = nextMotor + 1 /\ nextMotor + 1 \in Motors
        /\ \A m \in Motors : m < nextMotor + 1 => m <= nextMotor
    BY <1>1, <1>7 DEF UpdateMotor, Motors
  <2>2. UNCHANGED <<cpc, mutex, fault>>
    BY <1>7 DEF UpdateMotor
  <2>3. GoalsAgree' /\ GoalsFollow'
    BY <1>1, <1>3, <2>1, <2>2 DEF GoalsAgree, GoalsFollow
  <2>4. MutexHeld'
    BY <1>4, <2>2 DEF IInv, MutexHeld
  <2>5. TypeOK'
    BY <1>2, <1>4, <2>1, <2>2 DEF IInv, TypeOK, watchdog, latch, clocks
  <2>6. QED
    BY <1>5, <2>3, <2>4, <2>5 DEF IInv
<1>8. QED
  BY <1>6, <1>7

LEMMA CommandHolds ==
  ASSUME IInv, NEW v \in Speeds, Command(v)
  PROVE  IInv'
<1>1. TypeOK'
  BY DEF Command, IInv, TypeOK, control, watchdog, latch, clocks
<1>2. Rest'
  BY DEF Command, IInv, Rest, MutexHeld, TargetsAgree, TargetsWritten, GoalsAgree,
     GoalsFollow, TargetsFresh, control
<1>3. QED
  BY <1>1, <1>2 DEF IInv, Rest

LEMMA LinkMutexHolds ==
  ASSUME IInv, LinkTakes \/ LinkTimesOut
  PROVE  IInv'
<1>1. 1 \in Motors /\ \A m \in Motors : ~(m < 1)
  BY DEF Motors
<1>2. CASE LinkTakes
  <2>1. TypeOK'
    BY <1>1, <1>2 DEF LinkTakes, IInv, TypeOK, control, watchdog, latch
  <2>2. Rest'
    BY <1>1, <1>2 DEF LinkTakes, MutexFree, IInv, Rest, MutexHeld, TargetsAgree,
       TargetsWritten, GoalsAgree, GoalsFollow, TargetsFresh, control
  <2>3. QED
    BY <2>1, <2>2 DEF IInv, Rest
<1>3. CASE LinkTimesOut
  <2>1. TypeOK'
    BY <1>3 DEF LinkTimesOut, IInv, TypeOK, control, watchdog, latch, clocks
  <2>2. Rest'
    BY <1>3 DEF LinkTimesOut, IInv, Rest, MutexHeld, TargetsAgree, TargetsWritten,
       GoalsAgree, GoalsFollow, TargetsFresh, control
  <2>3. QED
    BY <2>1, <2>2 DEF IInv, Rest
<1>4. QED
  BY <1>2, <1>3

LEMMA SetVelocityHolds ==
  ASSUME IInv, SetVelocity
  PROVE  IInv'
<1>1. /\ setMotor \in Motors /\ setpoint \in Speeds /\ lpc = "set"
      /\ mutex = "link" /\ cpc # "motor"
      /\ target \in [Motors -> Speeds] /\ fresh \in [Motors -> BOOLEAN]
  BY DEF IInv, TypeOK, MutexHeld, SetVelocity
<1>2. /\ target' \in [Motors -> Speeds] /\ fresh' \in [Motors -> BOOLEAN]
      /\ \A m \in Motors : m # setMotor => target'[m] = target[m] /\ fresh'[m] = fresh[m]
      /\ target'[setMotor] = setpoint /\ fresh'[setMotor] = TRUE
  BY <1>1 DEF SetVelocity
<1>3. /\ TargetsFresh'
      /\ \A m \in Motors : m <= setMotor => target'[m] = setpoint
  <2>1. \A m \in Motors : m <= setMotor /\ m # setMotor => m < setMotor
    BY <1>1 DEF Motors
  <2>2. QED
    BY <1>1, <1>2, <2>1 DEF IInv, TargetsFresh, TargetsWritten
<1>4. /\ UNCHANGED <<setpoint, cpc, fault, nextMotor, goal, mutex>>
      /\ UNCHANGED <<watchdog, latch, clocks>>
  BY DEF SetVelocity, control
<1>5. GoalsAgree' /\ GoalsFollow'
  BY <1>1, <1>4 DEF IInv, GoalsAgree, GoalsFollow
<1>6. CASE setMotor = MotorCount
  <2>1. lpc' = "feed" /\ setMotor' = 1 /\ 1 \in Motors /\ \A m \in Motors : m <= setMotor
    BY <1>6 DEF SetVelocity, Motors
  <2>2. TargetsAgree' /\ TargetsWritten' /\ MutexHeld'
    BY <1>1, <1>3, <1>4, <2>1 DEF TargetsAgree, TargetsWritten, MutexHeld
  <2>3. TypeOK'
    BY <1>2, <1>4, <2>1 DEF IInv, TypeOK, watchdog, latch, clocks
  <2>4. QED
    BY <1>3, <1>5, <2>2, <2>3 DEF IInv
<1>7. CASE setMotor # MotorCount
  <2>1. /\ lpc' = "set" /\ setMotor' = setMotor + 1 /\ setMotor + 1 \in Motors
        /\ \A m \in Motors : m < setMotor + 1 => m <= setMotor
    BY <1>1, <1>7 DEF SetVelocity, Motors
  <2>2. TargetsAgree' /\ TargetsWritten' /\ MutexHeld'
    BY <1>1, <1>3, <1>4, <2>1 DEF TargetsAgree, TargetsWritten, MutexHeld
  <2>3. TypeOK'
    BY <1>2, <1>4, <2>1 DEF IInv, TypeOK, watchdog, latch, clocks
  <2>4. QED
    BY <1>3, <1>5, <2>2, <2>3 DEF IInv
<1>8. QED
  BY <1>6, <1>7

LEMMA FeedHolds ==
  ASSUME IInv, FeedAndGive
  PROVE  IInv'
<1>1. TypeOK'
  BY DEF FeedAndGive, SwitchedOn, IInv, TypeOK, control, latch
<1>2. Rest'
  BY DEF FeedAndGive, IInv, Rest, MutexHeld, TargetsAgree, TargetsWritten, GoalsAgree,
     GoalsFollow, TargetsFresh, control
<1>3. QED
  BY <1>1, <1>2 DEF IInv, Rest

LEMMA StutterHolds ==
  ASSUME IInv, UNCHANGED vars
  PROVE  IInv'
<1>1. TypeOK'
  BY DEF vars, IInv, TypeOK, control, link, watchdog, latch, clocks
<1>2. Rest'
  BY RestUnchanged DEF vars, IInv, Rest, control, link
<1>3. QED
  BY <1>1, <1>2 DEF IInv, Rest

LEMMA StepHolds == IInv /\ [Next]_vars => IInv'
BY TickHolds, WakeHolds, ControlMutexHolds, UpdateMotorHolds, CommandHolds, LinkMutexHolds,
   SetVelocityHolds, FeedHolds, StutterHolds
DEF Next, ControlTask, LinkTask

LEMMA Inductive == Spec => []IInv
BY InitHolds, StepHolds, PTL DEF Spec

-----------------------------------------------------------------------------
\* The motors, the watchdog, the latch and the two tasks keep their types.
THEOREM TypeCorrect == Spec => []TypeOK
<1>1. IInv => TypeOK
  BY DEF IInv
<1>2. QED
  BY <1>1, Inductive, PTL

\* MotorArray's mutex keeps update() from driving wheels by two setVelocities() calls.
THEOREM OneCommand == Spec => []OneCommandAtATime
<1>1. IInv => OneCommandAtATime
  BY DEF IInv, GoalsAgree, OneCommandAtATime, Moving
<1>2. QED
  BY <1>1, Inductive, PTL

\* brake() clears the target, so a wheel starts only for a setpoint written after it.
THEOREM FreshSetpoint == Spec => MovesOnlyOnFreshSetpoint
<1>1. IInv /\ [Next]_vars =>
        [\A m \in Motors : ~Moving(m) /\ Moving(m)' => fresh[m]]_vars
  <2>1. SUFFICES ASSUME IInv, [Next]_vars, NEW m \in Motors, ~Moving(m), Moving(m)'
                 PROVE  fresh[m]
    OBVIOUS
  <2>2. UpdateMotor
    BY <2>1 DEF Next, ControlTask, LinkTask, Tick, Wake, ControlTakes, ControlTimesOut,
       Command, LinkTakes, LinkTimesOut, SetVelocity, FeedAndGive, vars, Moving
  <2>3. /\ nextMotor \in Motors /\ goal \in [Motors -> Speeds]
        /\ goal' = [goal EXCEPT ![nextMotor] = goal'[nextMotor]]
        /\ goal'[nextMotor] # 0 => goal'[nextMotor] = target[nextMotor]
    BY <2>1, <2>2, MotorUpdated DEF IInv, TypeOK
  <2>4. target[m] # 0
    BY <2>1, <2>3 DEF Moving
  <2>5. QED
    BY <2>1, <2>4 DEF IInv, TargetsFresh
<1>2. QED
  BY <1>1, Inductive, PTL DEF Spec, MovesOnlyOnFreshSetpoint

-----------------------------------------------------------------------------
\* The clocks.  None of this is needed above: it is a second invariant over IInv.

\* How long the fault pin has been quiet is no less than what the latch measures.
QuietIsTrue == quiet = FaultClear \/ Elapsed(millis, lastFault) <= quiet

\* Until millis() comes round, the watchdog measures the true age of the command.
AgeIsTrue ==
  cmdAge = MaxAge \/ (watchdogOn /\ (cmdAge < Wrap => Elapsed(millis, lastCmd) = cmdAge))

CycleIsShort == cpc # "sleep" => sinceWake <= MaxCycle

\* A motor that a cycle could drive or go on driving.
Live(m) == goal[m] # 0 \/ (target[m] # 0 /\ lpc \notin {"set", "feed"})

\* The command was no older than the watchdog's timeout, d before the last wake.
Within(d) == cmdAge <= WatchdogTimeout + d + sinceWake

\* The link task has held the mutex since the last cycle missed it, or the one before:
\* it feeds the watchdog as soon as it lets go.
MissedLast == mutex = "link" /\ held >= sinceWake - MaxCycle
MissedBefore == mutex = "link" /\ held >= Period - MaxCycle + sinceWake

\* After a motor's turn in a cycle the command is fresh; before it, a cycle older, or
\* two if the link task is about to feed.
FreshAt(m) ==
  \/ cpc = "sleep" /\ (Within(0) \/ (Within(Period) /\ MissedLast))
  \/ cpc = "motor" /\ m < nextMotor /\ Within(0)
  \/ cpc = "motor" /\ ~(m < nextMotor) /\ Within(Period)
  \/ cpc = "take" /\ Within(Period)
  \/ cpc \in {"sleep", "take"} /\ Within(2 * Period) /\ MissedBefore
NotStale == \A m \in Motors : Live(m) => FreshAt(m)

Ages == QuietIsTrue /\ AgeIsTrue /\ CycleIsShort /\ NotStale

LEMMA AgeConstants ==
  /\ WatchdogTimeout \in Nat \ {0}
  /\ WatchdogTimeout + 2 * Period + MaxCycle < Wrap
  /\ WatchdogTimeout + 2 * Period + MaxCycle < MaxAge
BY AgesAssumption

\* What an elapsed time becomes in the next millisecond.
LEMMA ElapsedTicks ==
  ASSUME NEW a \in 0 .. Wrap - 1, NEW b \in 0 .. Wrap - 1
  PROVE  /\ Elapsed(a, b) \in 0 .. Wrap - 1
         /\ Elapsed((a + 1) % Wrap, b) = IF Elapsed(a, b) = Wrap - 1 THEN 0
                                         ELSE Elapsed(a, b) + 1
<1>1. Wrap \in Nat \ {0}
  BY Constants
<1>2. Elapsed(a, b) = IF a >= b THEN a - b ELSE a - b + Wrap
  BY <1>1 DEF Elapsed
<1>3. (a + 1) % Wrap = IF a = Wrap - 1 THEN 0 ELSE a + 1
  BY <1>1
<1>4. (a + 1) % Wrap \in 0 .. Wrap - 1
  BY <1>1, <1>3
<1>5. ASSUME NEW c \in 0 .. Wrap - 1
      PROVE  Elapsed(c, b) = IF c >= b THEN c - b ELSE c - b + Wrap
  BY <1>1 DEF Elapsed
<1>6. Elapsed((a + 1) % Wrap, b)
        = IF (a + 1) % Wrap >= b THEN ((a + 1) % Wrap) - b ELSE ((a + 1) % Wrap) - b + Wrap
  BY <1>4, <1>5
<1>7. QED
  BY <1>1, <1>2, <1>3, <1>6

LEMMA InitAges == Init => Ages
<1>1. SUFFICES ASSUME Init PROVE Ages
  OBVIOUS
<1>2. NotStale
  BY <1>1 DEF Init, NotStale, Live
<1>3. QED
  BY <1>1, <1>2 DEF Init, Ages, QuietIsTrue, AgeIsTrue, CycleIsShort

\* The types the ages rest on.
LEMMA AgeTypes ==
  ASSUME IInv
  PROVE  /\ millis \in 0 .. Wrap - 1 /\ lastCmd \in 0 .. Wrap - 1
         /\ lastFault \in 0 .. Wrap - 1 /\ cmdAge \in 0 .. MaxAge /\ quiet \in 0 .. FaultClear
         /\ sinceWake \in 0 .. Period /\ held \in 0 .. MaxHold /\ nextMotor \in Motors
         /\ goal \in [Motors -> Speeds] /\ target \in [Motors -> Speeds]
BY DEF IInv, TypeOK

\* The times since the last fault and since the last command, a millisecond later.
LEMMA TickElapsed ==
  ASSUME IInv, Tick
  PROVE  /\ Elapsed(millis, lastFault) \in 0 .. Wrap - 1
         /\ Elapsed(millis', lastFault') \in {0, Elapsed(millis, lastFault) + 1}
         /\ Elapsed(millis, lastCmd) \in 0 .. Wrap - 1
         /\ Elapsed(millis', lastCmd') = IF Elapsed(millis, lastCmd) = Wrap - 1 THEN 0
                                         ELSE Elapsed(millis, lastCmd) + 1
<1>1. millis' = (millis + 1) % Wrap /\ lastFault' = lastFault /\ lastCmd' = lastCmd
  BY DEF Tick, watchdog, latch
<1>2. millis \in 0 .. Wrap - 1 /\ lastFault \in 0 .. Wrap - 1 /\ lastCmd \in 0 .. Wrap - 1
  BY AgeTypes
<1>3. /\ Elapsed(millis, lastFault) \in 0 .. Wrap - 1
      /\ Elapsed((millis + 1) % Wrap, lastFault)
           = IF Elapsed(millis, lastFault) = Wrap - 1 THEN 0 ELSE Elapsed(millis, lastFault) + 1
  BY <1>2, ElapsedTicks
<1>4. /\ Elapsed(millis, lastCmd) \in 0 .. Wrap - 1
      /\ Elapsed((millis + 1) % Wrap, lastCmd)
           = IF Elapsed(millis, lastCmd) = Wrap - 1 THEN 0 ELSE Elapsed(millis, lastCmd) + 1
  BY <1>2, ElapsedTicks
<1>5. QED
  BY <1>1, <1>3, <1>4

LEMMA TickAges ==
  ASSUME IInv, Ages, Tick
  PROVE  Ages'
<1>1. /\ millis' = (millis + 1) % Wrap /\ cmdAge' = Older(cmdAge, MaxAge)
      /\ quiet' = Older(quiet, FaultClear) /\ sinceWake' = sinceWake + 1
      /\ mutex = "link" => held' = held + 1
      /\ UNCHANGED <<lastCmd, lastFault, watchdogOn, cpc, nextMotor, lpc, goal, target, mutex>>
  BY DEF Tick, control, link, watchdog, latch
<1>2. QuietIsTrue'
  <2>1. /\ Elapsed(millis, lastFault) \in Nat
        /\ Elapsed(millis', lastFault') \in {0, Elapsed(millis, lastFault) + 1}
        /\ quiet \in 0 .. FaultClear /\ FaultClear \in Nat
    BY TickElapsed, AgeTypes, Constants
  <2>2. CASE quiet = FaultClear
    BY <1>1, <2>2 DEF Older, QuietIsTrue
  <2>3. CASE quiet # FaultClear
    <3>1. Elapsed(millis, lastFault) <= quiet
      BY <2>3 DEF Ages, QuietIsTrue
    <3>2. quiet' = quiet + 1
      BY <1>1, <2>1, <2>3 DEF Older
    <3>3. Elapsed(millis', lastFault') <= quiet'
      BY <2>1, <3>1, <3>2
    <3>4. QED
      BY <3>3 DEF QuietIsTrue
  <2>4. QED
    BY <2>2, <2>3
<1>3. AgeIsTrue'
  <2>1. CASE cmdAge = MaxAge
    BY <1>1, <2>1 DEF Older, AgeIsTrue
  <2>2. CASE cmdAge # MaxAge
    <3>1. watchdogOn /\ (cmdAge < Wrap => Elapsed(millis, lastCmd) = cmdAge)
      BY <2>2 DEF Ages, AgeIsTrue
    <3>2. cmdAge' = cmdAge + 1
      BY <1>1, <2>2, AgeTypes, Constants DEF Older
    <3>3. cmdAge' < Wrap => Elapsed(millis', lastCmd') = cmdAge'
      BY <3>1, <3>2, TickElapsed, AgeTypes, Constants
    <3>4. QED
      BY <1>1, <3>1, <3>3 DEF AgeIsTrue
  <2>3. QED
    BY <2>1, <2>2
<1>4. CycleIsShort'
  BY <1>1, AgeTypes, Constants DEF Tick, CycleIsShort
<1>5. ASSUME NEW m \in Motors, Live(m)', FreshAt(m) PROVE FreshAt(m)'
  <2>1. cmdAge' <= cmdAge + 1
    BY <1>1, AgeTypes, Constants DEF Older
  <2>2. cmdAge \in Int /\ cmdAge' \in Int /\ sinceWake \in Int /\ held \in Int
    BY <1>1, AgeTypes, Constants DEF Older
  <2>3. ASSUME NEW d \in Int, Within(d) PROVE Within(d)'
    BY <1>1, <2>1, <2>2, <2>3, AgeConstants DEF Within
  <2>4. (MissedLast => MissedLast') /\ (MissedBefore => MissedBefore')
    BY <1>1, <2>2, Constants DEF MissedLast, MissedBefore
  <2>5. 0 \in Int /\ Period \in Int /\ 2 * Period \in Int
    BY Constants
  <2>6. /\ Within(0) => Within(0)'
        /\ Within(Period) => Within(Period)'
        /\ Within(2 * Period) => Within(2 * Period)'
    BY <2>3, <2>5
  <2>7. QED
    BY <1>1, <1>5, <2>4, <2>6 DEF FreshAt
<1>6. NotStale'
  BY <1>1, <1>5 DEF Ages, NotStale, Live
<1>7. QED
  BY <1>2, <1>3, <1>4, <1>6 DEF Ages

\* A wake: a cycle has gone by, and a hold that has lasted over two of them is over.
LEMMA WakeAges ==
  ASSUME IInv, Ages, Wake
  PROVE  Ages'
<1>1. /\ cpc = "sleep" /\ sinceWake = Period /\ cpc' = "take" /\ sinceWake' = 0
      /\ UNCHANGED <<lastCmd, watchdogOn, millis, cmdAge, lpc, goal, target, mutex, held>>
  BY DEF Wake, link, watchdog
<1>2. QuietIsTrue'
  <2>1. CASE FaultRead
    BY <1>1, <2>1, AgeTypes, Constants DEF FaultRead, LastFaultNow, QuietIsTrue, Elapsed
  <2>2. CASE NoFaultRead
    BY <1>1, <2>2 DEF NoFaultRead, Ages, QuietIsTrue
  <2>3. QED
    BY <2>1, <2>2 DEF Wake
<1>3. AgeIsTrue' /\ CycleIsShort'
  BY <1>1, Constants DEF Ages, AgeIsTrue, CycleIsShort
<1>4. ASSUME NEW m \in Motors, FreshAt(m) PROVE FreshAt(m)'
  <2>1. CASE Within(0) \/ (Within(Period) /\ MissedLast)
    BY <1>1, <2>1, AgeTypes, Constants, AgeConstants
    DEF Within, MissedLast, MissedBefore, FreshAt
  <2>2. CASE MissedBefore
    BY <1>1, <2>2, AgeTypes, Constants DEF MissedBefore
  <2>3. QED
    BY <1>1, <1>4, <2>1, <2>2 DEF FreshAt
<1>5. NotStale'
  BY <1>1, <1>4 DEF Ages, NotStale, Live
<1>6. QED
  BY <1>2, <1>3, <1>5 DEF Ages

\* The cycle gets the mutex, or misses it because the link task is inside.
LEMMA ControlMutexAges ==
  ASSUME IInv, Ages, ControlTakes \/ ControlTimesOut
  PROVE  Ages'
<1>1. /\ cpc = "take"
      /\ UNCHANGED <<lastCmd, lastFault, watchdogOn, millis, cmdAge, quiet, sinceWake, held,
                     lpc, goal, target>>
  BY DEF ControlTakes, ControlTimesOut, link, watchdog, latch, clocks
<1>2. QuietIsTrue' /\ AgeIsTrue' /\ CycleIsShort'
  BY <1>1 DEF ControlTakes, ControlTimesOut, Ages, QuietIsTrue, AgeIsTrue, CycleIsShort
<1>3. ASSUME NEW m \in Motors, FreshAt(m) PROVE FreshAt(m)'
  <2>1. CASE ControlTakes
    <3>1. mutex = "free" /\ cpc' = "motor" /\ nextMotor' = 1 /\ ~(m < 1)
      BY <2>1 DEF ControlTakes, Motors
    <3>2. Within(Period)
      BY <1>1, <1>3, <3>1 DEF FreshAt, MissedBefore
    <3>3. QED
      BY <1>1, <3>1, <3>2 DEF FreshAt, Within
  <2>2. CASE ControlTimesOut
    <3>1. mutex = "link" /\ mutex' = mutex /\ cpc' = "sleep" /\ sinceWake <= MaxCycle
      BY <1>1, <2>2 DEF ControlTimesOut, Ages, CycleIsShort
    <3>2. MissedLast'
      BY <1>1, <3>1, AgeTypes, Constants DEF MissedLast
    <3>3. QED
      BY <1>1, <1>3, <3>1, <3>2 DEF FreshAt, Within, MissedBefore
  <2>3. QED
    BY <2>1, <2>2
<1>4. NotStale'
  BY <1>1, <1>3 DEF Ages, NotStale, Live
<1>5. QED
  BY <1>2, <1>4 DEF Ages

\* A motor's turn: with a stale command it is braked, target and all.
LEMMA UpdateMotorAges ==
  ASSUME IInv, Ages, UpdateMotor
  PROVE  Ages'
<1>1. /\ cpc = "motor" /\ mutex = "control" /\ lpc \notin {"set", "feed"}
      /\ UNCHANGED <<lastCmd, lastFault, watchdogOn, millis, cmdAge, quiet, sinceWake, held,
                     lpc>>
  BY DEF UpdateMotor, link, watchdog, latch, clocks, IInv, MutexHeld
<1>2. QuietIsTrue' /\ AgeIsTrue' /\ CycleIsShort'
  BY <1>1 DEF UpdateMotor, Ages, QuietIsTrue, AgeIsTrue, CycleIsShort
<1>3. ASSUME NEW m \in Motors, m = nextMotor, Live(m)' PROVE Within(0)
  <2>1. target \in [Motors -> Speeds] /\ goal \in [Motors -> Speeds]
    BY AgeTypes
  <2>2. goal'[m] # 0 \/ target'[m] # 0
    BY <1>3 DEF Live
  <2>3. MayMove /\ target[m] # 0
    <3>1. CASE MayMove
      BY <1>3, <2>1, <2>2, <3>1 DEF UpdateMotor, Drive
    <3>2. CASE ~MayMove
      BY <1>3, <2>1, <2>2, <3>2 DEF UpdateMotor, Brake, TargetAfterBrake
    <3>3. QED
      BY <3>1, <3>2
  <2>4. FreshAt(m) /\ ~(m < nextMotor)
    BY <1>1, <1>3, <2>3 DEF Ages, NotStale, Live, Motors
  <2>5. Within(Period) /\ sinceWake <= MaxCycle
    BY <1>1, <2>4 DEF FreshAt, Ages, CycleIsShort
  <2>6. cmdAge < Wrap /\ cmdAge # MaxAge
    BY <2>5, AgeTypes, Constants, AgeConstants DEF Within
  <2>7. watchdogOn /\ Elapsed(millis, lastCmd) = cmdAge
    BY <2>6 DEF Ages, AgeIsTrue
  <2>8. ~(cmdAge > WatchdogTimeout)
    BY <2>3, <2>7 DEF MayMove, WatchdogExpired
  <2>9. QED
    BY <2>8, AgeTypes, Constants, AgeConstants DEF Within
<1>4. ASSUME NEW m \in Motors, Live(m)', m # nextMotor PROVE FreshAt(m)
  <2>1. goal'[m] = goal[m] /\ target'[m] = target[m]
    BY <1>4, AgeTypes, MotorUpdated
  <2>2. QED
    BY <1>1, <1>4, <2>1 DEF Live, Ages, NotStale
<1>5. CASE nextMotor = MotorCount
  <2>1. cpc' = "sleep"
    BY <1>5 DEF UpdateMotor
  <2>2. ASSUME NEW m \in Motors, m # nextMotor, FreshAt(m) PROVE Within(0)
    BY <1>1, <1>5, <2>2 DEF FreshAt, Motors
  <2>3. ASSUME NEW m \in Motors, Live(m)' PROVE Within(0)
    <3>1. CASE m = nextMotor
      BY <1>3, <2>3, <3>1
    <3>2. CASE m # nextMotor
      BY <1>4, <2>2, <2>3, <3>2
    <3>3. QED
      BY <3>1, <3>2
  <2>4. NotStale'
    BY <1>1, <2>1, <2>3 DEF NotStale, FreshAt, Within
  <2>5. QED
    BY <1>2, <2>4 DEF Ages
<1>6. CASE nextMotor # MotorCount
  <2>1. cpc' = "motor" /\ nextMotor' = nextMotor + 1
    BY <1>1, <1>6 DEF UpdateMotor
  <2>2. nextMotor \in Nat /\ \A m \in Motors : m \in Nat
    BY AgeTypes DEF Motors
  <2>3. ASSUME NEW m \in Motors, m # nextMotor PROVE m < nextMotor + 1 <=> m < nextMotor
    BY <2>2, <2>3
  <2>4. ASSUME NEW m \in Motors, Live(m)' PROVE FreshAt(m)'
    <3>1. Within(0)' = Within(0) /\ Within(Period)' = Within(Period)
      BY <1>1 DEF Within
    <3>2. CASE m = nextMotor
      <4>1. m < nextMotor' /\ Within(0)
        BY <1>3, <2>1, <2>2, <2>4, <3>2
      <4>2. QED
        BY <2>1, <3>1, <4>1 DEF FreshAt
    <3>3. CASE m # nextMotor
      <4>1. FreshAt(m) /\ (m < nextMotor' <=> m < nextMotor)
        BY <1>4, <2>1, <2>3, <2>4, <3>3
      <4>2. QED
        BY <1>1, <2>1, <3>1, <4>1 DEF FreshAt
    <3>4. QED
      BY <3>2, <3>3
  <2>5. NotStale'
    BY <2>4 DEF NotStale
  <2>6. QED
    BY <1>2, <2>5 DEF Ages
<1>7. QED
  BY <1>5, <1>6

\* The link task short of the feed: what it writes counts once it has fed.
LEMMA LinkAges ==
  ASSUME IInv, Ages,
         (\E v \in Speeds : Command(v)) \/ LinkTakes \/ LinkTimesOut \/ SetVelocity
  PROVE  Ages'
<1>1. UNCHANGED <<lastCmd, lastFault, watchdogOn, millis, cmdAge, quiet, sinceWake, cpc,
                  nextMotor, goal>>
  BY DEF Command, LinkTakes, LinkTimesOut, SetVelocity, control, watchdog, latch, clocks
<1>2. QuietIsTrue' /\ AgeIsTrue' /\ CycleIsShort'
  BY <1>1 DEF Ages, QuietIsTrue, AgeIsTrue, CycleIsShort
<1>3. mutex = "link" => mutex' = mutex /\ held' = held
  BY DEF Command, LinkTakes, MutexFree, LinkTimesOut, SetVelocity, clocks
<1>4. ASSUME NEW m \in Motors, Live(m)' PROVE Live(m)
  BY <1>1, <1>4 DEF Live, Command, LinkTakes, LinkTimesOut, SetVelocity
<1>5. ASSUME NEW m \in Motors, FreshAt(m) PROVE FreshAt(m)'
  BY <1>1, <1>3, <1>5 DEF FreshAt, Within, MissedLast, MissedBefore
<1>6. NotStale'
  BY <1>4, <1>5 DEF Ages, NotStale
<1>7. QED
  BY <1>2, <1>6 DEF Ages

LEMMA FeedAges ==
  ASSUME IInv, Ages, FeedAndGive
  PROVE  Ages'
<1>1. /\ lastCmd' = millis /\ watchdogOn' = TRUE /\ cmdAge' = 0
      /\ UNCHANGED <<lastFault, millis, quiet, sinceWake, cpc, nextMotor>>
  BY DEF FeedAndGive, SwitchedOn, control, latch
<1>2. QuietIsTrue' /\ CycleIsShort'
  BY <1>1 DEF Ages, QuietIsTrue, CycleIsShort
<1>3. AgeIsTrue'
  BY <1>1, AgeTypes, Constants DEF AgeIsTrue, Elapsed
<1>4. Within(0)' /\ Within(Period)'
  BY <1>1, AgeTypes, Constants, AgeConstants DEF Within
<1>5. cpc \in {"sleep", "take", "motor"}
  BY DEF IInv, TypeOK
<1>6. NotStale'
  BY <1>1, <1>4, <1>5 DEF NotStale, FreshAt
<1>7. QED
  BY <1>2, <1>3, <1>6 DEF Ages

LEMMA AgesStep == IInv /\ Ages /\ [Next]_vars => Ages'
<1>1. SUFFICES ASSUME IInv, Ages, [Next]_vars PROVE Ages'
  OBVIOUS
<1>2. CASE UNCHANGED vars
  BY <1>1, <1>2 DEF vars, control, link, watchdog, latch, clocks, Ages, QuietIsTrue, AgeIsTrue,
     CycleIsShort, NotStale, Live, FreshAt, Within, MissedLast, MissedBefore
<1>3. QED
  BY <1>1, <1>2, TickAges, WakeAges, ControlMutexAges, UpdateMotorAges, LinkAges, FeedAges
  DEF Next, ControlTask, LinkTask

LEMMA AgesInductive == Spec => [](IInv /\ Ages)
<1>1. Init => IInv /\ Ages
  BY InitHolds, InitAges
<1>2. (IInv /\ Ages) /\ [Next]_vars => (IInv /\ Ages)'
  BY StepHolds, AgesStep
<1>3. QED
  BY <1>1, <1>2, PTL DEF Spec

\* The command watchdog stops every wheel whose command is older than the timeout and
\* the two cycles it may take, also where a cycle misses the mutex and millis() wraps.
THEOREM StaleCommandStops == Spec => []NoStaleMotion
<1>1. ASSUME IInv, Ages, NEW m \in Motors, Moving(m)
      PROVE  cmdAge <= WatchdogTimeout + 2 * Period + MaxCycle
  <2>1. FreshAt(m)
    BY <1>1 DEF Moving, Live, Ages, NotStale
  <2>2. CASE Within(0) \/ (Within(Period) /\ cpc # "sleep")
    BY <1>1, <2>2, AgeTypes, Constants, AgeConstants DEF Within, Ages, CycleIsShort
  <2>3. CASE Within(Period)
    BY <1>1, <2>3, AgeTypes, Constants, AgeConstants DEF Within
  <2>4. CASE Within(2 * Period) /\ MissedBefore
    <3>1. sinceWake <= MaxCycle
      BY <1>1, <2>4, AgeTypes, Constants DEF MissedBefore
    <3>2. QED
      BY <1>1, <2>4, <3>1, AgeTypes, Constants, AgeConstants DEF Within
  <2>5. QED
    BY <2>1, <2>2, <2>3, <2>4 DEF FreshAt
<1>2. IInv /\ Ages => NoStaleMotion
  BY <1>1 DEF NoStaleMotion
<1>3. QED
  BY <1>2, AgesInductive, PTL

\* The latch measures the quiet time modulo the range of millis(), which never lets it
\* go early.
THEOREM LatchHolds == Spec => FaultHeldUntilQuiet
<1>1. ASSUME IInv, Ages, [Next]_vars, latched, ~latched' PROVE quiet >= FaultClear
  <2>1. Wake
    BY <1>1 DEF Next, ControlTask, LinkTask, Tick, ControlTakes, ControlTimesOut, UpdateMotor,
       Command, LinkTakes, LinkTimesOut, SetVelocity, FeedAndGive, vars, latch
  <2>2. ~(Elapsed(millis, lastFault) < FaultClear)
    BY <1>1, <2>1 DEF Wake, FaultRead, NoFaultRead
  <2>3. Elapsed(millis, lastFault) \in Nat /\ quiet \in Nat /\ FaultClear \in Nat
    <3>1. Wrap \in Nat \ {0}
      BY Constants
    <3>2. millis \in 0 .. Wrap - 1 /\ lastFault \in 0 .. Wrap - 1 /\ quiet \in 0 .. FaultClear
      BY <1>1, AgeTypes
    <3>3. Elapsed(millis, lastFault) \in 0 .. Wrap - 1
      BY <3>2, ElapsedTicks
    <3>4. QED
      BY <3>1, <3>2, <3>3, Constants
  <2>4. QuietIsTrue
    BY <1>1 DEF Ages
  <2>5. QED
    BY <2>2, <2>3, <2>4 DEF QuietIsTrue
<1>2. IInv /\ Ages /\ [Next]_vars => [latched /\ ~latched' => quiet >= FaultClear]_vars
  BY <1>1
<1>3. QED
  BY <1>2, AgesInductive, PTL DEF Spec, FaultHeldUntilQuiet
=============================================================================
