----------------------------- MODULE MotorArray -----------------------------
(***************************************************************************)
(* MotorArray and the part of MotorHiZ the array relies on: the control    *)
(* task's update() cycle, the link task's setVelocities(), the mutex they  *)
(* share, the command watchdog and the driver fault latch.                 *)
(*                                                                         *)
(* Time is millis(), which wraps at Wrap; every age the code computes is a *)
(* difference modulo Wrap.  PID, PWM and encoder values are abstracted to  *)
(* the speed a wheel is driven at.  The drivers are enabled throughout:    *)
(* init() ends by enabling them and nothing disables them afterwards.      *)
(***************************************************************************)
EXTENDS Integers

CONSTANTS
  MotorCount,      \* count_
  Speeds,          \* setpoints after setVelocity()'s clamp and dead band
  Wrap,            \* range of millis()
  WatchdogTimeout, \* WATCHDOG_TIMEOUT_MS
  FaultClear,      \* kFaultClearMs
  FaultAssert,     \* kFaultAssertCycles
  Period,          \* period of the control task
  MaxCycle,        \* longest a control cycle takes, its wait for the mutex included
  MaxHold,         \* longest the link task holds the mutex
  MaxAge           \* bound of the model: the age of a command is told apart up to it

ASSUME MotorsAssumption == MotorCount \in Nat \ {0}
ASSUME SpeedsAssumption == Speeds \subseteq Int /\ 0 \in Speeds
ASSUME TimesAssumption ==
  /\ {Wrap, WatchdogTimeout, FaultClear, FaultAssert, Period, MaxAge} \subseteq Nat \ {0}
  /\ {MaxCycle, MaxHold} \subseteq Nat
  /\ MaxCycle < Period /\ MaxHold < Period
\* A command goes stale well before millis() comes round, and before the model stops
\* counting its age.
ASSUME AgesAssumption ==
  /\ WatchdogTimeout + 2 * Period + MaxCycle < Wrap
  /\ WatchdogTimeout + 2 * Period + MaxCycle < MaxAge

VARIABLES
  millis,       \* the millisecond counter
  mutex,        \* mutex_: "free", "control" or "link"
  target,       \* target_velocity_ of each motor
  goal,         \* the speed each motor is driven at; 0 when braked
  lastCmd,      \* last_cmd_time_
  watchdogOn,   \* watchdog_enabled_
  latched,      \* fault_latched_
  faultCycles,  \* fault_cycles_
  lastFault,    \* last_fault_ms_
  cpc,          \* control task: sleep, take, motor
  fault,        \* update()'s local; FALSE outside it
  nextMotor,    \* the motor update() is at
  lpc,          \* link task in setVelocities(): idle, take, set, feed
  setpoint,     \* the velocities it was called with; 0 outside it
  setMotor      \* the motor setVelocities() is at

\* History: how long ago the control task woke, the link task took the mutex, a
\* command was last fed and a fault last read; whether the target of a motor is
\* newer than its last brake.
VARIABLES sinceWake, held, cmdAge, quiet, fresh

control == <<cpc, fault, nextMotor>>
link == <<lpc, setpoint, setMotor>>
watchdog == <<lastCmd, watchdogOn>>
latch == <<latched, faultCycles, lastFault>>
clocks == <<millis, sinceWake, held, cmdAge, quiet>>
vars == <<control, link, watchdog, latch, clocks, goal, mutex, target, fresh>>

\* update() and setVelocities() go through the motors in order.
Motors == 1 .. MotorCount
Older(t, cap) == IF t < cap THEN t + 1 ELSE cap

\* Unsigned difference of two millis() values.
Elapsed(a, b) == (a - b) % Wrap

Init ==
  /\ millis = 0
  /\ mutex = "free"
  /\ target = [m \in Motors |-> 0]
  /\ goal = [m \in Motors |-> 0]
  /\ lastCmd = 0 /\ watchdogOn = FALSE
  /\ latched = FALSE /\ faultCycles = 0 /\ lastFault = 0
  /\ cpc = "sleep" /\ fault = FALSE /\ nextMotor = 1
  /\ lpc = "idle" /\ setpoint = 0 /\ setMotor = 1
  /\ sinceWake = 0 /\ held = 0 /\ cmdAge = MaxAge /\ quiet = FaultClear
  /\ fresh = [m \in Motors |-> FALSE]

\* A millisecond passes.  The control task outranks the others: it wakes on its
\* period and its cycle is short; a link task holding the mutex it waits for
\* inherits its priority and gives it back soon.
Tick ==
  /\ sinceWake < (IF cpc = "sleep" THEN Period ELSE MaxCycle)
  /\ mutex = "link" => held < MaxHold
  /\ millis' = (millis + 1) % Wrap
  /\ sinceWake' = sinceWake + 1
  /\ held' = IF mutex = "link" THEN held + 1 ELSE 0
  /\ cmdAge' = Older(cmdAge, MaxAge)
  /\ quiet' = Older(quiet, FaultClear)
  /\ UNCHANGED <<control, link, watchdog, latch, goal, mutex, target, fresh>>

-----------------------------------------------------------------------------
\* Control task.

\* last_fault_ms_ while the pin reads low: the time of the latest reading.
LastFaultOnce == IF latched THEN lastFault ELSE millis
LastFaultNow == millis

\* fault_cycles_ stops at kFaultAssertCycles.
CyclesUncapped == faultCycles + 1
CyclesCapped == IF faultCycles < FaultAssert THEN faultCycles + 1 ELSE faultCycles

\* updateFaultLatch(): checkFaults() reads the pins once a cycle.
FaultRead ==
  /\ lastFault' = LastFaultNow
  /\ faultCycles' = CyclesCapped
  /\ latched' = (latched \/ CyclesCapped >= FaultAssert)
  /\ quiet' = 0

NoFaultRead ==
  /\ faultCycles' = 0
  /\ latched' = (latched /\ Elapsed(millis, lastFault) < FaultClear)
  /\ UNCHANGED <<lastFault, quiet>>

\* The task's period has come: update() up to the mutex.
Wake ==
  /\ cpc = "sleep" /\ sinceWake = Period
  /\ FaultRead \/ NoFaultRead
  /\ fault' = latched'
  /\ cpc' = "take"
  /\ sinceWake' = 0
  /\ UNCHANGED <<nextMotor, link, watchdog, millis, held, cmdAge, goal, mutex,
                 target, fresh>>

ControlTakes ==
  /\ cpc = "take" /\ mutex = "free"
  /\ mutex' = "control"
  /\ cpc' = "motor" /\ nextMotor' = 1
  /\ UNCHANGED <<fault, link, watchdog, latch, clocks, goal, target, fresh>>

\* The 5 ms wait may run out: the motors keep what they were doing.
ControlTimesOut ==
  /\ cpc = "take" /\ mutex = "link"
  /\ cpc' = "sleep" /\ fault' = FALSE
  /\ UNCHANGED <<nextMotor, link, watchdog, latch, clocks, goal, mutex,
                 target, fresh>>

\* isWatchdogExpired(): asked again for every motor.
WatchdogExpired == watchdogOn /\ Elapsed(millis, lastCmd) > WatchdogTimeout

\* What brake() leaves in target_velocity_.
TargetKept(m) == target[m]
TargetAfterBrake(m) == 0

\* MotorHiZ::update(dt, false).
Brake(m) ==
  /\ goal' = [goal EXCEPT ![m] = 0]
  /\ target' = [target EXCEPT ![m] = TargetAfterBrake(m)]
  /\ fresh' = [fresh EXCEPT ![m] = FALSE]

\* MotorHiZ::update(dt, true): the PID runs for the target.  Its output may be
\* zero, which brakes, so a goal of 0 is not told apart from braking.
Drive(m) ==
  /\ goal' = [goal EXCEPT ![m] = target[m]]
  /\ UNCHANGED <<target, fresh>>

UnlessFault == ~fault
MayMove == ~fault /\ ~WatchdogExpired

\* One motor of update()'s loop; the last one gives the mutex and sleeps.
UpdateMotor ==
  /\ cpc = "motor"
  /\ IF MayMove THEN Drive(nextMotor) ELSE Brake(nextMotor)
  /\ IF nextMotor = MotorCount
     THEN cpc' = "sleep" /\ mutex' = "free" /\ nextMotor' = 1 /\ fault' = FALSE
     ELSE nextMotor' = nextMotor + 1 /\ UNCHANGED <<cpc, mutex, fault>>
  /\ UNCHANGED <<link, watchdog, latch, clocks>>

-----------------------------------------------------------------------------
\* Link task.

\* WheelCmdSubscriber::onMessage with finite velocities, here equal ones: the
\* messages that show whether the wheels follow one command.
Command(v) ==
  /\ lpc = "idle"
  /\ lpc' = "take" /\ setpoint' = v
  /\ UNCHANGED <<setMotor, control, watchdog, latch, clocks, goal, mutex, target,
                 fresh>>

\* xSemaphoreTake in setVelocities().
MutexIgnored == TRUE
MutexFree == mutex = "free"

LinkTakes ==
  /\ lpc = "take" /\ MutexFree
  /\ mutex' = "link" /\ held' = 0
  /\ lpc' = "set" /\ setMotor' = 1
  /\ UNCHANGED <<setpoint, control, watchdog, latch, millis, sinceWake, cmdAge, quiet,
                 goal, target, fresh>>

\* The 10 ms wait may run out: the setpoint is dropped.
LinkTimesOut ==
  /\ lpc = "take" /\ mutex = "control"
  /\ lpc' = "idle" /\ setpoint' = 0
  /\ UNCHANGED <<setMotor, control, watchdog, latch, clocks, goal, mutex, target,
                 fresh>>

SetVelocity ==
  /\ lpc = "set"
  /\ target' = [target EXCEPT ![setMotor] = setpoint]
  /\ fresh' = [fresh EXCEPT ![setMotor] = TRUE]
  /\ IF setMotor = MotorCount
     THEN lpc' = "feed" /\ setMotor' = 1
     ELSE setMotor' = setMotor + 1 /\ UNCHANGED lpc
  /\ UNCHANGED <<setpoint, control, watchdog, latch, clocks, goal, mutex>>

\* feedWatchdog() also switches the watchdog on.
SwitchedOn == TRUE

\* feedWatchdog() and the give.
FeedAndGive ==
  /\ lpc = "feed"
  /\ lastCmd' = millis /\ watchdogOn' = SwitchedOn
  /\ cmdAge' = 0
  /\ mutex' = "free"
  /\ lpc' = "idle" /\ setpoint' = 0
  /\ UNCHANGED <<setMotor, control, latch, millis, sinceWake, held, quiet,
                 goal, target, fresh>>

-----------------------------------------------------------------------------
ControlTask == Wake \/ ControlTakes \/ ControlTimesOut \/ UpdateMotor
LinkTask == LinkTakes \/ LinkTimesOut \/ SetVelocity \/ FeedAndGive

Next ==
  \/ Tick
  \/ ControlTask
  \/ \E v \in Speeds : Command(v)
  \/ LinkTask

Spec == Init /\ [][Next]_vars

\* Time passes, and both tasks run when they can; commands come or do not.
Fairness == WF_vars(Tick) /\ WF_vars(ControlTask) /\ WF_vars(LinkTask)
FairSpec == Spec /\ Fairness

-----------------------------------------------------------------------------
TypeOK ==
  /\ millis \in 0 .. Wrap - 1
  /\ mutex \in {"free", "control", "link"}
  /\ target \in [Motors -> Speeds]
  /\ goal \in [Motors -> Speeds]
  /\ lastCmd \in 0 .. Wrap - 1 /\ watchdogOn \in BOOLEAN
  /\ latched \in BOOLEAN /\ faultCycles \in 0 .. FaultAssert
  /\ lastFault \in 0 .. Wrap - 1
  /\ cpc \in {"sleep", "take", "motor"} /\ fault \in BOOLEAN /\ nextMotor \in Motors
  /\ lpc \in {"idle", "take", "set", "feed"} /\ setpoint \in Speeds
  /\ setMotor \in Motors
  /\ sinceWake \in 0 .. Period /\ held \in 0 .. MaxHold
  /\ cmdAge \in 0 .. MaxAge /\ quiet \in 0 .. FaultClear
  /\ fresh \in [Motors -> BOOLEAN]

Moving(m) == goal[m] # 0

\* Between control cycles, all wheels that move follow one command: a cycle
\* never mixes the setpoints of two messages, though setVelocities() writes the
\* motors one by one and update() reads them one by one.
OneCommandAtATime ==
  cpc = "sleep" =>
    \A m, k \in Motors : Moving(m) /\ Moving(k) => goal[m] = goal[k]

\* A wheel never moves on a command older than the watchdog's timeout and the
\* two cycles it may take to act on it (one may miss the mutex) - at a wrap of
\* millis() neither, where an old command looks fresh again.
NoStaleMotion ==
  \A m \in Motors : Moving(m) => cmdAge <= WatchdogTimeout + 2 * Period + MaxCycle

\* After a brake, by fault or by watchdog, a wheel moves again only on a
\* setpoint written after it (motor_array.cpp:94, "the wheels move again only on
\* a fresh one").
MovesOnlyOnFreshSetpoint ==
  [][\A m \in Motors :
       ~Moving(m) /\ Moving(m)' => fresh[m]]_vars

\* The latch is released only when the fault pin has read high for kFaultClearMs:
\* a driver that trips again and again never toggles the wheels faster.
FaultHeldUntilQuiet == [][latched /\ ~latched' => quiet >= FaultClear]_vars
=============================================================================
