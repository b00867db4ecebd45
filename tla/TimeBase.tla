------------------------------ MODULE TimeBase ------------------------------
(***************************************************************************)
(* time_boot_us() (lib/time_base): the 64-bit microsecond clock behind     *)
(* every MAVLink timestamp, built from the 32-bit micros() counter by the  *)
(* tasks and ISRs that call it.  A caller reads micros() first and enters  *)
(* the critical section afterwards, so others may run in between and it    *)
(* may arrive there with a reading older than the newest one counted.      *)
(*                                                                         *)
(* The critical section is one step: interrupts are masked in it.  A       *)
(* preempted caller is a caller that has read and not yet entered.         *)
(***************************************************************************)
EXTENDS Integers

CONSTANTS
  Callers,    \* the tasks and ISRs that may be inside time_boot_us()
  HalfRange,  \* 2^31: half the range of micros()
  MaxGap,     \* longest time the counted reading may lag the hardware
  MaxLag,     \* longest preemption between micros() and the critical section
  MaxClock    \* bound of the model: the hardware clock stops there

\* time_base.hpp: "Must be called at least every ~35 min" is 2^31 us.
ASSUME HalfRangeAssumption == HalfRange \in Nat \ {0}
ASSUME GapAssumption ==
  /\ MaxGap \in Nat /\ MaxGap < HalfRange
  /\ MaxLag \in Nat /\ MaxLag < HalfRange
ASSUME MaxClockAssumption == MaxClock \in Nat

VARIABLES
  clock,     \* true microseconds since boot, what the timer would count to
  last_us,   \* s_last_us: the newest reading counted
  accum_us,  \* s_accum_us: the 64-bit time
  pc,        \* where each caller is
  now,       \* the caller's local: its 32-bit reading
  readAt,    \* history: the true time at which it read
  result     \* what its last call returned

vars == <<clock, last_us, accum_us, pc, now, readAt, result>>

Range32 == 2 * HalfRange

\* micros(): the timer truncated to its 32 bits.
Untruncated(t) == t
Micros(t) == t % Range32

\* static_cast<int32_t>(a - b): the difference as two's complement.  Unsigned,
\* a reading older than the newest would count as a wrap.
UnsignedDelta(a, b) == (a - b) % Range32
SignedDelta(a, b) ==
  LET d == (a - b) % Range32
  IN IF d < HalfRange THEN d ELSE d - Range32

\* Only a reading newer than the newest counted moves the time.
AnyChange(delta) == delta # 0
Forward(delta) == delta > 0

Init ==
  /\ clock = 0
  /\ last_us = 0
  /\ accum_us = 0
  /\ pc = [c \in Callers |-> "idle"]
  /\ now = [c \in Callers |-> 0]
  /\ readAt = [c \in Callers |-> 0]
  /\ result = [c \in Callers |-> 0]

\* Time passes.  The control and sensor tasks stamp a message every cycle, so
\* the counted reading is never MaxGap behind; a preemption ends within MaxLag.
Tick ==
  /\ clock < MaxClock
  /\ clock - accum_us < MaxGap
  /\ \A c \in Callers : pc[c] = "read" => clock - readAt[c] < MaxLag
  /\ clock' = clock + 1
  /\ UNCHANGED <<last_us, accum_us, pc, now, readAt, result>>

\* The call up to its critical section.
ReadMicros(c) ==
  /\ pc[c] = "idle"
  /\ pc' = [pc EXCEPT ![c] = "read"]
  /\ now' = [now EXCEPT ![c] = Micros(clock)]
  /\ readAt' = [readAt EXCEPT ![c] = clock]
  /\ UNCHANGED <<clock, last_us, accum_us, result>>

\* The critical section and the return.
Accumulate(c) ==
  /\ pc[c] = "read"
  /\ LET delta == SignedDelta(now[c], last_us)
     IN IF Forward(delta)
        THEN accum_us' = accum_us + delta /\ last_us' = now[c]
        ELSE UNCHANGED <<accum_us, last_us>>
  /\ result' = [result EXCEPT ![c] = accum_us']
  /\ pc' = [pc EXCEPT ![c] = "idle"]
  /\ UNCHANGED <<clock, now, readAt>>

Next ==
  \/ Tick
  \/ \E c \in Callers : ReadMicros(c) \/ Accumulate(c)

Spec == Init /\ [][Next]_vars

-----------------------------------------------------------------------------
TypeOK ==
  /\ clock \in Nat
  /\ last_us \in 0 .. Range32 - 1
  /\ accum_us \in Nat
  /\ pc \in [Callers -> {"idle", "read"}]
  /\ now \in [Callers -> 0 .. Range32 - 1]
  /\ readAt \in [Callers -> Nat]
  /\ result \in [Callers -> Nat]

\* What time_boot_us() returns is never older than the caller's own reading
\* and never ahead of the hardware, however callers preempt each other and
\* however often the 32-bit counter wraps (time_base.cpp, "must not be counted
\* as a ~71 min wrap").
ResultIsCurrent ==
  \A c \in Callers :
    pc[c] = "idle" => readAt[c] <= result[c] /\ result[c] <= clock

\* The strengthening that makes it inductive: the 64-bit time is the true time
\* of the newest reading counted, last_us is its truncation, and no pending
\* reading is out of the signed range.
AccumIsTrueTime ==
  /\ last_us = accum_us % Range32
  /\ accum_us <= clock
  /\ clock - accum_us <= MaxGap
  /\ \A c \in Callers :
       pc[c] = "read" =>
         /\ now[c] = readAt[c] % Range32
         /\ readAt[c] <= clock
         /\ clock - readAt[c] <= MaxLag

\* The time the tasks see never steps back: a call returns at least what any
\* call returned before it, whichever task made it ("Monotonic microseconds
\* since boot", time_base.hpp).
NeverStepsBack ==
  [][\A c, d \in Callers :
       pc[c] = "read" /\ pc'[c] = "idle" => result'[c] >= result[d]]_vars

=============================================================================
