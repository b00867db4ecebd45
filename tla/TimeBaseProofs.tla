--------------------------- MODULE TimeBaseProofs ---------------------------
(***************************************************************************)
(* Proofs about time_boot_us(), for every set of callers, every width of   *)
(* the hardware counter and a clock that runs for any time.                *)
(***************************************************************************)
EXTENDS TimeBase, TLAPS

\* Truncation to the counter's range is the remainder of a Euclidean division.
LEMMA Truncation ==
  ASSUME NEW N \in Nat \ {0}, NEW x \in Int
  PROVE  x % N \in 0 .. N - 1
OBVIOUS

LEMMA RemainderIsUnique ==
  ASSUME NEW N \in Nat \ {0}, NEW q \in Int, NEW r \in 0 .. N - 1
  PROVE  (N * q + r) % N = r
OBVIOUS

\* Two truncated times differ by their true difference and whole wraps.
LEMMA DifferenceOfTruncated ==
  ASSUME NEW N \in Nat \ {0}, NEW a \in Int, NEW b \in Int
  PROVE  \E q \in Int : (a % N) - (b % N) = N * q + (a - b)
<1>1. /\ a = N * (a \div N) + (a % N) /\ a \div N \in Int /\ a % N \in 0 .. N - 1
      /\ b = N * (b \div N) + (b % N) /\ b \div N \in Int /\ b % N \in 0 .. N - 1
  OBVIOUS
<1>2. (a % N) - (b % N) = N * ((b \div N) - (a \div N)) + (a - b)
  BY <1>1
<1>3. (b \div N) - (a \div N) \in Int
  BY <1>1
<1>4. QED
  BY <1>2, <1>3, Zenon

\* The truncated difference of two truncated times recovers the true one, as it
\* is when it is not negative and one range higher when it is.
LEMMA TruncatedDifference ==
  ASSUME NEW N \in Nat \ {0}, NEW a \in Int, NEW b \in Int
  PROVE  /\ a - b \in 0 .. N - 1 => ((a % N) - (b % N)) % N = a - b
         /\ (a - b) + N \in 0 .. N - 1 =>
              ((a % N) - (b % N)) % N = (a - b) + N
<1>1. PICK q \in Int : (a % N) - (b % N) = N * q + (a - b)
  BY DifferenceOfTruncated
<1>2. ASSUME a - b \in 0 .. N - 1
      PROVE  ((a % N) - (b % N)) % N = a - b
  BY <1>1, <1>2, RemainderIsUnique
<1>3. ASSUME (a - b) + N \in 0 .. N - 1
      PROVE  ((a % N) - (b % N)) % N = (a - b) + N
  <2>1. (a % N) - (b % N) = N * (q - 1) + ((a - b) + N)
    BY <1>1
  <2>2. q - 1 \in Int
    OBVIOUS
  <2>3. QED
    BY <1>3, <2>1, <2>2, RemainderIsUnique
<1>4. QED
  BY <1>2, <1>3

\* The signed 32-bit difference of two truncated times is their true
\* difference, as long as that fits the signed range: the wrap of micros()
\* between them does not matter (time_base.cpp:33).
LEMMA SignedDeltaIsExact ==
  ASSUME NEW a \in Nat, NEW b \in Nat, a - b < HalfRange, b - a <= HalfRange
  PROVE  SignedDelta(a % Range32, b % Range32) = a - b
<1>1. HalfRange \in Nat \ {0}
  BY HalfRangeAssumption
<1>2. Range32 \in Nat \ {0} /\ Range32 = HalfRange + HalfRange
  BY <1>1 DEF Range32
<1>3. CASE a >= b
  <2>1. a - b \in 0 .. Range32 - 1
    BY <1>1, <1>2, <1>3
  <2>2. ((a % Range32) - (b % Range32)) % Range32 = a - b
    BY <1>2, <2>1, TruncatedDifference
  <2>3. QED
    BY <2>2 DEF SignedDelta
<1>4. CASE a < b
  <2>1. (a - b) + Range32 \in 0 .. Range32 - 1
    BY <1>1, <1>2, <1>4
  <2>2. ((a % Range32) - (b % Range32)) % Range32 = (a - b) + Range32
    BY <1>2, <2>1, TruncatedDifference
  <2>3. ~((a - b) + Range32 < HalfRange) /\ a - b = ((a - b) + Range32) - Range32
    BY <1>1, <1>2
  <2>4. QED
    BY <2>2, <2>3 DEF SignedDelta
<1>5. QED
  BY <1>3, <1>4

-----------------------------------------------------------------------------
IInv == TypeOK /\ AccumIsTrueTime /\ ResultIsCurrent

LEMMA InitIInv == Init => IInv
<1>1. HalfRange \in Nat \ {0} /\ Range32 \in Nat \ {0} /\ MaxGap \in Nat
  BY HalfRangeAssumption, GapAssumption DEF Range32
<1>2. 0 % Range32 = 0
  BY <1>1
<1>3. QED
  BY <1>1, <1>2 DEF Init, IInv, TypeOK, AccumIsTrueTime, ResultIsCurrent

\* What one critical section does to the time: with the invariant, it moves to
\* the caller's reading if that is newer and stays otherwise.
LEMMA AccumulateStep ==
  ASSUME IInv, NEW c \in Callers, Accumulate(c)
  PROVE  /\ accum_us' = IF readAt[c] > accum_us THEN readAt[c] ELSE accum_us
         /\ last_us' = accum_us' % Range32
         /\ result' = [result EXCEPT ![c] = accum_us']
<1>1. /\ clock \in Nat /\ accum_us \in Nat /\ readAt[c] \in Nat
      /\ last_us = accum_us % Range32
      /\ now[c] = readAt[c] % Range32
      /\ readAt[c] <= clock /\ clock - readAt[c] <= MaxLag
      /\ accum_us <= clock /\ clock - accum_us <= MaxGap
  BY DEF IInv, TypeOK, AccumIsTrueTime, Accumulate
<1>2. readAt[c] - accum_us < HalfRange /\ accum_us - readAt[c] <= HalfRange
  BY <1>1, HalfRangeAssumption, GapAssumption
<1>3. SignedDelta(now[c], last_us) = readAt[c] - accum_us
  BY <1>1, <1>2, SignedDeltaIsExact
<1>4. CASE readAt[c] > accum_us
  BY <1>1, <1>3, <1>4 DEF Accumulate, Forward
<1>5. CASE readAt[c] <= accum_us
  BY <1>1, <1>3, <1>5 DEF Accumulate, Forward
<1>6. QED
  BY <1>1, <1>4, <1>5

LEMMA NextIInv == IInv /\ [Next]_vars => IInv'
<1> SUFFICES ASSUME IInv, [Next]_vars
             PROVE  IInv'
  OBVIOUS
<1> USE DEF IInv, TypeOK, AccumIsTrueTime, ResultIsCurrent
<1>0. /\ HalfRange \in Nat \ {0} /\ Range32 \in Nat \ {0}
      /\ MaxGap \in Nat /\ MaxLag \in Nat
  BY HalfRangeAssumption, GapAssumption DEF Range32
<1>1. CASE Tick
  BY <1>0, <1>1 DEF Tick
<1>2. ASSUME NEW c \in Callers, ReadMicros(c)
      PROVE  IInv'
  <2>1. clock % Range32 \in 0 .. Range32 - 1
    BY <1>0, Truncation
  <2>2. QED
    BY <1>0, <1>2, <2>1 DEF ReadMicros, Micros
<1>3. ASSUME NEW c \in Callers, Accumulate(c)
      PROVE  IInv'
  <2>1. /\ accum_us' = IF readAt[c] > accum_us THEN readAt[c] ELSE accum_us
        /\ last_us' = accum_us' % Range32
        /\ result' = [result EXCEPT ![c] = accum_us']
    BY <1>3, AccumulateStep
  <2>2. /\ accum_us' \in Nat /\ accum_us' >= accum_us
        /\ accum_us' >= readAt[c] /\ accum_us' <= clock
    BY <1>3, <2>1 DEF Accumulate
  <2>3. last_us' \in 0 .. Range32 - 1
    BY <1>0, <2>1, <2>2, Truncation
  <2>4. UNCHANGED <<clock, now, readAt>> /\ pc' = [pc EXCEPT ![c] = "idle"]
    BY <1>3 DEF Accumulate
  <2>5. QED
    BY <1>0, <2>1, <2>2, <2>3, <2>4
<1>4. CASE UNCHANGED vars
  BY <1>4 DEF vars
<1>5. QED
  BY <1>1, <1>2, <1>3, <1>4 DEF Next

\* Type correctness of the clock.
THEOREM TypeCorrect == Spec => []TypeOK
<1>1. IInv => TypeOK
  BY DEF IInv
<1>2. QED
  BY InitIInv, NextIInv, <1>1, PTL DEF Spec

\* Every call of time_boot_us() returns a time between its own reading of the
\* hardware and the present, for any number of callers, preemptions and wraps.
THEOREM TimestampsAreCurrent == Spec => []ResultIsCurrent
<1>1. IInv => ResultIsCurrent
  BY DEF IInv
<1>2. QED
  BY InitIInv, NextIInv, <1>1, PTL DEF Spec

\* The invariant behind the next theorem: nothing returned exceeds the time.
ResultsAreCounted == \A c \in Callers : result[c] <= accum_us

LEMMA CountedStep == IInv /\ ResultsAreCounted /\ [Next]_vars => ResultsAreCounted'
<1> SUFFICES ASSUME IInv, ResultsAreCounted, [Next]_vars
             PROVE  ResultsAreCounted'
  OBVIOUS
<1> USE DEF IInv, TypeOK, ResultsAreCounted
<1>1. CASE Tick \/ \E c \in Callers : ReadMicros(c)
  BY <1>1 DEF Tick, ReadMicros
<1>2. ASSUME NEW c \in Callers, Accumulate(c)
      PROVE  ResultsAreCounted'
  BY <1>2, AccumulateStep
<1>3. CASE UNCHANGED vars
  BY <1>3 DEF vars
<1>4. QED
  BY <1>1, <1>2, <1>3 DEF Next

\* Time never steps back between any two callers of time_boot_us(), for every
\* value of the constants: the calls return in the order of the clock.
THEOREM MonotonicForAll == Spec => NeverStepsBack
<1>1. Init => ResultsAreCounted
  <2> SUFFICES ASSUME Init, NEW c \in Callers
               PROVE  result[c] <= accum_us
    BY DEF ResultsAreCounted
  <2>1. result[c] = 0 /\ accum_us = 0
    BY DEF Init
  <2>2. QED
    BY <2>1
<1>2. ASSUME IInv, ResultsAreCounted, [Next]_vars
      PROVE  [\A c, d \in Callers :
                pc[c] = "read" /\ pc'[c] = "idle" => result'[c] >= result[d]]_vars
  <2> SUFFICES ASSUME Next,
                      NEW c \in Callers, NEW d \in Callers,
                      pc[c] = "read", pc'[c] = "idle"
               PROVE  result'[c] >= result[d]
    BY <1>2
  <2>1. Accumulate(c)
    BY <1>2 DEF Next, Tick, ReadMicros, Accumulate, IInv, TypeOK
  <2>2. result'[c] = accum_us' /\ accum_us' >= accum_us /\ accum_us' \in Nat
    BY <1>2, <2>1, AccumulateStep DEF IInv, TypeOK
  <2>3. QED
    BY <1>2, <2>2 DEF ResultsAreCounted, IInv, TypeOK
<1>3. QED
  BY <1>1, <1>2, InitIInv, NextIInv, CountedStep, PTL DEF Spec, NeverStepsBack
=============================================================================
