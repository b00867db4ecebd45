----------------------- MODULE CalibrationServiceProofs -----------------------
(***************************************************************************)
(* A call that returns "saved" tells of a new save that succeeded, and     *)
(* holds the executor no longer than its waits allow: for any timeouts,    *)
(* any number of attempts and calls, any range of save_seq, and whatever   *)
(* frames the link loses.  On a prompt link, a call that loses no frame    *)
(* holds the executor for less than the MCU's watchdog allows.             *)
(*                                                                         *)
(* Three invariants, each over the ones before: IInv (what the bridge is   *)
(* told is true), Bounds (types, waits, and saves against commands sent)   *)
(* and Prompt (one exchange at a time, and the progress of a save).        *)
(***************************************************************************)
EXTENDS CalibrationService, SequenceTheorems, TLAPS

Results == States \cup {"accepted", "rejected"}
Frames == [about : {"status", "ack", "id"}, result : Results, saves : Nat, age : Nat]

Typed ==
  /\ {saves, lastGood, seqBefore} \subseteq Nat
  /\ state \in States
  /\ last \in [state : Results, saves : Nat]
  /\ toHost \in Seq(Frames)

\* The MCU's state says how the last save it counted ended.
StateTellsOutcome == lastGood <= saves /\ (state = "saved" => lastGood = saves)

\* A report neither comes from the future nor tells of a save that did not succeed.
TrueReport(result, n) == n <= saves /\ (result = "saved" => n <= lastGood)

\* What the bridge knows, and what is on its way to it, is true; later reports count
\* no fewer saves than earlier ones.
LastIsTrue == seqBefore <= last.saves /\ TrueReport(last.state, last.saves)
IsStatus(i) == toHost[i].about = "status"
ReportsTrue ==
  \A i \in 1 .. Len(toHost) : IsStatus(i) =>
    last.saves <= toHost[i].saves /\ TrueReport(toHost[i].result, toHost[i].saves)
ReportsInOrder ==
  \A i, j \in 1 .. Len(toHost) : i < j /\ IsStatus(i) /\ IsStatus(j) =>
    toHost[i].saves <= toHost[j].saves

IInv ==
  /\ Typed /\ StateTellsOutcome /\ LastIsTrue /\ ReportsTrue /\ ReportsInOrder
  /\ SavedIsStored

-----------------------------------------------------------------------------
LEMMA FrameTyped ==
  ASSUME NEW a \in {"status", "ack", "id"}, NEW r \in Results, NEW n \in Nat
  PROVE  Frame(a, r, n) \in Frames
BY DEF Frame, Frames

\* The MCU adds a frame to toHost that, if it is a report, tells its present state.
LEMMA FrameAdded ==
  ASSUME IInv, NEW f \in Frames, toHost' = Append(toHost, f),
         f.about = "status" => f.result = state /\ f.saves = saves,
         UNCHANGED <<saves, lastGood, last>>
  PROVE  toHost' \in Seq(Frames) /\ ReportsTrue' /\ ReportsInOrder'
<1>1. /\ Len(toHost) \in Nat /\ toHost' \in Seq(Frames)
      /\ Len(toHost') = Len(toHost) + 1
      /\ \A i \in 1 .. Len(toHost) : toHost'[i] = toHost[i] /\ toHost[i] \in Frames
      /\ toHost'[Len(toHost) + 1] = f
  BY AppendProperties, LenProperties, ElementOfSeq DEF IInv, Typed
<1>2. /\ saves \in Nat /\ lastGood \in Nat /\ last.saves \in Nat /\ f.saves \in Nat
      /\ last.saves <= saves
      /\ f.about = "status" => last.saves <= f.saves /\ TrueReport(f.result, f.saves)
  BY DEF IInv, Typed, LastIsTrue, TrueReport, StateTellsOutcome, Frames
<1>3. ReportsTrue'
  <2>1. SUFFICES ASSUME NEW i \in 1 .. Len(toHost'), toHost'[i].about = "status"
                 PROVE  /\ last.saves <= toHost'[i].saves
                        /\ TrueReport(toHost'[i].result, toHost'[i].saves)
    BY DEF ReportsTrue, IsStatus, TrueReport
  <2>2. CASE i \in 1 .. Len(toHost)
    BY <1>1, <2>1, <2>2 DEF IInv, ReportsTrue, IsStatus
  <2>3. CASE i = Len(toHost) + 1
    BY <1>1, <1>2, <2>1, <2>3
  <2>4. QED
    BY <1>1, <2>2, <2>3
<1>4. ReportsInOrder'
  <2>1. SUFFICES ASSUME NEW i \in 1 .. Len(toHost'), NEW j \in 1 .. Len(toHost'), i < j,
                        toHost'[i].about = "status", toHost'[j].about = "status"
                 PROVE  toHost'[i].saves <= toHost'[j].saves
    BY DEF ReportsInOrder, IsStatus
  <2>2. i \in 1 .. Len(toHost) /\ toHost'[i] = toHost[i]
    BY <1>1, <2>1
  <2>3. CASE j \in 1 .. Len(toHost)
    BY <1>1, <2>1, <2>2, <2>3 DEF IInv, ReportsInOrder, IsStatus
  <2>4. CASE j = Len(toHost) + 1
    <3>1. toHost[i].saves <= saves
      BY <2>1, <2>2 DEF IInv, ReportsTrue, IsStatus, TrueReport
    <3>2. QED
      BY <1>1, <2>1, <2>2, <2>4, <3>1
  <2>5. QED
    BY <1>1, <2>3, <2>4
<1>5. QED
  BY <1>1, <1>3, <1>4

\* Time passing changes the ages of frames only.
LEMMA FramesAged ==
  ASSUME IInv, toHost' = Aged(toHost), UNCHANGED <<saves, lastGood, last>>
  PROVE  toHost' \in Seq(Frames) /\ ReportsTrue' /\ ReportsInOrder'
<1>1. /\ Len(toHost) \in Nat /\ DOMAIN toHost = 1 .. Len(toHost)
      /\ \A i \in 1 .. Len(toHost) : toHost[i] \in Frames
  BY LenProperties, ElementOfSeq DEF IInv, Typed
<1>2. \A i \in 1 .. Len(toHost) : [toHost[i] EXCEPT !.age = @ + 1] \in Frames
  BY <1>1 DEF Frames
<1>3. toHost' \in [1 .. Len(toHost) -> Frames]
  BY <1>1, <1>2 DEF Aged
<1>4. toHost' \in Seq(Frames) /\ Len(toHost') = Len(toHost)
  BY <1>1, <1>3
<1>5. \A i \in 1 .. Len(toHost) : /\ toHost'[i].about = toHost[i].about
                                  /\ toHost'[i].result = toHost[i].result
                                  /\ toHost'[i].saves = toHost[i].saves
  BY <1>1 DEF Aged, Frames
<1>6. QED
  BY <1>4, <1>5 DEF IInv, ReportsTrue, ReportsInOrder, IsStatus, TrueReport

\* Receiving the head of toHost keeps what is left true, and what the bridge knows.
LEMMA FrameReceived ==
  ASSUME IInv, Receive
  PROVE  IInv'
<1>1. /\ toHost \in Seq(Frames) /\ toHost # <<>> /\ toHost' = Tail(toHost)
      /\ UNCHANGED <<saves, lastGood, seqBefore, state, reply>>
  BY DEF IInv, Typed, Receive, bridge, mcu, outcomes
<1>2. /\ Len(toHost) \in Nat /\ Len(toHost) >= 1
      /\ toHost' \in Seq(Frames) /\ Len(toHost') = Len(toHost) - 1
      /\ \A i \in 1 .. Len(toHost') : toHost'[i] = toHost[i + 1]
      /\ Head(toHost) = toHost[1]
      /\ \A i \in 1 .. Len(toHost) : toHost[i] \in Frames
  BY <1>1, HeadTailProperties, LenProperties, EmptySeq, ElementOfSeq
<1>3. /\ saves \in Nat /\ lastGood \in Nat /\ seqBefore \in Nat
      /\ last \in [state : Results, saves : Nat]
      /\ \A i \in 1 .. Len(toHost') : i + 1 \in 1 .. Len(toHost) /\ 1 < i + 1
  BY <1>2 DEF IInv, Typed
<1>4. /\ Typed' /\ LastIsTrue'
      /\ \A i \in 1 .. Len(toHost') : toHost'[i].about = "status" =>
           last'.saves <= toHost'[i].saves
  <2>1. CASE toHost[1].about = "status"
    <3>1. last' = [state |-> toHost[1].result, saves |-> toHost[1].saves]
      BY <1>2, <2>1 DEF Receive
    <3>2. toHost[1].result \in Results /\ toHost[1].saves \in Nat
      BY <1>2 DEF Frames
    <3>3. /\ last.saves <= toHost[1].saves
          /\ TrueReport(toHost[1].result, toHost[1].saves)
      BY <1>2, <2>1 DEF IInv, ReportsTrue, IsStatus
    <3>4. Typed'
      BY <1>1, <1>2, <3>1, <3>2 DEF IInv, Typed
    <3>5. LastIsTrue'
      BY <1>1, <1>3, <3>1, <3>2, <3>3 DEF IInv, LastIsTrue, TrueReport
    <3>6. \A i \in 1 .. Len(toHost') : toHost'[i].about = "status" =>
            last'.saves <= toHost'[i].saves
      BY <1>2, <1>3, <2>1, <3>1 DEF IInv, ReportsInOrder, IsStatus
    <3>7. QED
      BY <3>4, <3>5, <3>6
  <2>2. CASE toHost[1].about # "status"
    <3>1. last' = last
      BY <1>2, <2>2 DEF Receive
    <3>2. Typed' /\ LastIsTrue'
      BY <1>1, <1>2, <3>1 DEF IInv, Typed, LastIsTrue, TrueReport
    <3>3. \A i \in 1 .. Len(toHost') : toHost'[i].about = "status" =>
            last'.saves <= toHost'[i].saves
      BY <1>2, <1>3, <3>1 DEF IInv, ReportsTrue, IsStatus
    <3>4. QED
      BY <3>2, <3>3
  <2>3. QED
    BY <2>1, <2>2
<1>5. ReportsTrue'
  BY <1>1, <1>2, <1>3, <1>4 DEF IInv, ReportsTrue, IsStatus, TrueReport
<1>6. ReportsInOrder'
  <2>1. SUFFICES ASSUME NEW i \in 1 .. Len(toHost'), NEW j \in 1 .. Len(toHost'), i < j,
                        toHost'[i].about = "status", toHost'[j].about = "status"
                 PROVE  toHost'[i].saves <= toHost'[j].saves
    BY DEF ReportsInOrder, IsStatus
  <2>2. /\ i + 1 \in 1 .. Len(toHost) /\ j + 1 \in 1 .. Len(toHost) /\ i + 1 < j + 1
        /\ toHost'[i] = toHost[i + 1] /\ toHost'[j] = toHost[j + 1]
    BY <1>2, <2>1
  <2>3. QED
    BY <2>1, <2>2 DEF IInv, ReportsInOrder, IsStatus
<1>7. StateTellsOutcome' /\ SavedIsStored'
  BY <1>1 DEF IInv, StateTellsOutcome, SavedIsStored
<1>8. QED
  BY <1>4, <1>5, <1>6, <1>7 DEF IInv

\* A step that leaves alone what the reports and the MCU's outcomes are made of, and
\* ends no save call with "saved".
LEMMA Unaffected ==
  ASSUME IInv, UNCHANGED <<saves, lastGood, state, seqBefore, last, toHost>>,
         reply' = "saved" => reply = "saved"
  PROVE  IInv'
BY DEF IInv, Typed, StateTellsOutcome, LastIsTrue, TrueReport, ReportsTrue, ReportsInOrder,
       IsStatus, SavedIsStored

-----------------------------------------------------------------------------
LEMMA InitHolds == Init => IInv
<1>1. SUFFICES ASSUME Init PROVE IInv
  OBVIOUS
<1>2. /\ saves = 0 /\ lastGood = 0 /\ seqBefore = 0 /\ state = "none" /\ reply = "none"
      /\ last = NoStatus /\ toHost = <<>>
  BY <1>1 DEF Init
<1>3. Len(toHost) = 0 /\ toHost \in Seq(Frames)
  BY <1>2
<1>4. Typed
  BY <1>2, <1>3 DEF Typed, NoStatus, States, Results
<1>5. QED
  BY <1>2, <1>3, <1>4 DEF IInv, StateTellsOutcome, LastIsTrue, TrueReport, ReportsTrue,
     ReportsInOrder, IsStatus, SavedIsStored, NoStatus

LEMMA CallHolds ==
  ASSUME IInv, NEW service \in Services, Call(service)
  PROVE  IInv'
<1>1. /\ UNCHANGED <<saves, lastGood, state, last, toHost>>
      /\ reply' = "none"
      /\ seqBefore' = last.saves \/ seqBefore' = 0
  BY DEF Call, Send, Lost, mcu, outcomes
<1>2. last.saves \in Nat /\ seqBefore' \in Nat /\ seqBefore' <= last.saves
  BY <1>1 DEF IInv, Typed
<1>3. QED
  BY <1>1, <1>2 DEF IInv, Typed, StateTellsOutcome, LastIsTrue, TrueReport, ReportsTrue,
     ReportsInOrder, IsStatus, SavedIsStored

\* The one step that may return "saved".
LEMMA EndOnOutcomeHolds ==
  ASSUME IInv, EndOnOutcome
  PROVE  IInv'
<1>1. /\ UNCHANGED <<saves, lastGood, state, seqBefore, last, toHost>>
      /\ reply' = "saved" => last.state = "saved"
      /\ SaveSeq(last.saves) # SaveSeq(seqBefore)
  BY DEF EndOnOutcome, Return, Finished, SeqMoved, received, mcu, outcomes, link
<1>2. /\ seqBefore \in Nat /\ last.saves \in Nat /\ lastGood \in Nat
      /\ seqBefore <= last.saves
      /\ last.state = "saved" => last.saves <= lastGood
  BY DEF IInv, Typed, LastIsTrue, TrueReport
<1>3. seqBefore < last.saves
  BY <1>1, <1>2
<1>4. SavedIsStored'
  BY <1>1, <1>2, <1>3 DEF SavedIsStored
<1>5. QED
  BY <1>1, <1>4 DEF IInv, Typed, StateTellsOutcome, LastIsTrue, TrueReport, ReportsTrue,
     ReportsInOrder, IsStatus

LEMMA McuEndsSaveHolds ==
  ASSUME IInv, McuEndsSave
  PROVE  IInv'
<1>1. /\ saves' = saves + 1 /\ state' \in States
      /\ lastGood' = saves' \/ (state' # "saved" /\ lastGood' = lastGood)
      /\ state' = "saved" => lastGood' = saves'
      /\ UNCHANGED <<seqBefore, last, toHost, reply>>
  BY DEF McuEndsSave, States, bridge, received, link
<1>2. /\ saves \in Nat /\ lastGood \in Nat /\ lastGood <= saves
      /\ seqBefore \in Nat /\ last.saves \in Nat
      /\ \A i \in 1 .. Len(toHost) : toHost[i].saves \in Nat
  <2>1. \A i \in 1 .. Len(toHost) : toHost[i] \in Frames
    BY ElementOfSeq DEF IInv, Typed
  <2>2. \A i \in 1 .. Len(toHost) : toHost[i].saves \in Nat
    BY <2>1 DEF Frames
  <2>3. QED
    BY <2>2 DEF IInv, Typed, StateTellsOutcome
<1>3. /\ saves' \in Nat /\ lastGood' \in Nat
      /\ saves <= saves' /\ lastGood <= lastGood' /\ lastGood' <= saves'
  BY <1>1, <1>2
<1>4. Typed' /\ StateTellsOutcome'
  BY <1>1, <1>3 DEF IInv, Typed, StateTellsOutcome
<1>5. LastIsTrue' /\ ReportsTrue'
  BY <1>1, <1>2, <1>3 DEF IInv, LastIsTrue, ReportsTrue, TrueReport, IsStatus
<1>6. ReportsInOrder'
  BY <1>1 DEF IInv, ReportsInOrder, IsStatus
<1>7. SavedIsStored'
  BY <1>1, <1>2, <1>3 DEF IInv, SavedIsStored
<1>8. QED
  BY <1>4, <1>5, <1>6, <1>7 DEF IInv

\* A frame added, or lost, with the rest of what matters unchanged.
LEMMA AddedOrLost ==
  ASSUME IInv, NEW f \in Frames, toHost' = Append(toHost, f) \/ toHost' = toHost,
         f.about = "status" => f.result = state /\ f.saves = saves,
         saves' = saves, lastGood' = lastGood, state' = state, seqBefore' = seqBefore,
         last' = last, reply' = reply
  PROVE  IInv'
<1>1. CASE toHost' = toHost
  BY <1>1, Unaffected
<1>2. CASE toHost' = Append(toHost, f)
  <2>1. toHost' \in Seq(Frames) /\ ReportsTrue' /\ ReportsInOrder'
    BY <1>2, FrameAdded
  <2>2. QED
    BY <2>1 DEF IInv, Typed, StateTellsOutcome, LastIsTrue, TrueReport, SavedIsStored
<1>3. QED
  BY <1>1, <1>2

LEMMA LinkTaskHolds ==
  ASSUME IInv, LinkTask
  PROVE  IInv'
<1>1. CASE McuSendsId
  <2>1. "none" \in Results
    BY DEF Results, States
  <2>2. Frame("id", "none", 0) \in Frames
    BY <2>1, FrameTyped
  <2>3. QED
    BY <1>1, <2>2, AddedOrLost DEF McuSendsId, Answer, Frame, bridge, received, mcu, outcomes
<1>2. CASE McuTakesSession
  <2>1. Frame("ack", "accepted", 0) \in Frames
    BY FrameTyped DEF Results
  <2>2. QED
    BY <1>2, <2>1, AddedOrLost
    DEF McuTakesSession, Ack, Answer, Frame, bridge, received, mcu, outcomes
<1>3. CASE McuTakesSave
  <2>1. PICK r \in {"accepted", "rejected"} :
             toHost' = Append(toHost, Frame("ack", r, 0)) \/ toHost' = toHost
    BY <1>3 DEF McuTakesSave, Ack, Answer
  <2>2. Frame("ack", r, 0) \in Frames /\ Frame("ack", r, 0).about = "ack"
    BY FrameTyped DEF Results, Frame
  <2>3. UNCHANGED <<saves, lastGood, state, seqBefore, last, reply>>
    BY <1>3 DEF McuTakesSave, bridge, received, mcu, outcomes
  <2>4. QED
    BY <2>1, <2>2, <2>3, AddedOrLost
<1>4. CASE McuReports
  <2>1. state \in Results /\ saves \in Nat
    BY DEF IInv, Typed, Results
  <2>2. Frame("status", state, saves) \in Frames
    BY <2>1, FrameTyped
  <2>3. /\ Frame("status", state, saves).result = state
        /\ Frame("status", state, saves).saves = saves
    BY DEF Frame
  <2>4. toHost' = Append(toHost, Frame("status", state, saves)) \/ toHost' = toHost
    BY <1>4 DEF McuReports, Lost
  <2>5. UNCHANGED <<saves, lastGood, state, seqBefore, last, reply>>
    BY <1>4 DEF McuReports, bridge, received, mcu, outcomes
  <2>6. QED
    BY <2>2, <2>3, <2>4, <2>5, AddedOrLost
<1>5. QED
  BY <1>1, <1>2, <1>3, <1>4 DEF LinkTask

LEMMA ImuTaskHolds ==
  ASSUME IInv, ImuTask
  PROVE  IInv'
<1>1. CASE McuBeginsSave
  BY <1>1 DEF McuBeginsSave, bridge, received, outcomes, link, IInv, Typed, States,
     StateTellsOutcome, LastIsTrue, TrueReport, ReportsTrue, ReportsInOrder, IsStatus,
     SavedIsStored
<1>2. QED
  BY <1>1, McuEndsSaveHolds DEF ImuTask

LEMMA ExecutorHolds ==
  ASSUME IInv, Executor
  PROVE  IInv'
<1>1. CASE Retry
  BY <1>1, Unaffected DEF Retry, Send, Lost, received, mcu, outcomes
<1>2. CASE GiveUp
  BY <1>2, Unaffected DEF GiveUp, Return, received, mcu, outcomes, link
<1>3. CASE EndOnId
  BY <1>3, Unaffected DEF EndOnId, Return, received, mcu, outcomes, link
<1>4. CASE EndOnAnswer
  BY <1>4, Unaffected DEF EndOnAnswer, Return, mcu, outcomes, link
<1>5. CASE AwaitOutcome
  BY <1>5, Unaffected DEF AwaitOutcome, mcu, outcomes, link
<1>6. CASE TimeOut
  BY <1>6, Unaffected DEF TimeOut, Return, received, mcu, outcomes, link
<1>7. QED
  BY <1>1, <1>2, <1>3, <1>4, <1>5, <1>6, EndOnOutcomeHolds DEF Executor

LEMMA StepHolds == IInv /\ [Next]_vars => IInv'
<1>1. SUFFICES ASSUME IInv, [Next]_vars PROVE IInv'
  OBVIOUS
<1>2. CASE \E service \in Services : Call(service)
  BY <1>1, <1>2, CallHolds
<1>3. CASE CallWithoutStatus
  BY <1>1, <1>3, Unaffected DEF CallWithoutStatus, received, mcu, outcomes, link
<1>4. CASE Tick
  <2>1. /\ toHost' = Aged(toHost)
        /\ UNCHANGED <<saves, lastGood, state, seqBefore, last, reply>>
    BY <1>4 DEF Tick, received, outcomes
  <2>2. toHost' \in Seq(Frames) /\ ReportsTrue' /\ ReportsInOrder'
    BY <1>1, <2>1, FramesAged
  <2>3. QED
    BY <1>1, <2>1, <2>2
    DEF IInv, Typed, StateTellsOutcome, LastIsTrue, TrueReport, SavedIsStored
<1>5. CASE UNCHANGED vars
  BY <1>1, <1>5, Unaffected DEF vars, bridge, received, mcu, outcomes, link
<1>6. QED
  BY <1>1, <1>2, <1>3, <1>4, <1>5, ExecutorHolds, FrameReceived, LinkTaskHolds, ImuTaskHolds
  DEF Next

\* saveImuCalibrationCb() never takes an outcome it had been told before for that of a
\* new save.
THEOREM SavedIsNew == Spec => []SavedIsStored
<1>1. IInv => SavedIsStored
  BY DEF IInv
<1>2. QED
  BY <1>1, InitHolds, StepHolds, PTL DEF Spec

-----------------------------------------------------------------------------
\* Types, and how long a call takes.  A second invariant over IInv: the executor, what
\* the receive thread keeps, and the MCU with the commands on their way to it.

\* Commands sent by n calls, and the time n attempts of a call have waited.
Commands(n) == n * Attempts
Waits(n) == n * AckTimeout

\* Every wait is bounded, and the calls and attempts made tell how long the executor
\* has been held.
Holding ==
  /\ pc \in {"idle", "acking", "finishing"} /\ call \in Services \cup {"none"}
  /\ attempt \in 0 .. Attempts /\ calls \in 0 .. MaxCalls
  /\ waited \in Nat /\ held \in Nat /\ reply \in Replies
  /\ pc = "idle" => waited = 0 /\ held = 0
  /\ pc # "idle" => call \in Services /\ attempt >= 1 /\ calls >= 1
  /\ pc = "acking" => waited <= AckTimeout /\ held <= Waits(attempt - 1) + waited
  /\ pc = "finishing" => waited <= DoneTimeout /\ held <= Waits(Attempts) + waited

ToHost ==
  [about : {"status"}, result : States, saves : Nat, age : Nat]
    \cup [about : {"ack"}, result : {"accepted", "rejected"}, saves : Nat, age : Nat]
    \cup [about : {"id"}, result : {"none"}, saves : Nat, age : Nat]
ToMcu == [about : Services, result : {"none"}, saves : Nat, age : Nat]

Inbox ==
  /\ ack \in {"none", "accepted", "rejected"} /\ {gotId, seen} \subseteq BOOLEAN
  /\ last \in [state : States, saves : Nat]
  /\ toHost \in Seq(ToHost) /\ Len(toHost) <= MaxInFlight

\* The commands sent so far; those on their way, the save under way and the saves
\* completed are as many at most.
Sent == IF pc = "idle" THEN Commands(calls) ELSE Commands(calls - 1) + attempt
SaveNow == IF Saving THEN 1 ELSE 0

Working ==
  /\ {saveRequested, clean} \subseteq BOOLEAN /\ state \in States
  /\ ~(saveRequested /\ state = "saving")
  /\ sinceRequest \in 0 .. SaveTime /\ sinceStatus \in 0 .. StatusPeriod
  /\ toMcu \in Seq(ToMcu) /\ Len(toMcu) <= MaxInFlight
  /\ saves \in Nat /\ saves + SaveNow + Len(toMcu) <= Sent

Bounds == Holding /\ Inbox /\ Working

LEMMA Products ==
  ASSUME NEW k \in Nat, NEW m \in Nat, NEW n \in 0 .. m
  PROVE  n * k \in Nat /\ n * k <= m * k /\ (n + 1) * k = n * k + k
OBVIOUS

LEMMA Constants ==
  /\ AckTimeout \in Nat \ {0} /\ Attempts \in Nat \ {0} /\ DoneTimeout \in Nat \ {0}
  /\ SeqRange \in Nat \ {0} /\ StatusPeriod \in Nat \ {0} /\ Watchdog \in Nat \ {0}
  /\ MaxCalls \in Nat \ {0} /\ MaxInFlight \in Nat \ {0}
  /\ SaveTime \in Nat /\ MaxDelay \in Nat
BY TimesAssumption

LEMMA CommandsGrow ==
  ASSUME NEW n \in 0 .. MaxCalls
  PROVE  /\ Commands(n) \in Nat /\ Commands(n) <= MaxSaves /\ MaxSaves \in Nat
         /\ Commands(n + 1) = Commands(n) + Attempts
<1>1. /\ n * Attempts \in Nat /\ n * Attempts <= MaxCalls * Attempts
      /\ (n + 1) * Attempts = n * Attempts + Attempts
  BY Products, Constants
<1>2. MaxCalls * Attempts \in Nat
  BY Products, Constants
<1>3. QED
  BY <1>1, <1>2 DEF Commands, MaxSaves

LEMMA WaitsGrow ==
  ASSUME NEW n \in 0 .. Attempts
  PROVE  /\ Waits(n) \in Nat /\ Waits(n) <= Waits(Attempts)
         /\ Waits(n + 1) = Waits(n) + AckTimeout
         /\ Waits(Attempts) \in Nat /\ Longest = Waits(Attempts) + DoneTimeout
<1>1. /\ n * AckTimeout \in Nat /\ n * AckTimeout <= Attempts * AckTimeout
      /\ (n + 1) * AckTimeout = n * AckTimeout + AckTimeout
  BY Products, Constants
<1>2. Attempts * AckTimeout \in Nat
  BY Products, Constants
<1>3. QED
  BY <1>1, <1>2 DEF Waits, Longest

\* A command put on the link, or lost.
LEMMA CommandSent ==
  ASSUME Bounds, NEW service \in Services, NEW soFar \in BOOLEAN, Send(service, soFar)
  PROVE  /\ toMcu' \in Seq(ToMcu) /\ Len(toMcu') <= MaxInFlight
         /\ Len(toMcu') <= Len(toMcu) + 1 /\ Len(toMcu) \in Nat /\ Len(toMcu') \in Nat
         /\ clean' \in BOOLEAN /\ toHost' = toHost
<1>1. toMcu \in Seq(ToMcu) /\ Len(toMcu) \in Nat /\ Len(toMcu) <= MaxInFlight
  BY LenProperties DEF Bounds, Working
<1>2. Frame(service, "none", 0) \in ToMcu
  BY DEF Frame, ToMcu
<1>3. clean' \in BOOLEAN /\ toHost' = toHost
  BY DEF Send, Lost
<1>4. CASE toMcu' = Append(toMcu, Frame(service, "none", 0)) /\ Len(toMcu) < MaxInFlight
  <2>1. toMcu' \in Seq(ToMcu) /\ Len(toMcu') = Len(toMcu) + 1
    BY <1>1, <1>2, <1>4, AppendProperties
  <2>2. QED
    BY <1>1, <1>3, <1>4, <2>1, Constants
<1>5. CASE toMcu' = toMcu
  BY <1>1, <1>3, <1>5
<1>6. QED
  BY <1>4, <1>5 DEF Send, Lost

\* The MCU takes a command and answers it.
LEMMA CommandAnswered ==
  ASSUME Bounds, NEW f \in ToHost, toMcu # <<>>, Answer(f)
  PROVE  /\ toMcu' \in Seq(ToMcu) /\ Len(toMcu') = Len(toMcu) - 1 /\ Len(toMcu) \in Nat
         /\ Len(toMcu') \in Nat
         /\ toHost' \in Seq(ToHost) /\ Len(toHost') <= MaxInFlight /\ clean' \in BOOLEAN
<1>1. /\ toMcu \in Seq(ToMcu) /\ toHost \in Seq(ToHost) /\ Len(toHost) <= MaxInFlight
      /\ Len(toHost) \in Nat /\ clean \in BOOLEAN
  BY LenProperties DEF Bounds, Inbox, Working
<1>2. toMcu' = Tail(toMcu)
  BY DEF Answer
<1>3. /\ toMcu' \in Seq(ToMcu) /\ Len(toMcu') = Len(toMcu) - 1 /\ Len(toMcu) \in Nat
      /\ Len(toMcu') \in Nat
  BY <1>1, <1>2, HeadTailProperties, LenProperties, EmptySeq
<1>4. CASE toHost' = Append(toHost, f) /\ Len(toHost) < MaxInFlight
  <2>1. toHost' \in Seq(ToHost) /\ Len(toHost') = Len(toHost) + 1
    BY <1>1, <1>4, AppendProperties
  <2>2. QED
    BY <1>1, <1>3, <1>4, <2>1, Constants DEF Answer
<1>5. CASE toHost' = toHost
  BY <1>1, <1>3, <1>5 DEF Answer
<1>6. QED
  BY <1>4, <1>5 DEF Answer

\* Frames keep their kind as they age.
LEMMA AllAged ==
  ASSUME NEW S, NEW q \in Seq(S), \A f \in S : [f EXCEPT !.age = @ + 1] \in S
  PROVE  Aged(q) \in Seq(S) /\ Len(Aged(q)) = Len(q)
<1>1. /\ Len(q) \in Nat /\ DOMAIN q = 1 .. Len(q)
      /\ \A i \in 1 .. Len(q) : q[i] \in S
  BY LenProperties, ElementOfSeq
<1>2. Aged(q) \in [1 .. Len(q) -> S]
  BY <1>1 DEF Aged
<1>3. QED
  BY <1>1, <1>2

LEMMA InitBounds == Init => Bounds
<1>1. SUFFICES ASSUME Init PROVE Bounds
  OBVIOUS
<1>2. Commands(0) \in Nat /\ Longest \in Nat
  BY CommandsGrow, WaitsGrow, Constants
<1>3. Len(<<>>) = 0 /\ <<>> \in Seq(ToMcu) /\ <<>> \in Seq(ToHost)
  OBVIOUS
<1>4. Holding
  BY <1>1, <1>2, Constants DEF Init, Holding, Replies
<1>5. Inbox
  <2>1. NoStatus \in [state : States, saves : Nat]
    BY DEF NoStatus, States
  <2>2. {gotId, seen} \subseteq BOOLEAN
    BY <1>1, Zenon DEF Init
  <2>3. Len(toHost) = 0 /\ toHost \in Seq(ToHost)
    BY <1>1, <1>3 DEF Init
  <2>4. QED
    BY <1>1, <2>1, <2>2, <2>3, Constants DEF Init, Inbox
<1>6. Working
  <2>1. SaveNow = 0 /\ Sent = Commands(0) /\ Len(toMcu) = 0 /\ toMcu \in Seq(ToMcu)
    BY <1>1, <1>3 DEF Init, SaveNow, Saving, Sent
  <2>2. saves + SaveNow + Len(toMcu) <= Sent
    BY <1>1, <1>2, <2>1 DEF Init
  <2>3. {saveRequested, clean} \subseteq BOOLEAN
    BY <1>1, Zenon DEF Init
  <2>4. state = "none" /\ state \in States /\ sinceRequest = 0 /\ sinceStatus = 0 /\ saves = 0
    BY <1>1 DEF Init, States
  <2>5. QED
    BY <1>1, <2>1, <2>2, <2>3, <2>4, Constants DEF Working
<1>7. QED
  BY <1>4, <1>5, <1>6 DEF Bounds

LEMMA CallBounds ==
  ASSUME Bounds, NEW service \in Services, Call(service)
  PROVE  Bounds'
<1>1. /\ pc = "idle" /\ pc' = "acking" /\ call' = service /\ attempt' = 1 /\ waited' = 0
      /\ calls < MaxCalls /\ calls' = calls + 1 /\ reply' = "none"
      /\ UNCHANGED held
      /\ ack' \in {ack, "none"} /\ gotId' \in {gotId, FALSE}
      /\ UNCHANGED <<seen, last, saveRequested, state, sinceRequest, saves, sinceStatus>>
  BY DEF Call, Forgotten, mcu, outcomes
<1>2. /\ toMcu' \in Seq(ToMcu) /\ Len(toMcu') <= MaxInFlight
      /\ Len(toMcu') <= Len(toMcu) + 1 /\ Len(toMcu) \in Nat /\ Len(toMcu') \in Nat
      /\ clean' \in BOOLEAN /\ toHost' = toHost
  BY CommandSent DEF Call
<1>3. Waits(0) \in Nat /\ Longest \in Nat
  BY WaitsGrow, Constants
<1>4. Holding'
  BY <1>1, <1>3, Constants DEF Bounds, Holding, Replies
<1>5. Inbox'
  BY <1>1, <1>2 DEF Bounds, Inbox
<1>6. Working'
  <2>1. calls \in 0 .. MaxCalls /\ Commands(calls) \in Nat
    BY CommandsGrow DEF Bounds, Holding
  <2>2. Sent = Commands(calls) /\ Sent' = Commands(calls) + 1
    BY <1>1, <2>1 DEF Sent
  <2>3. SaveNow' = SaveNow /\ SaveNow \in {0, 1}
    BY <1>1 DEF SaveNow, Saving
  <2>4. QED
    BY <1>1, <1>2, <2>1, <2>2, <2>3 DEF Bounds, Working
<1>7. QED
  BY <1>4, <1>5, <1>6 DEF Bounds

\* The executor's steps but the retry send nothing; a call that ends has sent what
\* Attempts allows.
LEMMA ExecutorEnds ==
  ASSUME Bounds, UNCHANGED <<seen, last, gotId, saveRequested, state, sinceRequest, saves,
                             sinceStatus, toMcu, toHost, clean>>,
         Holding', ack' \in {ack, "none"}, Sent <= Sent', Sent' \in Nat, Sent \in Nat
  PROVE  Bounds'
<1>1. Inbox'
  BY DEF Bounds, Inbox
<1>2. SaveNow' = SaveNow /\ SaveNow \in {0, 1} /\ Len(toMcu) \in Nat
  BY LenProperties DEF SaveNow, Saving, Bounds, Working
<1>3. Working'
  BY <1>2 DEF Bounds, Working
<1>4. QED
  BY <1>1, <1>3 DEF Bounds

LEMMA ReturnSent ==
  ASSUME Bounds, pc # "idle", pc' = "idle", calls' = calls
  PROVE  Sent <= Sent' /\ Sent' \in Nat /\ Sent \in Nat
<1>1. calls \in 1 .. MaxCalls /\ attempt \in 0 .. Attempts /\ calls - 1 \in 0 .. MaxCalls
  BY Constants DEF Bounds, Holding
<1>2. /\ Commands(calls) \in Nat /\ Commands(calls - 1) \in Nat
      /\ Commands(calls - 1 + 1) = Commands(calls - 1) + Attempts
  BY <1>1, CommandsGrow
<1>3. calls - 1 + 1 = calls
  BY <1>1
<1>4. Sent' = Commands(calls) /\ Sent = Commands(calls - 1) + attempt
  BY DEF Sent
<1>5. QED
  BY <1>1, <1>2, <1>3, <1>4, Constants

\* How long the executor has been held, in each of its states.
LEMMA HeldLong ==
  ASSUME Bounds
  PROVE  held <= Longest /\ Longest \in Nat /\ held \in Nat
<1>1. Longest \in Nat /\ Waits(Attempts) \in Nat /\ Longest = Waits(Attempts) + DoneTimeout
  BY WaitsGrow, Constants
<1>2. CASE pc = "acking"
  <2>1. attempt - 1 \in 0 .. Attempts /\ attempt \in 0 .. Attempts /\ attempt - 1 + 1 = attempt
    BY <1>2, Constants DEF Bounds, Holding
  <2>2. /\ Waits(attempt - 1 + 1) = Waits(attempt - 1) + AckTimeout /\ Waits(attempt - 1) \in Nat
        /\ Waits(attempt) <= Waits(Attempts) /\ Waits(attempt) \in Nat
    BY <2>1, WaitsGrow
  <2>3. waited \in Nat /\ held \in Nat /\ waited <= AckTimeout
        /\ held <= Waits(attempt - 1) + waited
    BY <1>2 DEF Bounds, Holding
  <2>4. QED
    BY <1>1, <2>1, <2>2, <2>3, Constants
<1>3. CASE pc # "acking"
  BY <1>1, <1>3, Constants DEF Bounds, Holding
<1>4. QED
  BY <1>2, <1>3

LEMMA ReturnBounds ==
  ASSUME Bounds, pc # "idle", UNCHANGED calls, NEW r \in Replies, Return(r),
         UNCHANGED <<seen, last, gotId, saveRequested, state, sinceRequest, saves,
                     sinceStatus, toMcu, toHost, clean>>,
         ack' \in {ack, "none"}
  PROVE  Bounds'
<1>1. /\ pc' = "idle" /\ call' = "none" /\ reply' = r /\ attempt' = 0 /\ waited' = 0
      /\ held' = 0
  BY DEF Return
<1>2. Holding'
  BY <1>1, Constants DEF Bounds, Holding
<1>3. QED
  BY <1>1, <1>2, ExecutorEnds, ReturnSent

LEMMA RetryBounds ==
  ASSUME Bounds, Retry
  PROVE  Bounds'
<1>1. /\ pc = "acking" /\ pc' = pc /\ waited = AckTimeout /\ waited' = 0
      /\ attempt < Attempts /\ attempt' = attempt + 1
      /\ UNCHANGED <<call, reply, calls, held, ack, gotId, seen, last, saveRequested,
                     state, sinceRequest, saves, sinceStatus>>
  BY DEF Retry, MayRetry, AttemptsLeft, received, mcu, outcomes
<1>2. attempt \in 1 .. Attempts /\ calls \in 1 .. MaxCalls /\ call \in Services
      /\ clean \in BOOLEAN
  BY <1>1, Constants DEF Bounds, Holding, Working
<1>3. /\ toMcu' \in Seq(ToMcu) /\ Len(toMcu') <= MaxInFlight
      /\ Len(toMcu') <= Len(toMcu) + 1 /\ Len(toMcu) \in Nat /\ Len(toMcu') \in Nat
      /\ clean' \in BOOLEAN /\ toHost' = toHost
  BY <1>2, CommandSent DEF Retry
<1>4. attempt - 1 \in 0 .. Attempts /\ attempt - 1 + 1 = attempt
      /\ attempt' - 1 = attempt /\ attempt \in 0 .. Attempts /\ calls - 1 \in 0 .. MaxCalls
  BY <1>1, <1>2, Constants
<1>5. Waits(attempt - 1 + 1) = Waits(attempt - 1) + AckTimeout /\ Waits(attempt) \in Nat
      /\ Waits(attempt - 1) \in Nat
  BY <1>4, WaitsGrow
<1>6. Holding'
  BY <1>1, <1>2, <1>4, <1>5, Constants DEF Bounds, Holding
<1>7. Inbox'
  BY <1>1, <1>3 DEF Bounds, Inbox
<1>8. Working'
  <2>1. Commands(calls - 1) \in Nat
    BY <1>4, CommandsGrow
  <2>2. Sent = Commands(calls - 1) + attempt /\ Sent' = Commands(calls - 1) + attempt + 1
    BY <1>1, <1>2, <2>1 DEF Sent
  <2>3. SaveNow' = SaveNow /\ SaveNow \in {0, 1}
    BY <1>1 DEF SaveNow, Saving
  <2>4. QED
    BY <1>1, <1>2, <1>3, <2>1, <2>2, <2>3 DEF Bounds, Working
<1>9. QED
  BY <1>6, <1>7, <1>8 DEF Bounds

LEMMA ExecutorBounds ==
  ASSUME Bounds, Executor
  PROVE  Bounds'
<1>1. CASE Retry
  BY <1>1, RetryBounds
<1>2. CASE GiveUp
  BY <1>2, ReturnBounds DEF GiveUp, received, mcu, outcomes, link, Replies
<1>3. CASE EndOnId
  BY <1>3, ReturnBounds DEF EndOnId, received, mcu, outcomes, link, Replies
<1>4. CASE EndOnAnswer
  BY <1>4, ReturnBounds DEF EndOnAnswer, mcu, outcomes, link, Replies
<1>5. CASE AwaitOutcome
  <2>1. /\ pc = "acking" /\ pc' = "finishing" /\ waited' = 0 /\ ack' = "none"
        /\ UNCHANGED <<call, attempt, reply, calls, held, gotId, seen, last,
                       saveRequested, state, sinceRequest, saves, sinceStatus, toMcu, toHost,
                       clean>>
    BY <1>5 DEF AwaitOutcome, mcu, outcomes, link
  <2>2. attempt \in 1 .. Attempts /\ calls \in 1 .. MaxCalls
        /\ attempt - 1 \in 0 .. Attempts /\ attempt \in 0 .. Attempts
        /\ attempt - 1 + 1 = attempt /\ calls - 1 \in 0 .. MaxCalls
    BY <2>1, Constants DEF Bounds, Holding
  <2>3. /\ Waits(attempt - 1 + 1) = Waits(attempt - 1) + AckTimeout
        /\ Waits(attempt) <= Waits(Attempts) /\ Waits(attempt) \in Nat
        /\ Waits(Attempts) \in Nat /\ Waits(attempt - 1) \in Nat
    BY <2>2, WaitsGrow
  <2>4. Holding'
    BY <2>1, <2>2, <2>3, Constants DEF Bounds, Holding
  <2>5. Commands(calls - 1) \in Nat
    BY <2>2, CommandsGrow
  <2>6. Sent' = Sent /\ Sent \in Nat
    BY <2>1, <2>2, <2>5 DEF Sent
  <2>7. QED
    BY <2>1, <2>4, <2>6, ExecutorEnds
<1>6. CASE EndOnOutcome
  BY <1>6, ReturnBounds DEF EndOnOutcome, received, mcu, outcomes, link, Replies
<1>7. CASE TimeOut
  BY <1>7, ReturnBounds DEF TimeOut, received, mcu, outcomes, link, Replies
<1>8. QED
  BY <1>1, <1>2, <1>3, <1>4, <1>5, <1>6, <1>7 DEF Executor

LEMMA NoStatusBounds ==
  ASSUME Bounds, CallWithoutStatus
  PROVE  Bounds'
<1>1. /\ pc = "idle" /\ calls < MaxCalls /\ calls' = calls + 1 /\ reply' = "no_status"
      /\ UNCHANGED <<pc, call, attempt, waited, held, ack, gotId, seen, last,
                     saveRequested, state, sinceRequest, saves, sinceStatus, toMcu, toHost,
                     clean>>
  BY DEF CallWithoutStatus, received, mcu, outcomes, link
<1>2. calls \in 0 .. MaxCalls /\ calls + 1 \in 0 .. MaxCalls
  BY <1>1, Constants DEF Bounds, Holding
<1>3. /\ Commands(calls) \in Nat /\ Commands(calls + 1) \in Nat
      /\ Commands(calls + 1) = Commands(calls) + Attempts
  BY <1>2, CommandsGrow
<1>4. Sent = Commands(calls) /\ Sent' = Commands(calls + 1)
  BY <1>1 DEF Sent
<1>5. Holding'
  BY <1>1, <1>2 DEF Bounds, Holding, Replies
<1>6. QED
  BY <1>1, <1>3, <1>4, <1>5, ExecutorEnds, Constants

LEMMA ReceiveBounds ==
  ASSUME Bounds, Receive
  PROVE  Bounds'
<1>1. /\ toHost # <<>> /\ toHost' = Tail(toHost)
      /\ UNCHANGED <<pc, call, attempt, waited, reply, calls, held, saveRequested, state,
                     sinceRequest, saves, sinceStatus, toMcu, clean>>
  BY DEF Receive, bridge, mcu, outcomes
<1>2. /\ toHost \in Seq(ToHost) /\ Len(toHost) \in Nat /\ Len(toHost) <= MaxInFlight
      /\ {gotId, seen} \subseteq BOOLEAN
  BY LenProperties DEF Bounds, Inbox
<1>3. /\ toHost' \in Seq(ToHost) /\ Len(toHost') = Len(toHost) - 1 /\ Head(toHost) \in ToHost
  BY <1>1, <1>2, HeadTailProperties, EmptySeq
<1>4. /\ ack' \in {"none", "accepted", "rejected"}
      /\ gotId' \in {gotId, TRUE} /\ seen' \in {seen, TRUE}
      /\ last' \in [state : States, saves : Nat]
  <2>1. CASE Head(toHost).about = "status"
    <3>1. Head(toHost) \in [about : {"status"}, result : States, saves : Nat, age : Nat]
      BY <1>3, <2>1 DEF ToHost
    <3>2. /\ last' = [state |-> Head(toHost).result, saves |-> Head(toHost).saves]
          /\ seen' = TRUE /\ ack' = ack /\ gotId' = gotId
      BY <2>1 DEF Receive
    <3>3. QED
      BY <3>1, <3>2 DEF Bounds, Inbox
  <2>2. CASE Head(toHost).about = "ack"
    <3>1. Head(toHost).result \in {"accepted", "rejected"}
      BY <1>3, <2>2 DEF ToHost
    <3>2. ack' = Head(toHost).result /\ seen' = seen /\ last' = last /\ gotId' = gotId
      BY <2>2 DEF Receive
    <3>3. QED
      BY <3>1, <3>2 DEF Bounds, Inbox
  <2>3. CASE Head(toHost).about = "id"
    BY <2>3 DEF Receive, Bounds, Inbox
  <2>4. QED
    BY <2>1, <2>2, <2>3 DEF Receive
<1>5. {gotId', seen'} \subseteq BOOLEAN
  BY <1>2, <1>4, Zenon
<1>6. Inbox'
  BY <1>2, <1>3, <1>4, <1>5, Constants DEF Inbox
<1>7. Holding' /\ Working'
  BY <1>1 DEF Bounds, Holding, Working, SaveNow, Saving, Sent
<1>8. QED
  BY <1>6, <1>7 DEF Bounds

\* A step of the MCU: of the bridge it changes what is on its way there only.
LEMMA McuBounds ==
  ASSUME Bounds, UNCHANGED <<bridge, received>>,
         toHost' \in Seq(ToHost), Len(toHost') <= MaxInFlight, Working'
  PROVE  Bounds'
<1>1. Holding'
  BY DEF bridge, Bounds, Holding
<1>2. Inbox'
  BY DEF received, Bounds, Inbox
<1>3. QED
  BY <1>1, <1>2 DEF Bounds

\* The types of what Working adds up.
LEMMA WorkTypes ==
  ASSUME Bounds
  PROVE  /\ SaveNow \in {0, 1} /\ Len(toMcu) \in Nat /\ saves \in Nat /\ Sent \in Nat
         /\ saves + SaveNow + Len(toMcu) <= Sent
         /\ toHost \in Seq(ToHost) /\ Len(toHost) <= MaxInFlight /\ Len(toHost) \in Nat
<1>1. Sent \in Nat
  <2>1. CASE pc = "idle"
    <3>1. Commands(calls) \in Nat
      BY CommandsGrow DEF Bounds, Holding
    <3>2. QED
      BY <2>1, <3>1 DEF Sent
  <2>2. CASE pc # "idle"
    <3>1. calls - 1 \in 0 .. MaxCalls /\ attempt \in Nat
      BY <2>2, Constants DEF Bounds, Holding
    <3>2. Commands(calls - 1) \in Nat
      BY <3>1, CommandsGrow
    <3>3. QED
      BY <2>2, <3>1, <3>2 DEF Sent
  <2>3. QED
    BY <2>1, <2>2
<1>2. QED
  BY <1>1, LenProperties DEF Bounds, Inbox, Working, SaveNow

LEMMA LinkTaskBounds ==
  ASSUME Bounds, LinkTask
  PROVE  Bounds'
<1>1. UNCHANGED <<bridge, received>>
  BY DEF LinkTask, McuSendsId, McuTakesSession, McuTakesSave, McuReports
<1>2. Sent' = Sent
  BY <1>1 DEF bridge, Sent
<1>3. ASSUME NEW f \in ToHost, toMcu # <<>>, Answer(f), UNCHANGED <<mcu, sinceStatus>>
      PROVE  Bounds'
  <2>1. Working'
    <3>1. UNCHANGED <<saveRequested, state, sinceRequest, saves, sinceStatus>>
      BY <1>3 DEF mcu, outcomes
    <3>2. SaveNow' = SaveNow
      BY <3>1 DEF SaveNow, Saving
    <3>3. {saveRequested', clean'} \subseteq BOOLEAN
      BY <1>3, <3>1, CommandAnswered, Zenon DEF Bounds, Working
    <3>4. /\ toMcu' \in Seq(ToMcu) /\ Len(toMcu') = Len(toMcu) - 1 /\ Len(toMcu) \in Nat
          /\ Len(toMcu) <= MaxInFlight
      BY <1>3, CommandAnswered DEF Bounds, Working
    <3>5. QED
      BY <1>2, <3>1, <3>2, <3>3, <3>4, WorkTypes, Constants DEF Bounds, Working
  <2>2. QED
    BY <1>1, <1>3, <2>1, CommandAnswered, McuBounds
<1>4. CASE McuSendsId
  <2>1. Frame("id", "none", 0) \in ToHost
    BY DEF Frame, ToHost
  <2>2. QED
    BY <1>3, <1>4, <2>1 DEF McuSendsId
<1>5. ASSUME NEW r \in {"accepted", "rejected"} PROVE Frame("ack", r, 0) \in ToHost
  BY DEF Frame, ToHost
<1>6. CASE McuTakesSession
  BY <1>3, <1>5, <1>6 DEF McuTakesSession, Ack
<1>7. CASE McuTakesSave /\ UNCHANGED mcu
  <2>1. PICK r \in {"accepted", "rejected"} : Answer(Frame("ack", r, 0))
    BY <1>7 DEF McuTakesSave, Ack
  <2>2. QED
    BY <1>3, <1>5, <1>7, <2>1 DEF McuTakesSave
<1>8. CASE McuTakesSave /\ ~UNCHANGED mcu
  <2>1. /\ toMcu # <<>> /\ ~saveRequested /\ state # "saving"
        /\ saveRequested' = TRUE /\ sinceRequest' = 0 /\ Answer(Frame("ack", "accepted", 0))
        /\ UNCHANGED <<state, saves, sinceStatus>>
    BY <1>8 DEF McuTakesSave, Ack, outcomes
  <2>2. SaveNow = 0 /\ SaveNow' = 1
    BY <2>1 DEF SaveNow, Saving
  <2>3. Working'
    <3>1. {saveRequested', clean'} \subseteq BOOLEAN
      BY <1>5, <2>1, CommandAnswered, Zenon
    <3>2. QED
      BY <1>2, <1>5, <2>1, <2>2, <3>1, CommandAnswered, WorkTypes, Constants
      DEF Bounds, Working
  <2>4. QED
    BY <1>1, <1>5, <2>1, <2>3, CommandAnswered, McuBounds
<1>9. CASE McuReports
  <2>1. /\ sinceStatus' = 0 /\ toMcu' = toMcu /\ clean' \in {clean, FALSE}
        /\ UNCHANGED <<saveRequested, state, sinceRequest, saves>>
        /\ \/ Len(toHost) < MaxInFlight /\ toHost' = Append(toHost, Frame("status", state, saves))
           \/ toHost' = toHost
    BY <1>9 DEF McuReports, Lost, mcu, outcomes
  <2>2. Frame("status", state, saves) \in ToHost
    BY DEF Frame, ToHost, Bounds, Working
  <2>3. toHost' \in Seq(ToHost) /\ Len(toHost') <= MaxInFlight
    <3>1. CASE toHost' = toHost
      BY <3>1, WorkTypes
    <3>2. CASE Len(toHost) < MaxInFlight /\ toHost' = Append(toHost, Frame("status", state, saves))
      BY <2>2, <3>2, WorkTypes, AppendProperties, Constants
    <3>3. QED
      BY <2>1, <3>1, <3>2
  <2>4. {saveRequested', clean'} \subseteq BOOLEAN
    BY <2>1, Zenon DEF Bounds, Working
  <2>5. Working'
    BY <1>2, <2>1, <2>4, Constants DEF Bounds, Working, SaveNow, Saving
  <2>6. QED
    BY <1>1, <2>3, <2>5, McuBounds
<1>10. QED
  BY <1>4, <1>6, <1>7, <1>8, <1>9 DEF LinkTask

LEMMA ImuTaskBounds ==
  ASSUME Bounds, ImuTask
  PROVE  Bounds'
<1>1. /\ UNCHANGED <<bridge, received>> /\ toHost' = toHost /\ toMcu' = toMcu /\ clean' = clean
      /\ sinceStatus' = sinceStatus
  BY DEF ImuTask, McuBeginsSave, McuEndsSave, link
<1>2. Sent' = Sent
  BY <1>1 DEF bridge, Sent
<1>3. CASE McuBeginsSave
  <2>1. /\ saveRequested /\ saveRequested' = FALSE /\ state' = "saving"
        /\ UNCHANGED <<sinceRequest, saves>>
    BY <1>3 DEF McuBeginsSave, outcomes
  <2>2. SaveNow' = SaveNow /\ state' \in States
    BY <2>1 DEF SaveNow, Saving, States
  <2>3. {saveRequested', clean'} \subseteq BOOLEAN
    BY <1>1, <2>1, Zenon DEF Bounds, Working
  <2>4. Working'
    BY <1>1, <1>2, <2>1, <2>2, <2>3 DEF Bounds, Working
  <2>5. QED
    BY <1>1, <2>4, WorkTypes, McuBounds
<1>4. CASE McuEndsSave
  <2>1. /\ state = "saving" /\ state' \in {"saved", "rejected", "failed"}
        /\ saves' = saves + 1 /\ sinceRequest' = 0 /\ saveRequested' = saveRequested
    BY <1>4 DEF McuEndsSave
  <2>2. ~saveRequested
    BY <2>1 DEF Bounds, Working
  <2>3. SaveNow = 1 /\ SaveNow' = 0 /\ state' \in States /\ state' # "saving"
    BY <2>1, <2>2 DEF SaveNow, Saving, States
  <2>4. Working'
    BY <1>1, <1>2, <2>1, <2>2, <2>3, WorkTypes, Constants DEF Bounds, Working
  <2>5. QED
    BY <1>1, <2>4, WorkTypes, McuBounds
<1>5. QED
  BY <1>3, <1>4 DEF ImuTask

LEMMA TickBounds ==
  ASSUME Bounds, Tick
  PROVE  Bounds'
<1>1. /\ toMcu' = Aged(toMcu) /\ toHost' = Aged(toHost)
      /\ UNCHANGED <<pc, call, attempt, reply, calls, ack, gotId, seen, last, saveRequested,
                     state, saves, clean>>
  BY DEF Tick, received, outcomes
<1>2. Holding'
  <2>1. CASE pc = "idle"
    <3>1. Longest \in Nat
      BY WaitsGrow, Constants
    <3>2. QED
      BY <1>1, <2>1, <3>1 DEF Tick, Bounds, Holding
  <2>2. CASE pc # "idle"
    <3>1. /\ waited' = waited + 1 /\ held' \in {held, held + 1}
          /\ waited \in Nat /\ held \in Nat
      BY <2>2 DEF Tick, Older, Bounds, Holding
    <3>2. /\ pc = "acking" => waited < AckTimeout
          /\ pc = "finishing" => waited < DoneTimeout
      BY <2>2 DEF Tick, Waiting, AckWait, AwaitingAnswer
    <3>3. attempt - 1 \in 0 .. Attempts /\ Attempts \in 0 .. Attempts
      BY <2>2, Constants DEF Bounds, Holding
    <3>4. Waits(attempt - 1) \in Nat /\ Waits(Attempts) \in Nat
      BY <3>3, WaitsGrow
    <3>5. QED
      BY <1>1, <2>2, <3>1, <3>2, <3>4, Constants DEF Bounds, Holding
  <2>3. QED
    BY <2>1, <2>2
<1>3. Inbox'
  <2>1. \A f \in ToHost : [f EXCEPT !.age = @ + 1] \in ToHost
    BY DEF ToHost
  <2>2. toHost' \in Seq(ToHost) /\ Len(toHost') = Len(toHost)
    BY <1>1, <2>1, WorkTypes, AllAged
  <2>3. QED
    BY <1>1, <2>2 DEF Bounds, Inbox
<1>4. Working'
  <2>1. \A f \in ToMcu : [f EXCEPT !.age = @ + 1] \in ToMcu
    BY DEF ToMcu
  <2>2. toMcu' \in Seq(ToMcu) /\ Len(toMcu') = Len(toMcu)
    BY <1>1, <2>1, AllAged DEF Bounds, Working
  <2>3. Sent' = Sent /\ SaveNow' = SaveNow
    BY <1>1 DEF Sent, SaveNow, Saving
  <2>4. sinceRequest' \in 0 .. SaveTime /\ sinceStatus' \in 0 .. StatusPeriod
    BY Constants DEF Tick, Bounds, Working
  <2>5. QED
    BY <1>1, <2>2, <2>3, <2>4 DEF Bounds, Working
<1>5. QED
  BY <1>2, <1>3, <1>4 DEF Bounds

LEMMA BoundsStep == Bounds /\ [Next]_vars => Bounds'
<1>1. SUFFICES ASSUME Bounds, [Next]_vars PROVE Bounds'
  OBVIOUS
<1>2. CASE UNCHANGED vars
  <2>1. /\ UNCHANGED <<bridge, received>> /\ toHost' = toHost
        /\ UNCHANGED <<saveRequested, state, sinceRequest, saves, sinceStatus, toMcu, clean>>
    BY <1>2 DEF vars, mcu, outcomes, link
  <2>2. Sent' = Sent
    BY <2>1 DEF bridge, Sent
  <2>3. Working'
    BY <1>1, <2>1, <2>2 DEF Bounds, Working, SaveNow, Saving
  <2>4. QED
    BY <1>1, <2>1, <2>3, WorkTypes, McuBounds
<1>3. QED
  BY <1>1, <1>2, CallBounds, NoStatusBounds, ExecutorBounds, ReceiveBounds, LinkTaskBounds,
     ImuTaskBounds, TickBounds DEF Next

LEMMA BoundsInductive == Spec => [](IInv /\ Bounds)
<1>1. (IInv /\ Bounds) /\ [Next]_vars => (IInv /\ Bounds)'
  BY StepHolds, BoundsStep
<1>2. QED
  BY <1>1, InitHolds, InitBounds, PTL DEF Spec

\* The services, the receive thread, the MCU and the link keep their types; no more saves
\* are ever counted than commands were sent.
THEOREM TypeCorrect == Spec => []TypeOK
<1>1. ASSUME IInv, Bounds PROVE TypeOK
  <2>1. saves <= MaxSaves /\ MaxSaves \in Nat /\ saves \in Nat
    <3>1. Sent <= MaxSaves /\ MaxSaves \in Nat
      <4>1. CASE pc = "idle"
        BY <1>1, <4>1, CommandsGrow DEF Bounds, Holding, Sent
      <4>2. CASE pc # "idle"
        <5>1. calls - 1 \in 0 .. MaxCalls /\ calls \in 0 .. MaxCalls /\ calls - 1 + 1 = calls
              /\ attempt \in 0 .. Attempts
          BY <1>1, <4>2, Constants DEF Bounds, Holding
        <5>2. /\ Commands(calls - 1) \in Nat /\ Commands(calls) \in Nat
              /\ Commands(calls) = Commands(calls - 1) + Attempts
              /\ Commands(calls) <= MaxSaves /\ MaxSaves \in Nat
          BY <5>1, CommandsGrow
        <5>3. QED
          BY <4>2, <5>1, <5>2, Constants DEF Sent
      <4>3. QED
        BY <4>1, <4>2
    <3>2. QED
      BY <1>1, <3>1, WorkTypes
  <2>2. last.saves \in 0 .. MaxSaves /\ seqBefore \in 0 .. MaxSaves /\ lastGood \in 0 .. MaxSaves
    BY <1>1, <2>1 DEF IInv, Typed, LastIsTrue, TrueReport, StateTellsOutcome
  <2>3. last \in [state : States, saves : 0 .. MaxSaves]
    BY <1>1, <2>2 DEF Bounds, Inbox
  <2>4. waited \in 0 .. AckTimeout + DoneTimeout /\ held \in 0 .. Longest + 1
    BY <1>1, HeldLong, Constants DEF Bounds, Holding
  <2>5. {gotId, seen, saveRequested, clean} \subseteq BOOLEAN
    BY <1>1, Zenon DEF Bounds, Inbox, Working
  <2>6. {seqBefore, saves, lastGood} \subseteq 0 .. MaxSaves
    BY <2>1, <2>2
  <2>7. QED
    BY <1>1, <2>3, <2>4, <2>5, <2>6 DEF TypeOK, Bounds, Holding, Inbox, Working
<1>2. QED
  BY <1>1, BoundsInductive, PTL

\* No service callback holds the executor, and wheel commands with it, for longer than
\* its attempts and the wait for the outcome.
THEOREM HoldsAreBounded == Spec => []HoldBounded
<1>1. IInv /\ Bounds => HoldBounded
  BY HeldLong DEF HoldBounded
<1>2. QED
  BY <1>1, BoundsInductive, PTL

-----------------------------------------------------------------------------
\* Driving goes on.  A third invariant, over the other two, for a prompt link.

\* One command, or its answer, is under way at a time, during the wait for it only, and
\* younger than the wait could be.
IsAnswer(i) == toHost[i].about # "status"
CommandAlone ==
  toMcu # <<>> =>
    /\ pc = "acking" /\ ~Answered /\ Len(toMcu) = 1
    /\ toMcu[1].about = call /\ toMcu[1].age = waited /\ waited <= MaxDelay
    /\ \A i \in 1 .. Len(toHost) : ~IsAnswer(i)
AnswerAlone ==
  \A i \in 1 .. Len(toHost) : IsAnswer(i) =>
    /\ pc = "acking" /\ ~Answered /\ (toHost[i].about = "id" <=> call = "mcu_id")
    /\ waited <= toHost[i].age + MaxDelay
    /\ \A j \in 1 .. Len(toHost) : IsAnswer(j) => j = i
Ages == \A i \in 1 .. Len(toHost) : toHost[i].age <= MaxDelay
AckInTurn == ack # "none" => pc = "acking" /\ call # "mcu_id"
Exchange == CommandAlone /\ AnswerAlone /\ Ages /\ AckInTurn

\* With nothing lost, the first attempt is answered.
Outstanding == toMcu # <<>> \/ \E i \in 1 .. Len(toHost) : IsAnswer(i)
FirstAnswered ==
  clean /\ pc = "acking" =>
    /\ attempt = 1 /\ held = waited /\ held <= 2 * MaxDelay
    /\ Answered \/ Outstanding

\* A save the MCU has accepted is under way, done, reported, or known to be done.
OnlySaveFinishes == pc = "finishing" => call = "save"
Accepted ==
  /\ call = "save"
  /\ \/ pc = "finishing"
     \/ pc = "acking" /\ ack = "accepted"
     \/ pc = "acking" /\ \E i \in 1 .. Len(toHost) :
                           toHost[i].about = "ack" /\ toHost[i].result = "accepted"
UnderWay == Saving /\ held <= MaxDelay + sinceRequest
Done == saves > seqBefore /\ held <= MaxDelay + SaveTime + sinceStatus
ReportedAt(i) ==
  /\ IsStatus(i) /\ toHost[i].saves > seqBefore
  /\ held <= MaxDelay + SaveTime + StatusPeriod + toHost[i].age
Reported == \E i \in 1 .. Len(toHost) : ReportedAt(i)
Known == last.saves > seqBefore
SaveProgresses == clean /\ Accepted => UnderWay \/ Done \/ Reported \/ Known

SoonOver == clean => held <= 2 * MaxDelay + SaveTime + StatusPeriod

Prompt == Exchange /\ FirstAnswered /\ OnlySaveFinishes /\ SaveProgresses /\ SoonOver

LEMMA HostFrames ==
  ASSUME Bounds
  PROVE  /\ toHost \in Seq(ToHost) /\ Len(toHost) \in Nat
         /\ \A i \in 1 .. Len(toHost) :
              /\ toHost[i] \in ToHost /\ toHost[i].age \in Nat /\ toHost[i].saves \in Nat
              /\ toHost[i].about \in {"status", "ack", "id"}
<1>1. toHost \in Seq(ToHost) /\ Len(toHost) \in Nat
  BY LenProperties DEF Bounds, Inbox
<1>2. \A i \in 1 .. Len(toHost) : toHost[i] \in ToHost
  BY <1>1, ElementOfSeq
<1>3. \A f \in ToHost : f.age \in Nat /\ f.saves \in Nat /\ f.about \in {"status", "ack", "id"}
  BY DEF ToHost
<1>4. QED
  BY <1>1, <1>2, <1>3

LEMMA PromptTypes ==
  ASSUME Bounds
  PROVE  /\ waited \in Nat /\ held \in Nat /\ sinceRequest \in Nat /\ sinceStatus \in Nat
         /\ saves \in Nat /\ last.saves \in Nat /\ clean \in BOOLEAN
         /\ sinceRequest <= SaveTime /\ sinceStatus <= StatusPeriod
         /\ toMcu \in Seq(ToMcu) /\ Len(toMcu) \in Nat
BY LenProperties, Constants DEF Bounds, Holding, Inbox, Working

\* Outside a wait for an answer, and at its end, nothing is under way but reports.
LEMMA NothingUnderWay ==
  ASSUME PromptLink, Bounds, Prompt, pc # "acking" \/ Answered \/ waited = AckTimeout
  PROVE  toMcu = <<>> /\ \A i \in 1 .. Len(toHost) : ~IsAnswer(i)
<1>1. AckTimeout \in Nat /\ MaxDelay \in Nat /\ 2 * MaxDelay < AckTimeout
  BY Constants DEF PromptLink
<1>2. toMcu = <<>>
  BY <1>1 DEF Prompt, Exchange, CommandAlone
<1>3. ASSUME NEW i \in 1 .. Len(toHost), IsAnswer(i) PROVE FALSE
  <2>1. pc = "acking" /\ ~Answered /\ waited <= toHost[i].age + MaxDelay /\ toHost[i].age <= MaxDelay
    BY <1>3 DEF Prompt, Exchange, AnswerAlone, Ages
  <2>2. toHost[i].age \in Nat
    BY HostFrames
  <2>3. QED
    BY <1>1, <2>1, <2>2
<1>4. QED
  BY <1>2, <1>3

\* A command sent when nothing is under way is alone.
LEMMA SentAlone ==
  ASSUME Bounds, Prompt, toMcu = <<>>, \A i \in 1 .. Len(toHost) : ~IsAnswer(i),
         NEW service \in Services, NEW soFar \in BOOLEAN, Send(service, soFar),
         pc' = "acking", call' = service, waited' = 0, ~Answered'
  PROVE  /\ CommandAlone' /\ AnswerAlone' /\ Ages' /\ toHost' = toHost
         /\ clean' => soFar /\ toMcu' # <<>>
<1>1. toHost' = toHost
  BY DEF Send, Lost
<1>2. AnswerAlone' /\ Ages'
  BY <1>1 DEF AnswerAlone, IsAnswer, Prompt, Exchange, Ages
<1>3. CASE toMcu' = Append(toMcu, Frame(service, "none", 0)) /\ clean' = soFar
  <2>1. toMcu' = <<Frame(service, "none", 0)>>
    BY <1>3
  <2>2. Len(toMcu') = 1 /\ toMcu'[1] = Frame(service, "none", 0) /\ toMcu' # <<>>
    BY <2>1
  <2>3. CommandAlone'
    BY <1>1, <2>2, Constants DEF CommandAlone, Frame, IsAnswer
  <2>4. QED
    BY <1>1, <1>2, <1>3, <2>2, <2>3
<1>4. CASE toMcu' = toMcu /\ clean' = FALSE
  BY <1>1, <1>2, <1>4 DEF CommandAlone
<1>5. QED
  BY <1>3, <1>4 DEF Send, Lost

LEMMA CallPrompt ==
  ASSUME PromptLink, Bounds, Prompt, NEW service \in Services, Call(service)
  PROVE  Prompt'
<1>1. /\ pc = "idle" /\ pc' = "acking" /\ call' = service /\ attempt' = 1 /\ waited' = 0
      /\ held' = 0 /\ Send(service, TRUE)
      /\ service = "mcu_id" => gotId' = FALSE /\ ack' = ack
      /\ service # "mcu_id" => ack' = "none"
  BY DEF Call, Forgotten, Bounds, Holding
<1>2. toMcu = <<>> /\ \A i \in 1 .. Len(toHost) : ~IsAnswer(i)
  BY <1>1, NothingUnderWay
<1>3. ack' = "none" /\ ~Answered'
  BY <1>1 DEF Prompt, Exchange, AckInTurn, Answered
<1>4. /\ CommandAlone' /\ AnswerAlone' /\ Ages' /\ toHost' = toHost
      /\ clean' => toMcu' # <<>>
  BY <1>1, <1>2, <1>3, SentAlone
<1>5. Exchange'
  BY <1>3, <1>4 DEF Exchange, AckInTurn
<1>6. FirstAnswered'
  BY <1>1, <1>4, Constants DEF FirstAnswered, Outstanding
<1>7. SaveProgresses'
  <2>1. \A i \in 1 .. Len(toHost) : toHost[i].about # "ack"
    BY <1>2 DEF IsAnswer
  <2>2. ~Accepted'
    BY <1>1, <1>3, <1>4, <2>1 DEF Accepted
  <2>3. QED
    BY <2>2 DEF SaveProgresses
<1>8. SoonOver' /\ OnlySaveFinishes'
  BY <1>1, Constants DEF SoonOver, OnlySaveFinishes
<1>9. QED
  BY <1>5, <1>6, <1>7, <1>8 DEF Prompt

\* The end of a call.
LEMMA ReturnPrompt ==
  ASSUME PromptLink, Bounds, Prompt, pc # "acking" \/ Answered \/ waited = AckTimeout,
         pc' = "idle", ack' = "none", held' = 0, UNCHANGED <<toMcu, toHost, clean>>
  PROVE  Prompt'
<1>1. toMcu' = <<>> /\ \A i \in 1 .. Len(toHost') : ~IsAnswer(i)'
  BY NothingUnderWay DEF IsAnswer
<1>2. Exchange'
  BY <1>1 DEF Prompt, Exchange, CommandAlone, AnswerAlone, Ages, AckInTurn
<1>3. FirstAnswered' /\ OnlySaveFinishes' /\ SaveProgresses'
  BY DEF FirstAnswered, OnlySaveFinishes, SaveProgresses, Accepted
<1>4. SoonOver'
  BY Constants DEF SoonOver
<1>5. QED
  BY <1>2, <1>3, <1>4 DEF Prompt

\* With nothing lost there is no second attempt.
LEMMA RetryPrompt ==
  ASSUME PromptLink, Bounds, Prompt, Retry
  PROVE  Prompt'
<1>1. /\ pc = "acking" /\ ~Answered /\ waited = AckTimeout /\ Send(call, clean)
      /\ pc' = "acking" /\ call' = call /\ waited' = 0 /\ ack' = ack /\ gotId' = gotId
  BY DEF Retry, received
<1>2. toMcu = <<>> /\ \A i \in 1 .. Len(toHost) : ~IsAnswer(i)
  BY <1>1, NothingUnderWay
<1>3. ~clean
  BY <1>1, <1>2 DEF Prompt, FirstAnswered, Outstanding
<1>4. ~Answered' /\ call \in Services /\ clean \in BOOLEAN
  BY <1>1 DEF Answered, Bounds, Holding, Working
<1>5. CommandAlone' /\ AnswerAlone' /\ Ages' /\ ~clean'
  BY <1>1, <1>2, <1>3, <1>4, SentAlone
<1>6. Exchange'
  BY <1>1, <1>5 DEF Prompt, Exchange, AckInTurn
<1>7. QED
  BY <1>1, <1>5, <1>6 DEF Prompt, FirstAnswered, OnlySaveFinishes, SaveProgresses, SoonOver

LEMMA ExecutorPrompt ==
  ASSUME PromptLink, Bounds, Prompt, Executor
  PROVE  Prompt'
<1>1. CASE Retry
  BY <1>1, RetryPrompt
<1>2. CASE GiveUp
  <2>1. ack = "none"
    BY <1>2 DEF GiveUp, Answered, Prompt, Exchange, AckInTurn
  <2>2. QED
    BY <1>2, <2>1, ReturnPrompt DEF GiveUp, Return, received, link
<1>3. CASE EndOnId
  <2>1. ack = "none"
    BY <1>3 DEF EndOnId, Prompt, Exchange, AckInTurn
  <2>2. QED
    BY <1>3, <2>1, ReturnPrompt DEF EndOnId, Return, received, link
<1>4. CASE EndOnAnswer
  <2>1. ack' = "none"
    BY <1>4 DEF EndOnAnswer, Prompt, Exchange, AckInTurn
  <2>2. QED
    BY <1>4, <2>1, ReturnPrompt DEF EndOnAnswer, Return, link
<1>5. CASE AwaitOutcome
  <2>1. /\ pc = "acking" /\ Answered /\ call = "save" /\ ack = "accepted"
        /\ pc' = "finishing" /\ call' = call /\ ack' = "none"
        /\ UNCHANGED <<seqBefore, last, held, saveRequested, state, sinceRequest, saves,
                       sinceStatus, toMcu, toHost, clean>>
    BY <1>5 DEF AwaitOutcome, mcu, outcomes, link
  <2>2. toMcu' = <<>> /\ \A i \in 1 .. Len(toHost') : ~IsAnswer(i)'
    BY <2>1, NothingUnderWay DEF IsAnswer
  <2>3. Exchange'
    BY <2>1, <2>2 DEF Prompt, Exchange, CommandAlone, AnswerAlone, Ages, AckInTurn
  <2>4. SaveProgresses'
    <3>1. SUFFICES ASSUME clean PROVE (UnderWay \/ Done \/ Reported \/ Known)'
      BY <2>1 DEF SaveProgresses
    <3>2. UnderWay \/ Done \/ Reported \/ Known
      BY <2>1, <3>1 DEF Prompt, SaveProgresses, Accepted
    <3>3. QED
      BY <2>1, <3>2 DEF UnderWay, Saving, Done, Reported, ReportedAt, IsStatus, Known
  <2>5. FirstAnswered' /\ OnlySaveFinishes' /\ SoonOver'
    BY <2>1 DEF Prompt, FirstAnswered, OnlySaveFinishes, SoonOver
  <2>6. QED
    BY <2>3, <2>4, <2>5 DEF Prompt
<1>6. CASE EndOnOutcome
  <2>1. pc = "finishing" /\ ack = "none"
    BY <1>6 DEF EndOnOutcome, Prompt, Exchange, AckInTurn
  <2>2. QED
    BY <1>6, <2>1, ReturnPrompt DEF EndOnOutcome, Return, received, link
<1>7. CASE TimeOut
  <2>1. pc = "finishing" /\ ack = "none"
    BY <1>7 DEF TimeOut, Prompt, Exchange, AckInTurn
  <2>2. QED
    BY <1>7, <2>1, ReturnPrompt DEF TimeOut, Return, received, link
<1>8. QED
  BY <1>1, <1>2, <1>3, <1>4, <1>5, <1>6, <1>7 DEF Executor

\* What the head of toHost leaves behind it.
LEMMA RestOfHost ==
  ASSUME Bounds, Receive
  PROVE  /\ Len(toHost) \in Nat /\ Len(toHost) >= 1 /\ Len(toHost') = Len(toHost) - 1
         /\ Head(toHost) = toHost[1] /\ 1 \in 1 .. Len(toHost)
         /\ \A i \in 1 .. Len(toHost') :
              i + 1 \in 1 .. Len(toHost) /\ i + 1 # 1 /\ toHost'[i] = toHost[i + 1]
         /\ \A i \in 1 .. Len(toHost) : i # 1 =>
              i - 1 \in 1 .. Len(toHost') /\ toHost'[i - 1] = toHost[i]
<1>1. toHost # <<>> /\ toHost' = Tail(toHost) /\ toHost \in Seq(ToHost)
  BY HostFrames DEF Receive
<1>2. /\ Len(toHost) \in Nat /\ Len(toHost) >= 1 /\ Len(toHost') = Len(toHost) - 1
      /\ Head(toHost) = toHost[1]
      /\ \A i \in 1 .. Len(toHost') : toHost'[i] = toHost[i + 1]
  BY <1>1, HeadTailProperties, LenProperties, EmptySeq
<1>3. \A i \in 1 .. Len(toHost') : i + 1 \in 1 .. Len(toHost) /\ i + 1 # 1
  BY <1>2
<1>4. ASSUME NEW i \in 1 .. Len(toHost), i # 1
      PROVE  i - 1 \in 1 .. Len(toHost') /\ toHost'[i - 1] = toHost[i]
  <2>1. i - 1 \in 1 .. Len(toHost') /\ i - 1 + 1 = i
    BY <1>2, <1>4
  <2>2. toHost'[i - 1] = toHost[i - 1 + 1]
    BY <1>2, <2>1
  <2>3. QED
    BY <2>1, <2>2
<1>5. QED
  BY <1>2, <1>3, <1>4

\* A save's progress outlives a report received, which may tell of it.
LEMMA ProgressReceived ==
  ASSUME IInv, Bounds, Receive, UnderWay \/ Done \/ Reported \/ Known
  PROVE  (UnderWay \/ Done \/ Reported \/ Known)'
<1>1. UNCHANGED <<seqBefore, held, saveRequested, state, sinceRequest, saves, sinceStatus>>
  BY DEF Receive, bridge, mcu, outcomes
<1>2. CASE UnderWay \/ Done
  BY <1>1, <1>2 DEF UnderWay, Saving, Done
<1>3. CASE Reported
  <2>1. PICK i \in 1 .. Len(toHost) : ReportedAt(i)
    BY <1>3 DEF Reported
  <2>2. CASE i = 1
    <3>1. toHost[1].about = "status" /\ toHost[1].saves > seqBefore /\ Head(toHost) = toHost[1]
      BY <2>1, <2>2, RestOfHost DEF ReportedAt, IsStatus
    <3>2. last'.saves = toHost[1].saves
      BY <3>1 DEF Receive
    <3>3. QED
      BY <1>1, <3>1, <3>2 DEF Known
  <2>3. CASE i # 1
    <3>1. i - 1 \in 1 .. Len(toHost') /\ toHost'[i - 1] = toHost[i]
      BY <2>1, <2>3, RestOfHost
    <3>2. ReportedAt(i - 1)'
      BY <1>1, <2>1, <3>1 DEF ReportedAt, IsStatus
    <3>3. QED
      BY <3>1, <3>2 DEF Reported
  <2>4. QED
    BY <2>2, <2>3
<1>4. CASE Known
  <2>1. CASE toHost[1].about = "status"
    <3>1. last'.saves = toHost[1].saves /\ last.saves <= toHost[1].saves
      BY <2>1, RestOfHost DEF Receive, IInv, ReportsTrue, IsStatus
    <3>2. toHost[1].saves \in Nat /\ last.saves \in Nat /\ seqBefore \in Nat
      BY RestOfHost, HostFrames DEF IInv, Typed
    <3>3. QED
      BY <1>1, <1>4, <3>1, <3>2 DEF Known
  <2>2. CASE toHost[1].about # "status"
    BY <1>1, <1>4, <2>2, RestOfHost DEF Receive, Known
  <2>3. QED
    BY <2>1, <2>2
<1>5. QED
  BY <1>2, <1>3, <1>4

LEMMA ReceivePrompt ==
  ASSUME PromptLink, IInv, Bounds, Prompt, Receive
  PROVE  Prompt'
<1>1. UNCHANGED <<pc, call, attempt, waited, seqBefore, held, saveRequested, state,
                  sinceRequest, saves, sinceStatus, toMcu, clean>>
  BY DEF Receive, bridge, mcu, outcomes
<1>2. \A i \in 1 .. Len(toHost') :
        i + 1 \in 1 .. Len(toHost) /\ i + 1 # 1 /\ toHost'[i] = toHost[i + 1]
  BY RestOfHost
<1>3. Ages'
  BY <1>2 DEF Prompt, Exchange, Ages
<1>4. SoonOver' /\ OnlySaveFinishes'
  BY <1>1 DEF Prompt, SoonOver, OnlySaveFinishes
<1>5. CASE toHost[1].about = "status"
  <2>1. ack' = ack /\ gotId' = gotId
    BY <1>5, RestOfHost DEF Receive
  <2>2. Answered' <=> Answered
    BY <1>1, <2>1 DEF Answered
  <2>3. CommandAlone'
    BY <1>1, <1>2, <2>2 DEF Prompt, Exchange, CommandAlone, IsAnswer
  <2>4. AnswerAlone'
    <3>1. SUFFICES ASSUME NEW i \in 1 .. Len(toHost'), IsAnswer(i)'
                   PROVE  /\ (pc = "acking" /\ ~Answered
                              /\ (toHost[i + 1].about = "id" <=> call = "mcu_id")
                              /\ waited <= toHost[i + 1].age + MaxDelay)
                          /\ \A j \in 1 .. Len(toHost') : IsAnswer(j)' => j = i
      BY <1>1, <1>2, <2>2 DEF AnswerAlone
    <3>2. i + 1 \in 1 .. Len(toHost) /\ IsAnswer(i + 1)
      BY <1>2, <3>1 DEF IsAnswer
    <3>3. ASSUME NEW j \in 1 .. Len(toHost'), IsAnswer(j)' PROVE j = i
      <4>1. j + 1 \in 1 .. Len(toHost) /\ IsAnswer(j + 1)
        BY <1>2, <3>3 DEF IsAnswer
      <4>2. j + 1 = i + 1
        BY <3>2, <4>1 DEF Prompt, Exchange, AnswerAlone
      <4>3. QED
        BY <4>2
    <3>4. QED
      BY <3>2, <3>3 DEF Prompt, Exchange, AnswerAlone
  <2>5. Exchange'
    BY <1>1, <1>3, <2>1, <2>3, <2>4 DEF Prompt, Exchange, AckInTurn
  <2>6. FirstAnswered'
    <3>1. Outstanding => Outstanding'
      <4>1. ASSUME NEW i \in 1 .. Len(toHost), IsAnswer(i) PROVE Outstanding'
        <5>1. i # 1
          BY <1>5, <4>1 DEF IsAnswer
        <5>2. i - 1 \in 1 .. Len(toHost') /\ toHost'[i - 1] = toHost[i]
          BY <5>1, RestOfHost
        <5>3. QED
          BY <4>1, <5>2 DEF Outstanding, IsAnswer
      <4>2. QED
        BY <1>1, <4>1 DEF Outstanding
    <3>2. QED
      BY <1>1, <2>2, <3>1 DEF Prompt, FirstAnswered
  <2>7. Accepted' => Accepted
    BY <1>1, <1>2, <2>1 DEF Accepted
  <2>8. SaveProgresses'
    BY <1>1, <2>7, ProgressReceived DEF Prompt, SaveProgresses
  <2>9. QED
    BY <1>4, <2>5, <2>6, <2>8 DEF Prompt
<1>6. CASE toHost[1].about # "status"
  <2>1. 1 \in 1 .. Len(toHost) /\ Head(toHost) = toHost[1] /\ IsAnswer(1)
    BY <1>6, RestOfHost DEF IsAnswer
  <2>2. /\ pc = "acking" /\ ~Answered /\ (toHost[1].about = "id" <=> call = "mcu_id")
        /\ \A j \in 1 .. Len(toHost) : IsAnswer(j) => j = 1
    BY <2>1 DEF Prompt, Exchange, AnswerAlone
  <2>3. toMcu = <<>>
    BY <2>1 DEF Prompt, Exchange, CommandAlone
  <2>4. \A i \in 1 .. Len(toHost') : ~IsAnswer(i)'
    BY <1>2, <2>2 DEF IsAnswer
  <2>5. CommandAlone' /\ AnswerAlone'
    BY <1>1, <2>3, <2>4 DEF CommandAlone, AnswerAlone
  <2>6. \A i \in 1 .. Len(toHost') : toHost'[i].about # "ack"
    BY <2>4 DEF IsAnswer
  <2>7. CASE toHost[1].about = "id"
    <3>1. call = "mcu_id" /\ gotId' = TRUE /\ ack' = ack
      BY <2>1, <2>2, <2>7 DEF Receive
    <3>2. Answered'
      BY <1>1, <3>1 DEF Answered
    <3>3. Exchange'
      BY <1>1, <1>3, <2>5, <3>1 DEF Prompt, Exchange, AckInTurn
    <3>4. FirstAnswered' /\ SaveProgresses'
      BY <1>1, <3>1, <3>2 DEF Prompt, FirstAnswered, SaveProgresses, Accepted
    <3>5. QED
      BY <1>4, <3>3, <3>4 DEF Prompt
  <2>8. CASE toHost[1].about = "ack"
    <3>1. call # "mcu_id" /\ ack' = toHost[1].result
      BY <2>1, <2>2, <2>8 DEF Receive
    <3>2. ack' # "none"
      <4>1. toHost[1] \in ToHost
        BY <2>1, HostFrames
      <4>2. QED
        BY <2>8, <3>1, <4>1 DEF ToHost
    <3>3. Answered'
      BY <1>1, <3>1, <3>2 DEF Answered
    <3>4. Exchange'
      BY <1>1, <1>3, <2>2, <2>5, <3>1 DEF Exchange, AckInTurn
    <3>5. FirstAnswered'
      BY <1>1, <3>3 DEF Prompt, FirstAnswered
    <3>6. Accepted' => Accepted
      BY <1>1, <2>1, <2>2, <2>6, <2>8, <3>1 DEF Accepted
    <3>7. SaveProgresses'
      BY <1>1, <3>6, ProgressReceived DEF Prompt, SaveProgresses
    <3>8. QED
      BY <1>4, <3>4, <3>5, <3>7 DEF Prompt
  <2>9. QED
    BY <1>6, <2>1, <2>7, <2>8, HostFrames
<1>7. QED
  BY <1>5, <1>6

\* A frame added to toHost.
LEMMA AppendedToHost ==
  ASSUME Bounds, NEW f \in ToHost, toHost' = Append(toHost, f)
  PROVE  /\ Len(toHost) \in Nat /\ Len(toHost') = Len(toHost) + 1
         /\ \A i \in 1 .. Len(toHost) : i \in 1 .. Len(toHost') /\ toHost'[i] = toHost[i]
         /\ Len(toHost) + 1 \in 1 .. Len(toHost') /\ toHost'[Len(toHost) + 1] = f
         /\ \A i \in 1 .. Len(toHost') : i \in 1 .. Len(toHost) \/ i = Len(toHost) + 1
<1>1. /\ Len(toHost) \in Nat /\ Len(toHost') = Len(toHost) + 1
      /\ \A i \in 1 .. Len(toHost) : toHost'[i] = toHost[i]
      /\ toHost'[Len(toHost) + 1] = f
  BY HostFrames, AppendProperties
<1>2. QED
  BY <1>1

\* The MCU answers the one command under way, which is the current call's.
LEMMA AnswerPrompt ==
  ASSUME Bounds, Prompt, toMcu # <<>>, NEW f \in ToHost, Answer(f),
         f.about # "status", f.about = "id" <=> call = "mcu_id", f.age = 0,
         UNCHANGED <<bridge, received>>
  PROVE  /\ Exchange' /\ FirstAnswered' /\ OnlySaveFinishes' /\ SoonOver'
         /\ clean' /\ Accepted' =>
              /\ clean /\ f.about = "ack" /\ f.result = "accepted" /\ call = "save"
              /\ held <= MaxDelay
<1>1. /\ pc = "acking" /\ ~Answered /\ Len(toMcu) = 1 /\ waited <= MaxDelay
      /\ \A i \in 1 .. Len(toHost) : ~IsAnswer(i)
  BY DEF Prompt, Exchange, CommandAlone
<1>2. /\ UNCHANGED <<pc, call, attempt, waited, seqBefore, held, ack, gotId, last>>
      /\ toMcu' = Tail(toMcu)
  BY DEF Answer, bridge, received
<1>3. toMcu' = <<>>
  BY <1>1, <1>2, PromptTypes
<1>4. ~Answered'
  BY <1>1, <1>2 DEF Answered
<1>5. CASE toHost' = toHost /\ clean' = FALSE
  <2>1. Exchange'
    BY <1>1, <1>2, <1>3, <1>5
    DEF Prompt, Exchange, CommandAlone, AnswerAlone, Ages, AckInTurn, IsAnswer
  <2>2. QED
    BY <1>2, <1>5, <2>1 DEF Prompt, FirstAnswered, OnlySaveFinishes, SoonOver
<1>6. CASE toHost' = Append(toHost, f) /\ clean' = clean
  <2>1. \A i \in 1 .. Len(toHost) : toHost'[i] = toHost[i]
    BY <1>6, AppendedToHost
  <2>2. /\ Len(toHost) + 1 \in 1 .. Len(toHost') /\ toHost'[Len(toHost) + 1] = f
        /\ \A i \in 1 .. Len(toHost') : i \in 1 .. Len(toHost) \/ i = Len(toHost) + 1
    BY <1>6, AppendedToHost
  <2>3. \A i \in 1 .. Len(toHost') : IsAnswer(i)' => i = Len(toHost) + 1
    BY <1>1, <2>1, <2>2 DEF IsAnswer
  <2>4. AnswerAlone'
    <3>1. waited <= 0 + MaxDelay
      BY <1>1, PromptTypes, Constants
    <3>2. QED
      BY <1>1, <1>2, <1>4, <2>2, <2>3, <3>1 DEF AnswerAlone
  <2>5. Ages'
    BY <2>1, <2>2, Constants DEF Prompt, Exchange, Ages
  <2>6. Exchange'
    BY <1>2, <1>3, <2>4, <2>5 DEF Prompt, Exchange, CommandAlone, AckInTurn
  <2>7. FirstAnswered'
    <3>1. PICK n \in 1 .. Len(toHost') : toHost'[n] = f
      BY <2>2
    <3>2. Outstanding'
      BY <3>1 DEF Outstanding, IsAnswer
    <3>3. QED
      BY <1>2, <1>6, <3>2 DEF Prompt, FirstAnswered
  <2>8. OnlySaveFinishes' /\ SoonOver'
    BY <1>2, <1>6 DEF Prompt, OnlySaveFinishes, SoonOver
  <2>9. ASSUME clean', Accepted'
        PROVE  /\ clean /\ f.about = "ack" /\ f.result = "accepted" /\ call = "save"
               /\ held <= MaxDelay
    <3>1. call = "save" /\ ack = "none"
      BY <1>1, <1>2, <2>9 DEF Accepted, Answered
    <3>2. PICK i \in 1 .. Len(toHost') : toHost'[i].about = "ack" /\ toHost'[i].result = "accepted"
      BY <1>1, <1>2, <2>9, <3>1 DEF Accepted
    <3>3. i = Len(toHost) + 1
      BY <2>3, <3>2 DEF IsAnswer
    <3>4. clean /\ held = waited
      BY <1>1, <1>6, <2>9 DEF Prompt, FirstAnswered
    <3>5. QED
      BY <1>1, <2>2, <3>1, <3>2, <3>3, <3>4
  <2>10. QED
    BY <2>6, <2>7, <2>8, <2>9
<1>7. QED
  BY <1>5, <1>6 DEF Answer

LEMMA LinkTaskPrompt ==
  ASSUME PromptLink, IInv, Bounds, Prompt, LinkTask
  PROVE  Prompt'
<1>1. UNCHANGED <<bridge, received>>
  BY DEF LinkTask, McuSendsId, McuTakesSession, McuTakesSave, McuReports
<1>2. toMcu # <<>> => Head(toMcu).about = call
  BY PromptTypes DEF Prompt, Exchange, CommandAlone
<1>3. CASE McuSendsId
  <2>1. toMcu # <<>> /\ call = "mcu_id" /\ Answer(Frame("id", "none", 0))
    BY <1>2, <1>3 DEF McuSendsId
  <2>2. /\ Frame("id", "none", 0) \in ToHost /\ Frame("id", "none", 0).about = "id"
        /\ Frame("id", "none", 0).age = 0
    BY DEF Frame, ToHost
  <2>3. /\ Exchange' /\ FirstAnswered' /\ OnlySaveFinishes' /\ SoonOver'
        /\ clean' /\ Accepted' => call = "save"
    BY <1>1, <2>1, <2>2, AnswerPrompt
  <2>4. QED
    BY <2>1, <2>3 DEF Prompt, SaveProgresses
<1>4. ASSUME NEW r \in {"accepted", "rejected"}, toMcu # <<>>, call # "mcu_id",
             Answer(Frame("ack", r, 0))
      PROVE  /\ Exchange' /\ FirstAnswered' /\ OnlySaveFinishes' /\ SoonOver'
             /\ clean' /\ Accepted' => r = "accepted" /\ call = "save" /\ held <= MaxDelay
  <2>1. /\ Frame("ack", r, 0) \in ToHost /\ Frame("ack", r, 0).about = "ack"
        /\ Frame("ack", r, 0).age = 0 /\ Frame("ack", r, 0).result = r
    BY DEF Frame, ToHost
  <2>2. /\ Exchange' /\ FirstAnswered' /\ OnlySaveFinishes' /\ SoonOver'
        /\ clean' /\ Accepted' =>
             Frame("ack", r, 0).result = "accepted" /\ call = "save" /\ held <= MaxDelay
    BY <1>1, <1>4, <2>1, AnswerPrompt
  <2>3. QED
    BY <2>1, <2>2
<1>5. CASE McuTakesSession
  <2>1. toMcu # <<>> /\ call = "session" /\ Answer(Frame("ack", "accepted", 0))
    BY <1>2, <1>5 DEF McuTakesSession, Ack
  <2>2. QED
    BY <1>4, <2>1 DEF Prompt, SaveProgresses
<1>6. CASE McuTakesSave
  <2>1. toMcu # <<>> /\ call = "save"
    BY <1>2, <1>6 DEF McuTakesSave
  <2>2. CASE Answer(Frame("ack", "rejected", 0))
    BY <1>4, <2>1, <2>2 DEF Prompt, SaveProgresses
  <2>3. CASE saveRequested' /\ sinceRequest' = 0 /\ Answer(Frame("ack", "accepted", 0))
    <3>1. clean' /\ Accepted' => UnderWay'
      BY <1>1, <1>4, <2>1, <2>3, PromptTypes, Constants DEF UnderWay, Saving, bridge
    <3>2. QED
      BY <1>4, <2>1, <2>3, <3>1 DEF Prompt, SaveProgresses
  <2>4. QED
    BY <1>6, <2>2, <2>3 DEF McuTakesSave, Ack
<1>7. CASE McuReports
  <2>1. /\ UNCHANGED <<pc, call, attempt, waited, seqBefore, held, ack, gotId, last,
                       saveRequested, state, sinceRequest, saves, toMcu>>
        /\ sinceStatus = StatusPeriod
    BY <1>1, <1>7 DEF McuReports, Lost, bridge, received, mcu, outcomes
  <2>2. Answered' <=> Answered
    BY <2>1 DEF Answered
  <2>3. CASE toHost' = toHost /\ clean' = FALSE
    <3>1. Exchange'
      BY <2>1, <2>2, <2>3
      DEF Prompt, Exchange, CommandAlone, AnswerAlone, Ages, AckInTurn, IsAnswer
    <3>2. QED
      BY <2>1, <2>3, <3>1
      DEF Prompt, FirstAnswered, OnlySaveFinishes, SaveProgresses, SoonOver
  <2>4. CASE toHost' = Append(toHost, Frame("status", state, saves)) /\ clean' = clean
    <3>1. /\ Frame("status", state, saves) \in ToHost
          /\ Frame("status", state, saves).about = "status"
          /\ Frame("status", state, saves).saves = saves /\ Frame("status", state, saves).age = 0
      BY DEF Frame, ToHost, Bounds, Working
    <3>2. \A i \in 1 .. Len(toHost) : i \in 1 .. Len(toHost') /\ toHost'[i] = toHost[i]
      BY <2>4, <3>1, AppendedToHost
    <3>3. /\ Len(toHost) + 1 \in 1 .. Len(toHost')
          /\ toHost'[Len(toHost) + 1] = Frame("status", state, saves)
          /\ \A i \in 1 .. Len(toHost') : i \in 1 .. Len(toHost) \/ i = Len(toHost) + 1
      BY <2>4, <3>1, AppendedToHost
    <3>4. \A i \in 1 .. Len(toHost') : toHost'[i].about # "status" =>
            i \in 1 .. Len(toHost) /\ toHost'[i] = toHost[i]
      BY <3>1, <3>2, <3>3
    <3>5. CommandAlone' /\ AnswerAlone'
      BY <2>1, <2>2, <3>2, <3>4 DEF Prompt, Exchange, CommandAlone, AnswerAlone, IsAnswer
    <3>6. Ages'
      BY <3>1, <3>2, <3>3, Constants DEF Prompt, Exchange, Ages
    <3>7. Exchange'
      BY <2>1, <3>5, <3>6 DEF Prompt, Exchange, AckInTurn
    <3>8. FirstAnswered'
      BY <2>1, <2>2, <2>4, <3>2 DEF Prompt, FirstAnswered, Outstanding, IsAnswer
    <3>9. Accepted' => Accepted
      BY <2>1, <3>4 DEF Accepted
    <3>10. UnderWay \/ Done \/ Reported \/ Known => (UnderWay \/ Done \/ Reported \/ Known)'
      <4>1. PICK n \in 1 .. Len(toHost') : toHost'[n] = Frame("status", state, saves)
        BY <3>3
      <4>2. Done => Reported'
        BY <2>1, <3>1, <4>1, PromptTypes, Constants DEF Done, Reported, ReportedAt, IsStatus
      <4>3. Reported => Reported'
        BY <2>1, <3>2 DEF Reported, ReportedAt, IsStatus
      <4>4. QED
        BY <2>1, <4>2, <4>3 DEF UnderWay, Saving, Known
    <3>11. QED
      BY <2>1, <2>4, <3>7, <3>8, <3>9, <3>10 DEF Prompt, OnlySaveFinishes, SaveProgresses, SoonOver
  <2>5. QED
    BY <1>7, <2>3, <2>4 DEF McuReports, Lost
<1>8. QED
  BY <1>3, <1>5, <1>6, <1>7 DEF LinkTask

LEMMA ImuTaskPrompt ==
  ASSUME PromptLink, IInv, Bounds, Prompt, ImuTask
  PROVE  Prompt'
<1>1. UNCHANGED <<pc, call, attempt, waited, seqBefore, held, ack, gotId, last, sinceStatus,
                  toMcu, toHost, clean>>
  BY DEF ImuTask, McuBeginsSave, McuEndsSave, bridge, received, link
<1>2. Answered' <=> Answered
  BY <1>1 DEF Answered
<1>3. Exchange'
  BY <1>1, <1>2 DEF Prompt, Exchange, CommandAlone, AnswerAlone, Ages, AckInTurn, IsAnswer
<1>4. FirstAnswered' /\ OnlySaveFinishes' /\ SoonOver'
  BY <1>1, <1>2
  DEF Prompt, FirstAnswered, Outstanding, IsAnswer, OnlySaveFinishes, SoonOver
<1>5. UnderWay \/ Done \/ Reported \/ Known => (UnderWay \/ Done \/ Reported \/ Known)'
  <2>1. Reported \/ Known => (Reported \/ Known)'
    BY <1>1 DEF Reported, ReportedAt, IsStatus, Known
  <2>2. CASE McuBeginsSave
    <3>1. UnderWay \/ Done => (UnderWay \/ Done)'
      BY <1>1, <2>2 DEF McuBeginsSave, outcomes, UnderWay, Saving, Done
    <3>2. QED
      BY <2>1, <3>1
  <2>3. CASE McuEndsSave
    <3>1. saves' = saves + 1 /\ saves \in Nat /\ seqBefore \in Nat /\ seqBefore <= saves
      BY <2>3 DEF McuEndsSave, IInv, Typed, LastIsTrue, TrueReport
    <3>2. UnderWay \/ Done => Done'
      BY <1>1, <3>1, PromptTypes, Constants DEF UnderWay, Done
    <3>3. QED
      BY <2>1, <3>2
  <2>4. QED
    BY <2>2, <2>3 DEF ImuTask
<1>6. SaveProgresses'
  BY <1>1, <1>5 DEF Prompt, SaveProgresses, Accepted
<1>7. QED
  BY <1>3, <1>4, <1>6 DEF Prompt

\* An outcome the bridge knows is one it sees: the count has moved by less than the range
\* of save_seq.
LEMMA KnownIsSeen ==
  ASSUME PromptLink, IInv, TypeOK, Known
  PROVE  Finished
<1>1. /\ last.saves \in 0 .. MaxSaves /\ seqBefore \in 0 .. MaxSaves /\ MaxSaves < SeqRange
      /\ SeqRange \in Nat \ {0} /\ MaxSaves \in Nat
  BY Constants, CommandsGrow DEF TypeOK, PromptLink
<1>2. last.saves % SeqRange = last.saves /\ seqBefore % SeqRange = seqBefore
  BY <1>1
<1>3. QED
  BY <1>1, <1>2 DEF Known, Finished, SeqMoved, SaveSeq

\* A millisecond, with the age of what is under way.
LEMMA TickHost ==
  ASSUME Bounds, Tick
  PROVE  /\ Len(toHost') = Len(toHost) /\ Len(toHost) \in Nat
         /\ \A i \in 1 .. Len(toHost) :
              /\ toHost'[i].about = toHost[i].about /\ toHost'[i].result = toHost[i].result
              /\ toHost'[i].saves = toHost[i].saves /\ toHost'[i].age = toHost[i].age + 1
              /\ toHost[i].age \in Nat /\ toHost[i].age < MaxDelay
<1>1. /\ DOMAIN toHost = 1 .. Len(toHost) /\ toHost' = Aged(toHost) /\ Len(toHost) \in Nat
      /\ \A i \in DOMAIN toHost : toHost[i].age < MaxDelay
  BY HostFrames, LenProperties DEF Tick, InTime
<1>2. \A i \in 1 .. Len(toHost) : toHost'[i] = [toHost[i] EXCEPT !.age = @ + 1]
  BY <1>1 DEF Aged
<1>3. \A f \in ToHost :
        LET g == [f EXCEPT !.age = @ + 1] IN
          g.about = f.about /\ g.result = f.result /\ g.saves = f.saves /\ g.age = f.age + 1
  BY DEF ToHost
<1>4. toHost' \in [1 .. Len(toHost) -> ToHost]
  <2>1. \A f \in ToHost : [f EXCEPT !.age = @ + 1] \in ToHost
    BY DEF ToHost
  <2>2. QED
    BY <1>1, <2>1, HostFrames DEF Aged
<1>5. Len(toHost') = Len(toHost)
  BY <1>1, <1>4
<1>6. QED
  BY <1>1, <1>2, <1>3, <1>5, HostFrames

LEMMA TickPrompt ==
  ASSUME PromptLink, IInv, Bounds, TypeOK, Prompt, Tick
  PROVE  Prompt'
<1>1. /\ UNCHANGED <<pc, call, attempt, seqBefore, ack, gotId, last, saveRequested, state,
                     saves, clean>>
      /\ sinceStatus' = sinceStatus + 1 /\ sinceStatus < StatusPeriod
      /\ pc # "idle" => waited' = waited + 1
      /\ pc = "idle" => waited' = 0 /\ held' = 0
      /\ toMcu' = Aged(toMcu)
  BY DEF Tick, received, outcomes
<1>2. pc # "idle" => held' = held + 1
  BY HeldLong DEF Tick, Older
<1>3. Answered' <=> Answered
  BY <1>1 DEF Answered
<1>4. /\ MaxDelay \in Nat /\ SaveTime \in Nat /\ StatusPeriod \in Nat
      /\ waited \in Nat /\ held \in Nat /\ sinceStatus \in Nat /\ sinceRequest \in Nat
  BY Constants, PromptTypes
<1>5. CommandAlone'
  <2>1. CASE toMcu = <<>>
    BY <1>1, <2>1 DEF CommandAlone, Aged
  <2>2. CASE toMcu # <<>>
    <3>1. /\ pc = "acking" /\ ~Answered /\ Len(toMcu) = 1
          /\ toMcu[1].about = call /\ toMcu[1].age = waited
          /\ \A i \in 1 .. Len(toHost) : ~IsAnswer(i)
      BY <2>2 DEF Prompt, Exchange, CommandAlone
    <3>2. DOMAIN toMcu = {1} /\ toMcu[1] \in ToMcu
      <4>1. DOMAIN toMcu = 1 .. 1 /\ 1 \in 1 .. 1
        BY <3>1, PromptTypes, LenProperties
      <4>2. toMcu[1] \in ToMcu
        BY <3>1, <4>1, PromptTypes, ElementOfSeq
      <4>3. QED
        BY <4>1, <4>2
    <3>3. toMcu' = [i \in {1} |-> [toMcu[i] EXCEPT !.age = @ + 1]] /\ toMcu[1].age < MaxDelay
      BY <1>1, <3>2 DEF Aged, Tick, InTime
    <3>4. toMcu'[1].about = call /\ toMcu'[1].age = waited + 1
      BY <3>1, <3>2, <3>3 DEF ToMcu
    <3>5. Len(toMcu') = 1
      <4>1. \A f \in ToMcu : [f EXCEPT !.age = @ + 1] \in ToMcu
        BY DEF ToMcu
      <4>2. QED
        BY <1>1, <3>1, <4>1, PromptTypes, AllAged
    <3>6. QED
      <4>1. waited' = waited + 1 /\ waited' <= MaxDelay
        BY <1>1, <1>4, <3>1, <3>3
      <4>2. \A i \in 1 .. Len(toHost') : ~IsAnswer(i)'
        BY <3>1, TickHost DEF IsAnswer
      <4>3. QED
        BY <1>1, <1>3, <3>1, <3>4, <3>5, <4>1, <4>2 DEF CommandAlone
  <2>3. QED
    BY <2>1, <2>2
<1>6. AnswerAlone' /\ Ages'
  <2>1. ASSUME NEW i \in 1 .. Len(toHost), IsAnswer(i)
        PROVE  pc = "acking" /\ waited' <= toHost'[i].age + MaxDelay
    <3>1. pc = "acking" /\ waited <= toHost[i].age + MaxDelay
      BY <2>1 DEF Prompt, Exchange, AnswerAlone
    <3>2. QED
      BY <1>1, <1>4, <3>1, TickHost
  <2>2. AnswerAlone'
    BY <1>1, <1>3, <2>1, TickHost DEF Prompt, Exchange, AnswerAlone, IsAnswer
  <2>3. Ages'
    BY <1>4, TickHost DEF Ages
  <2>4. QED
    BY <2>2, <2>3
<1>7. Exchange'
  BY <1>1, <1>5, <1>6 DEF Prompt, Exchange, AckInTurn
<1>8. FirstAnswered'
  <2>1. SUFFICES ASSUME clean, pc = "acking"
                 PROVE  /\ attempt = 1 /\ held' = waited' /\ held' <= 2 * MaxDelay
                        /\ Outstanding'
    BY <1>1 DEF FirstAnswered
  <2>2. ~Answered
    BY <2>1 DEF Tick, Waiting, AckWait, AwaitingAnswer
  <2>3. attempt = 1 /\ held = waited /\ Outstanding
    BY <2>1, <2>2 DEF Prompt, FirstAnswered
  <2>4. CASE toMcu # <<>>
    <3>1. DOMAIN toMcu = {1} /\ toMcu[1].age = waited
      BY <2>4, PromptTypes, LenProperties DEF Prompt, Exchange, CommandAlone
    <3>2. waited < MaxDelay
      BY <3>1 DEF Tick, InTime
    <3>3. toMcu' # <<>>
      BY <1>1, <3>1 DEF Aged
    <3>4. QED
      BY <1>1, <1>2, <1>4, <2>1, <2>3, <3>2, <3>3 DEF Outstanding
  <2>5. CASE \E i \in 1 .. Len(toHost) : IsAnswer(i)
    <3>1. PICK i \in 1 .. Len(toHost) : IsAnswer(i)
      BY <2>5
    <3>2. waited <= toHost[i].age + MaxDelay /\ toHost[i].age < MaxDelay /\ toHost[i].age \in Nat
      BY <3>1, TickHost DEF Prompt, Exchange, AnswerAlone
    <3>3. Outstanding'
      BY <3>1, TickHost DEF Outstanding, IsAnswer
    <3>4. QED
      BY <1>1, <1>2, <1>4, <2>1, <2>3, <3>2, <3>3
  <2>6. QED
    BY <2>3, <2>4, <2>5 DEF Outstanding
<1>9. Accepted' => Accepted
  BY <1>1, TickHost DEF Accepted
<1>10. ASSUME pc # "idle", UnderWay \/ Done \/ Reported \/ Known
       PROVE  /\ (UnderWay \/ Done \/ Reported \/ Known)'
              /\ ~Known => held' <= 2 * MaxDelay + SaveTime + StatusPeriod
  <2>1. CASE UnderWay
    <3>1. sinceRequest' = sinceRequest + 1 /\ sinceRequest < SaveTime /\ Saving'
      BY <1>1, <2>1 DEF Tick, UnderWay, Saving
    <3>2. UnderWay'
      BY <1>2, <1>4, <1>10, <2>1, <3>1 DEF UnderWay
    <3>3. held' <= 2 * MaxDelay + SaveTime + StatusPeriod
      BY <1>2, <1>4, <1>10, <2>1, <3>1 DEF UnderWay
    <3>4. QED
      BY <3>2, <3>3
  <2>2. CASE Done
    <3>1. Done'
      BY <1>1, <1>2, <1>4, <1>10, <2>2 DEF Done
    <3>2. held' <= 2 * MaxDelay + SaveTime + StatusPeriod
      BY <1>1, <1>2, <1>4, <1>10, <2>2 DEF Done
    <3>3. QED
      BY <3>1, <3>2
  <2>3. CASE Reported
    <3>1. PICK i \in 1 .. Len(toHost) : ReportedAt(i)
      BY <2>3 DEF Reported
    <3>2. /\ toHost'[i].age = toHost[i].age + 1 /\ toHost[i].age \in Nat
          /\ toHost[i].age < MaxDelay /\ i \in 1 .. Len(toHost')
          /\ toHost'[i].about = toHost[i].about /\ toHost'[i].saves = toHost[i].saves
      BY TickHost
    <3>3. held <= MaxDelay + SaveTime + StatusPeriod + toHost[i].age
      BY <3>1 DEF ReportedAt
    <3>4. /\ held' <= MaxDelay + SaveTime + StatusPeriod + toHost'[i].age
          /\ held' <= 2 * MaxDelay + SaveTime + StatusPeriod
      BY <1>2, <1>4, <1>10, <3>2, <3>3
    <3>5. ReportedAt(i)'
      BY <1>1, <3>1, <3>2, <3>4 DEF ReportedAt, IsStatus
    <3>6. QED
      BY <3>2, <3>4, <3>5 DEF Reported
  <2>4. CASE Known
    BY <1>1, <2>4 DEF Known
  <2>5. QED
    BY <1>10, <2>1, <2>2, <2>3, <2>4
<1>11. SaveProgresses'
  BY <1>1, <1>9, <1>10 DEF Prompt, SaveProgresses, Accepted
<1>12. SoonOver'
  <2>1. SUFFICES ASSUME clean PROVE held' <= 2 * MaxDelay + SaveTime + StatusPeriod
    BY <1>1 DEF SoonOver
  <2>2. CASE pc = "idle"
    BY <1>1, <1>4, <2>2
  <2>3. CASE pc = "acking"
    <3>1. held' <= 2 * MaxDelay
      BY <1>1, <1>8, <2>1, <2>3 DEF FirstAnswered
    <3>2. QED
      BY <1>2, <1>4, <2>3, <3>1
  <2>4. CASE pc = "finishing"
    <3>1. ~Finished
      BY <2>4 DEF Tick, Waiting
    <3>2. ~Known
      BY <3>1, KnownIsSeen
    <3>3. Accepted
      BY <2>4 DEF Prompt, OnlySaveFinishes, Accepted
    <3>4. QED
      BY <1>10, <2>1, <2>4, <3>2, <3>3 DEF Prompt, SaveProgresses
  <2>5. QED
    BY <2>2, <2>3, <2>4 DEF Bounds, Holding
<1>13. OnlySaveFinishes'
  BY <1>1 DEF Prompt, OnlySaveFinishes
<1>14. QED
  BY <1>7, <1>8, <1>11, <1>12, <1>13 DEF Prompt

LEMMA InitPrompt == Init => Prompt
<1>1. SUFFICES ASSUME Init PROVE Prompt
  OBVIOUS
<1>2. pc = "idle" /\ call = "none" /\ toMcu = <<>> /\ toHost = <<>> /\ ack = "none" /\ held = 0
  BY <1>1 DEF Init
<1>3. Len(toHost) = 0
  BY <1>2
<1>4. Exchange
  BY <1>2, <1>3 DEF Exchange, CommandAlone, AnswerAlone, Ages, AckInTurn
<1>5. QED
  BY <1>2, <1>4, Constants
  DEF Prompt, FirstAnswered, OnlySaveFinishes, SaveProgresses, Accepted, SoonOver

LEMMA PromptStep ==
  ASSUME PromptLink, IInv, Bounds, TypeOK, Prompt, [Next]_vars
  PROVE  Prompt'
<1>1. CASE CallWithoutStatus \/ UNCHANGED vars
  <2>1. UNCHANGED <<pc, call, attempt, waited, seqBefore, held, ack, gotId, last,
                    saveRequested, state, sinceRequest, saves, sinceStatus, toMcu, toHost, clean>>
    BY <1>1 DEF CallWithoutStatus, vars, bridge, received, mcu, outcomes, link
  <2>2. Exchange'
    BY <2>1 DEF Prompt, Exchange, CommandAlone, AnswerAlone, Ages, AckInTurn, IsAnswer, Answered
  <2>3. FirstAnswered' /\ OnlySaveFinishes' /\ SoonOver'
    BY <2>1 DEF Prompt, FirstAnswered, Answered, Outstanding, IsAnswer, OnlySaveFinishes, SoonOver
  <2>4. SaveProgresses'
    BY <2>1 DEF Prompt, SaveProgresses, Accepted, UnderWay, Saving, Done, Reported, ReportedAt,
       IsStatus, Known
  <2>5. QED
    BY <2>2, <2>3, <2>4 DEF Prompt
<1>2. QED
  BY <1>1, CallPrompt, ExecutorPrompt, ReceivePrompt, LinkTaskPrompt, ImuTaskPrompt, TickPrompt
  DEF Next

\* On a prompt link, a call that loses no frame holds the executor for less than the MCU's
\* watchdog allows, whatever frames and saves earlier calls left behind.  Nothing is said
\* of the sum of calls run back to back, nor of a call that loses a frame.
THEOREM CleanCallsAreShort == ASSUME PromptLink PROVE Spec => []CleanCallIsShort
<1>1. ASSUME Bounds, Prompt PROVE CleanCallIsShort
  <2>1. /\ 2 * MaxDelay + SaveTime + StatusPeriod < Watchdog /\ Watchdog \in Nat
        /\ MaxDelay \in Nat /\ SaveTime \in Nat /\ StatusPeriod \in Nat /\ held \in Nat
    BY <1>1, Constants, PromptTypes DEF PromptLink
  <2>2. QED
    BY <1>1, <2>1 DEF Prompt, SoonOver, CleanCallIsShort
<1>2. Prompt /\ (IInv /\ Bounds) /\ TypeOK /\ [Next]_vars => Prompt'
  BY PromptStep
<1>3. QED
  BY <1>1, <1>2, InitPrompt, BoundsInductive, TypeCorrect, PTL DEF Spec
=============================================================================
