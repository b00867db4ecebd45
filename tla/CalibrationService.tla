------------------------- MODULE CalibrationService -------------------------
(***************************************************************************)
(* The bridge's services over the link: saving a calibration, starting or  *)
(* stopping a session, reading the MCU's id.  Their callbacks wait, with   *)
(* retries, on the only thread of the node's executor, which also forwards *)
(* wheel commands; the receive thread hands them acknowledgements and      *)
(* status reports.                                                         *)
(*                                                                         *)
(* The executor, rclcpp::spin(), takes what was ready in one wait before   *)
(* it waits again: callbacks of several services may run one right after   *)
(* the other, with no wheel command between them.  So a call may begin the *)
(* moment the last one is over, and what is said of the executor is said   *)
(* of one call: the holds of calls run back to back add up.                *)
(*                                                                         *)
(* The MCU is ImuCalibration as the host sees it: a request is taken or    *)
(* refused, a save begins and ends, the status is reported periodically.   *)
(* Frames arrive in order, within MaxDelay, or not at all.                 *)
(***************************************************************************)
EXTENDS Integers, Sequences

CONSTANTS
  AckTimeout,    \* wait for an answer, per attempt
  Attempts,      \* attempts per command
  DoneTimeout,   \* wait for the outcome of a save
  SeqRange,      \* range of save_seq
  StatusPeriod,  \* period of the status reports
  SaveTime,      \* longest a save takes, from the request
  MaxDelay,      \* longest a frame is under way
  Watchdog,      \* the MCU stops the wheels after this long without a command
  MaxCalls,      \* bound of the model: calls made
  MaxInFlight    \* bound of the model: frames under way in one direction

ASSUME TimesAssumption ==
  /\ {AckTimeout, Attempts, DoneTimeout, SeqRange, StatusPeriod, Watchdog, MaxCalls,
      MaxInFlight} \subseteq Nat \ {0}
  /\ SaveTime \in Nat /\ MaxDelay \in Nat

\* The bridge.
VARIABLES
  pc,         \* the executor: idle, acking or finishing
  call,       \* the service called: save, session or mcu_id; none when idle
  attempt,    \* attempts made by this call
  waited,     \* time in the current wait
  seqBefore,  \* seq_before
  ack,        \* calib_ack_result_: none, accepted or rejected
  gotId,      \* mcu_id_received_
  seen,       \* calib_seen_
  last,       \* calib_last_
  reply       \* result of the last call returned

\* The MCU, as in ImuCalibration.
VARIABLES saveRequested, state, sinceRequest, sinceStatus

\* The link.
VARIABLES toMcu, toHost

\* History: saves completed (save_seq counts them modulo SeqRange) and the last that
\* succeeded; calls made; whether no frame was lost during this call; for how long it
\* has held the executor.
VARIABLES saves, lastGood, calls, clean, held

bridge == <<pc, call, attempt, waited, seqBefore, reply, calls, held>>
received == <<ack, gotId, seen, last>>
outcomes == <<saves, lastGood>>
mcu == <<saveRequested, state, sinceRequest, outcomes>>
link == <<toMcu, toHost, clean>>
vars == <<bridge, received, mcu, sinceStatus, link>>

\* The longest a call holds the executor; times are told apart a little further.
Longest == Attempts * AckTimeout + DoneTimeout
Older(t) == IF t <= Longest THEN t + 1 ELSE t

NoStatus == [state |-> "none", saves |-> 0]

Init ==
  /\ pc = "idle" /\ call = "none" /\ attempt = 0 /\ waited = 0 /\ seqBefore = 0
  /\ ack = "none" /\ gotId = FALSE /\ seen = FALSE /\ last = NoStatus
  /\ reply = "none" /\ calls = 0 /\ held = 0
  /\ saveRequested = FALSE /\ state = "none" /\ sinceRequest = 0 /\ sinceStatus = 0
  /\ saves = 0 /\ lastGood = 0
  /\ toMcu = <<>> /\ toHost = <<>> /\ clean = TRUE

SaveSeq(n) == n % SeqRange

\* A frame put on the link arrives, or is lost.
Frame(about, result, n) == [about |-> about, result |-> result, saves |-> n, age |-> 0]
Lost == clean' = FALSE /\ UNCHANGED <<toMcu, toHost>>
Send(about, cleanSoFar) ==
  \/ /\ Len(toMcu) < MaxInFlight
     /\ toMcu' = Append(toMcu, Frame(about, "none", 0))
     /\ clean' = cleanSoFar
     /\ UNCHANGED toHost
  \/ Lost
\* The MCU takes the command at the head of toMcu and answers it.
Answer(frame) ==
  /\ toMcu' = Tail(toMcu)
  /\ \/ /\ Len(toHost) < MaxInFlight
        /\ toHost' = Append(toHost, frame) /\ UNCHANGED clean
     \/ UNCHANGED toHost /\ clean' = FALSE

-----------------------------------------------------------------------------
\* The executor's thread.

Return(result) ==
  /\ pc' = "idle" /\ call' = "none"
  /\ reply' = result
  /\ attempt' = 0 /\ waited' = 0 /\ held' = 0

\* A service callback up to its first wait: the answer to an earlier command is
\* forgotten, the command sent.
Forgotten == "none"
Call(service) ==
  /\ pc = "idle" /\ calls < MaxCalls
  /\ service = "save" => seen
  /\ pc' = "acking" /\ call' = service /\ attempt' = 1 /\ waited' = 0
  /\ seqBefore' = IF service = "save" THEN last.saves ELSE 0
  /\ IF service = "mcu_id" THEN gotId' = FALSE /\ UNCHANGED ack
                           ELSE ack' = Forgotten /\ UNCHANGED gotId
  /\ reply' = "none" /\ calls' = calls + 1
  /\ Send(service, TRUE)
  /\ UNCHANGED <<held, seen, last, mcu, sinceStatus>>

\* A save before any status has been seen.
CallWithoutStatus ==
  /\ pc = "idle" /\ ~seen
  /\ calls < MaxCalls
  /\ reply' = "no_status" /\ calls' = calls + 1
  /\ UNCHANGED <<pc, call, attempt, waited, seqBefore, held, received, mcu, sinceStatus,
                 link>>

\* The predicate of the waits in sendCalibrationCommand() and mcuIdServiceCb().
Answered == IF call = "mcu_id" THEN gotId ELSE ack # "none"

\* Up to three attempts.
OnceMore == attempt <= Attempts
AttemptsLeft == attempt < Attempts
MayRetry == AttemptsLeft

Retry ==
  /\ pc = "acking" /\ ~Answered /\ waited = AckTimeout /\ MayRetry
  /\ attempt' = attempt + 1 /\ waited' = 0
  /\ Send(call, clean)
  /\ UNCHANGED <<pc, call, seqBefore, reply, calls, held, received, mcu, sinceStatus>>

GiveUp ==
  /\ pc = "acking" /\ ~Answered /\ waited = AckTimeout /\ ~MayRetry
  /\ Return("no_ack")
  /\ UNCHANGED <<seqBefore, calls, received, mcu, sinceStatus, link>>

\* The id ends mcuIdServiceCb().
EndOnId ==
  /\ pc = "acking" /\ Answered /\ call = "mcu_id"
  /\ Return("id")
  /\ UNCHANGED <<seqBefore, calls, received, mcu, sinceStatus, link>>

\* The acknowledgement ends a session call, and a save that is refused.
EndOnAnswer ==
  /\ pc = "acking" /\ Answered
  /\ \/ call = "session" /\ Return(IF ack = "accepted" THEN "ok" ELSE "rejected")
     \/ call = "save" /\ ack # "accepted" /\ Return("not_calibrated")
  /\ ack' = "none"
  /\ UNCHANGED <<seqBefore, calls, gotId, seen, last, mcu, sinceStatus, link>>

AwaitOutcome ==
  /\ pc = "acking" /\ Answered /\ call = "save" /\ ack = "accepted"
  /\ pc' = "finishing" /\ waited' = 0
  /\ ack' = "none"
  /\ UNCHANGED <<call, attempt, seqBefore, reply, calls, held, gotId, seen, last, mcu,
                 sinceStatus, link>>

\* A save has been completed since the status the call started from.
AnyStatus == last.state # "none"
SeqMoved == SaveSeq(last.saves) # SaveSeq(seqBefore)
Finished == SeqMoved

EndOnOutcome ==
  /\ pc = "finishing" /\ Finished
  /\ Return(CASE last.state = "saved" -> "saved"
              [] last.state = "rejected" -> "not_calibrated"
              [] OTHER -> "failed")
  /\ UNCHANGED <<seqBefore, calls, received, mcu, sinceStatus, link>>

TimeOut ==
  /\ pc = "finishing" /\ ~Finished /\ waited = DoneTimeout
  /\ Return("timeout")
  /\ UNCHANGED <<seqBefore, calls, received, mcu, sinceStatus, link>>

-----------------------------------------------------------------------------
\* The receive thread: onCommandAck(), onRosbotMcuId(), onRosbotImuCalibration().

Receive ==
  /\ toHost # <<>>
  /\ LET frame == Head(toHost) IN
     \/ /\ frame.about = "status"
        /\ last' = [state |-> frame.result, saves |-> frame.saves]
        /\ seen' = TRUE
        /\ UNCHANGED <<ack, gotId>>
     \/ /\ frame.about = "ack"
        /\ ack' = frame.result
        /\ UNCHANGED <<gotId, seen, last>>
     \/ /\ frame.about = "id"
        /\ gotId' = TRUE
        /\ UNCHANGED <<ack, seen, last>>
  /\ toHost' = Tail(toHost)
  /\ UNCHANGED <<bridge, mcu, sinceStatus, toMcu, clean>>

-----------------------------------------------------------------------------
\* The MCU.

Ack(result) == Answer(Frame("ack", result, 0))

\* McuIdCommand: the bridge ignores its acknowledgement and waits for the id.
McuSendsId ==
  /\ toMcu # <<>> /\ Head(toMcu).about = "mcu_id"
  /\ Answer(Frame("id", "none", 0))
  /\ UNCHANGED <<bridge, received, mcu, sinceStatus>>

\* ImuCalibrationCommand with kStart or kStop.
McuTakesSession ==
  /\ toMcu # <<>> /\ Head(toMcu).about = "session"
  /\ Ack("accepted")
  /\ UNCHANGED <<bridge, received, mcu, sinceStatus>>

\* kSave, the chip calibrated or not.
McuTakesSave ==
  /\ toMcu # <<>> /\ Head(toMcu).about = "save"
  /\ \/ /\ ~saveRequested /\ state # "saving"
        /\ saveRequested' = TRUE /\ sinceRequest' = 0
        /\ Ack("accepted")
        /\ UNCHANGED <<state, outcomes>>
     \/ Ack("rejected") /\ UNCHANGED mcu
  /\ UNCHANGED <<bridge, received, sinceStatus>>

\* The IMU task claims the request and begins serviceSave().
McuBeginsSave ==
  /\ saveRequested
  /\ saveRequested' = FALSE /\ state' = "saving"
  /\ UNCHANGED <<bridge, received, sinceRequest, outcomes, sinceStatus, link>>

McuEndsSave ==
  /\ state = "saving"
  /\ saves' = saves + 1
  /\ state' \in {"saved", "rejected", "failed"}
  /\ lastGood' = IF state' = "saved" THEN saves' ELSE lastGood
  /\ sinceRequest' = 0
  /\ UNCHANGED <<bridge, received, saveRequested, sinceStatus, link>>

\* The status publisher.
McuReports ==
  /\ sinceStatus = StatusPeriod
  /\ sinceStatus' = 0
  /\ \/ /\ Len(toHost) < MaxInFlight
        /\ toHost' = Append(toHost, Frame("status", state, saves))
        /\ UNCHANGED <<toMcu, clean>>
     \/ Lost
  /\ UNCHANGED <<bridge, received, mcu>>

-----------------------------------------------------------------------------
\* Time passes unless a deadline is due: a wait that is over, a frame that must
\* arrive, a save that must end, a report.
Saving == saveRequested \/ state = "saving"
Aged(frames) == [i \in DOMAIN frames |-> [frames[i] EXCEPT !.age = @ + 1]]
InTime(frames) == \A i \in DOMAIN frames : frames[i].age < MaxDelay

\* wait_for() returns as soon as its predicate holds.
Unnotified == waited < AckTimeout
AwaitingAnswer == ~Answered /\ waited < AckTimeout
AckWait == AwaitingAnswer

Waiting ==
  \/ pc = "idle"
  \/ pc = "acking" /\ AckWait
  \/ pc = "finishing" /\ ~Finished /\ waited < DoneTimeout

Tick ==
  /\ Waiting
  /\ InTime(toMcu) /\ InTime(toHost)
  /\ Saving => sinceRequest < SaveTime
  /\ sinceStatus < StatusPeriod
  /\ toMcu' = Aged(toMcu) /\ toHost' = Aged(toHost)
  /\ sinceRequest' = IF Saving THEN sinceRequest + 1 ELSE 0
  /\ sinceStatus' = sinceStatus + 1
  /\ waited' = IF pc = "idle" THEN 0 ELSE waited + 1
  /\ held' = IF pc = "idle" THEN 0 ELSE Older(held)
  /\ UNCHANGED <<pc, call, attempt, seqBefore, reply, calls, received, saveRequested,
                 state, outcomes, clean>>

-----------------------------------------------------------------------------
Services == {"save", "session", "mcu_id"}

Executor ==
  \/ Retry \/ GiveUp \/ EndOnId \/ EndOnAnswer \/ AwaitOutcome \/ EndOnOutcome \/ TimeOut

LinkTask == McuSendsId \/ McuTakesSession \/ McuTakesSave \/ McuReports
ImuTask == McuBeginsSave \/ McuEndsSave

Next ==
  \/ \E service \in Services : Call(service)
  \/ CallWithoutStatus
  \/ Executor \/ Receive \/ LinkTask \/ ImuTask
  \/ Tick

Spec == Init /\ [][Next]_vars

\* Threads and tasks run; nobody has to make a call, and every frame may be lost.
FairSpec ==
  Spec /\ WF_vars(Tick) /\ WF_vars(Executor) /\ WF_vars(Receive) /\ WF_vars(LinkTask)
       /\ WF_vars(ImuTask)

-----------------------------------------------------------------------------
States == {"none", "saving", "saved", "rejected", "failed"}
Replies == {"none", "ok", "id", "saved", "rejected", "not_calibrated", "failed",
            "timeout", "no_ack", "no_status"}
MaxSaves == MaxCalls * Attempts

TypeOK ==
  /\ pc \in {"idle", "acking", "finishing"} /\ call \in Services \cup {"none"}
  /\ attempt \in 0 .. Attempts /\ waited \in 0 .. AckTimeout + DoneTimeout
  /\ ack \in {"none", "accepted", "rejected"}
  /\ {gotId, seen, saveRequested, clean} \subseteq BOOLEAN
  /\ last \in [state : States, saves : 0 .. MaxSaves] /\ reply \in Replies
  /\ state \in States /\ sinceRequest \in 0 .. SaveTime /\ sinceStatus \in 0 .. StatusPeriod
  /\ {seqBefore, saves, lastGood} \subseteq 0 .. MaxSaves
  /\ calls \in 0 .. MaxCalls /\ held \in 0 .. Longest + 1
  /\ Len(toMcu) <= MaxInFlight /\ Len(toHost) <= MaxInFlight

\* A call that returns "saved" tells of a save that succeeded, completed after the
\* last status the bridge had when the call was made: never of an outcome it had
\* been told before, whatever was lost, retried or refused on the way.
SavedIsStored == reply = "saved" => lastGood > seqBefore

\* One call holds the executor, and with it wheel commands and heartbeats, for at
\* most three attempts and the wait for the outcome.
HoldBounded == held <= Longest

\* What the next property needs of the times: frames, saves and reports are quick against
\* the wait for an answer and the MCU's watchdog, and save_seq tells all the saves apart.
PromptLink ==
  /\ 2 * MaxDelay < AckTimeout
  /\ 2 * MaxDelay + SaveTime + StatusPeriod < Watchdog
  /\ MaxSaves < SeqRange

\* A call that loses no frame, however late its frames and whatever the calls before it
\* left under way, holds wheel commands up for less than the MCU's watchdog allows.
\* It is about one call: two of them back to back may take longer than the watchdog.
CleanCallIsShort == clean => held < Watchdog
=============================================================================
