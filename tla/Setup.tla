------------------------------- MODULE Setup -------------------------------
(***************************************************************************)
(* setup() up to the scheduler, over the configuration log: the gesture on *)
(* the buttons, load(), the handshake in which a host may name the robot,  *)
(* a boot calibration, and save().  The host may be silent, slow or old:   *)
(* it sends any lines in any order, and END or the timeout ends them.      *)
(* These steps replace SetupSave of PersistentConfig; the rest is its own. *)
(***************************************************************************)
EXTENDS PersistentConfig

VARIABLES
  stage,     \* off, handshake, named; running once save() has returned
  gesture,   \* BootAction: none, tap (another link, another host), hold (calibrate)
  name,      \* namespace_
  received   \* received_ns

\* History: the namespace of the last boot whose save() succeeded, and whether a
\* rewrite of the sector was cut short or failed since.
VARIABLES settled, wiped

boot == <<stage, gesture, name, received>>
setupVars == <<vars, boot, settled, wiped>>

SetupInit ==
  /\ Init
  /\ stage = "off" /\ gesture = "none" /\ name = EmptyNs /\ received = FALSE
  /\ settled = Stored.ns /\ wiped = FALSE

\* resolveBootAction(), load() and setNamespaceDefault(), whose pointer is to the
\* configuration just loaded.
Start ==
  /\ Boot
  /\ stage' = "handshake"
  /\ gesture' \in {"none", "tap", "hold"}
  /\ name' = EmptyNs /\ received' = FALSE
  /\ UNCHANGED <<settled, wiped>>

\* NS: - a line is cut at 31 characters, and Namespaces holds what is left.
\* BACKEND: lines and unknown ones change nothing.
HostNames ==
  /\ stage = "handshake"
  /\ name' \in Namespaces
  /\ received' = TRUE
  /\ UNCHANGED <<vars, stage, gesture, settled, wiped>>

\* ns_default, which is taken after load() has run.
DefaultBeforeLoad == EmptyNs
DefaultLoaded == cached.ns
DefaultNs == DefaultLoaded

\* END or the timeout: without a namespace from the host, the stored one.
HandshakeEnds ==
  /\ stage = "handshake"
  /\ stage' = "named"
  /\ name' = IF received THEN name ELSE DefaultNs
  /\ UNCHANGED <<vars, gesture, received, settled, wiped>>

\* What a boot calibration makes of the calibration: the sensor may be absent,
\* or never calibrated.
Captured == {cached.cal} \cup IF gesture = "hold" THEN Calibrations ELSE {}

\* save(): its no-op has succeeded as well.
SaveNow ==
  /\ stage = "named" /\ pc = "setup"
  /\ \E cal \in Captured : Save([ns |-> name, cal |-> cal])
  /\ IF pc' = "idle"
     THEN stage' = "running" /\ settled' = name /\ wiped' = FALSE
     ELSE UNCHANGED <<stage, settled, wiped>>
  /\ UNCHANGED <<gesture, name, received>>

\* The flash operations of save(), for setup() or for the IMU task.
Succeeds ==
  /\ LastWord
  /\ stage' = "running"
  /\ IF stage = "named" THEN settled' = name /\ wiped' = FALSE
                        ELSE UNCHANGED <<settled, wiped>>
  /\ UNCHANGED <<gesture, name, received>>

Fails ==
  /\ EraseFails \/ ProgramFails
  /\ stage' = "running"
  /\ wiped' = (wiped \/ rewrite)
  /\ UNCHANGED <<gesture, name, received, settled>>

Continues ==
  /\ Erase \/ FirstWord \/ RuntimeSave
  /\ UNCHANGED <<boot, settled, wiped>>

Off ==
  /\ PowerLoss
  /\ stage' = "off" /\ gesture' = "none" /\ name' = EmptyNs /\ received' = FALSE
  /\ wiped' = (wiped \/ rewrite)
  /\ UNCHANGED settled

SetupNext ==
  \/ Start \/ HostNames \/ HandshakeEnds \/ SaveNow
  \/ Succeeds \/ Fails \/ Continues \/ Off

SetupSpec == SetupInit /\ [][SetupNext]_setupVars

-----------------------------------------------------------------------------
SetupTypeOK ==
  /\ TypeOK
  /\ stage \in {"off", "handshake", "named", "running"}
  /\ gesture \in {"none", "tap", "hold"}
  /\ name \in Namespaces /\ received \in BOOLEAN
  /\ settled \in Namespaces /\ wiped \in BOOLEAN

\* A boot whose host is silent runs under the namespace of the last boot that
\* saved one, whatever calibrations, power losses and flash failures came in
\* between.  Only a rewrite of the sector that did not finish may leave it with
\* the empty one.
SilentBootKeepsNamespace ==
  stage = "named" /\ ~received =>
    name = settled \/ (wiped /\ name = EmptyNs)
=============================================================================
