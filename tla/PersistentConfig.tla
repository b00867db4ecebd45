-------------------------- MODULE PersistentConfig --------------------------
(***************************************************************************)
(* persistent_config over flash sector 11, and the two places that save:   *)
(* setup() once per boot, before the scheduler, and the IMU task's runtime *)
(* calibration save.  The power may go at any step; a flash operation may  *)
(* fail.  A configuration is a namespace and a calibration (NoCal when     *)
(* has_imu_calibration is false); a slot is erased, half-programmed, a     *)
(* record, or - slot 0 only - the record of older firmware.                *)
(***************************************************************************)
EXTENDS Integers

CONSTANTS
  SlotCount,     \* kSlotCount
  Namespaces,    \* namespaces the host may hand over, and the empty one
  EmptyNs,       \* the empty namespace
  Calibrations,  \* calibration offsets
  NoCal,         \* no calibration
  NoConfig       \* no save in progress

ASSUME SlotsAssumption == SlotCount \in Nat \ {0}
ASSUME NamesAssumption == EmptyNs \in Namespaces /\ NoCal \notin Calibrations

Slots == 0 .. SlotCount - 1
Configs == [ns : Namespaces, cal : Calibrations \cup {NoCal}]
Default == [ns |-> EmptyNs, cal |-> NoCal]

ASSUME NoConfigAssumption == NoConfig \notin Configs

Erased == [kind |-> "erased", cfg |-> Default]
Torn == [kind |-> "torn", cfg |-> Default]
Record(cfg) == [kind |-> "record", cfg |-> cfg]
Legacy(ns) == [kind |-> "legacy", cfg |-> [ns |-> ns, cal |-> NoCal]]
SlotContents ==
  {Erased, Torn} \cup {Record(c) : c \in Configs} \cup {Legacy(n) : n \in Namespaces}

VARIABLES
  sector,     \* the slots
  cached,     \* s_cached; the next boot loads it anew
  pc,         \* off, setup (loaded), idle, or where save() is: erase, program, programming
  scheduler,  \* xTaskGetSchedulerState() == taskSCHEDULER_RUNNING
  asked,      \* save()'s cfg while it writes
  at,         \* the slot it programs
  rewrite     \* its need_erase

\* History: a rewrite failed since the boot; a save was refused to the next boot.
VARIABLES lost, refused

save == <<asked, at, rewrite>>
history == <<lost, refused>>
vars == <<sector, cached, pc, scheduler, save, history>>

-----------------------------------------------------------------------------
\* scan(): newest and next_free; it stops at the first erased slot.
Before(i) == \A j \in Slots : j < i => sector[j] # Erased
Valid(i) == sector[i].kind = "record" /\ Before(i)

FirstValid == {i \in Slots : Valid(i) /\ \A j \in Slots : Valid(j) => i <= j}
LastValid == {i \in Slots : Valid(i) /\ \A j \in Slots : Valid(j) => j <= i}
Newest == LastValid
NoneValid == Newest = {}

Full == \A i \in Slots : sector[i] # Erased
AfterNewest == IF NoneValid THEN 0 ELSE (CHOOSE i \in Newest : TRUE) + 1
FirstErased == IF Full THEN -1 ELSE CHOOSE i \in Slots : sector[i] = Erased /\ Before(i)
NextFree == FirstErased

\* load(): the newest record, else a legacy one, else the defaults.
Stored ==
  IF ~NoneValid THEN sector[CHOOSE i \in Newest : TRUE].cfg
  ELSE IF sector[0].kind = "legacy" THEN sector[0].cfg
  ELSE Default

\* save()'s need_erase.
LegacyOnly == NoneValid /\ NextFree # 0
NeedErase == NextFree < 0 \/ (NoneValid /\ NextFree # 0)

-----------------------------------------------------------------------------
\* A new unit, or one that ran the firmware before calibrations were stored.
Init ==
  /\ \E first \in {Erased} \cup {Legacy(n) : n \in Namespaces} :
       sector = [i \in Slots |-> IF i = 0 THEN first ELSE Erased]
  /\ cached = Default
  /\ pc = "off" /\ scheduler = FALSE
  /\ asked = NoConfig /\ at = 0 /\ rewrite = FALSE
  /\ lost = FALSE /\ refused = FALSE

\* save() returns.  setup() goes on to start the scheduler; the IMU task to its
\* next cycle.
Return ==
  /\ pc' = "idle" /\ scheduler' = TRUE
  /\ asked' = NoConfig /\ at' = 0 /\ rewrite' = FALSE

\* setup(): load().
Boot ==
  /\ pc = "off"
  /\ cached' = Stored
  /\ pc' = "setup"
  /\ lost' = FALSE
  /\ UNCHANGED <<sector, scheduler, save, refused>>

\* save(cfg) up to its first flash operation.
Save(cfg) ==
  \/ /\ cfg = cached
     /\ Return
     /\ UNCHANGED <<sector, cached, history>>
  \/ /\ cfg # cached /\ NeedErase /\ scheduler
     /\ Return
     /\ refused' = TRUE
     /\ UNCHANGED <<sector, cached, lost>>
  \/ /\ cfg # cached /\ NeedErase /\ ~scheduler
     /\ pc' = "erase"
     /\ asked' = cfg /\ at' = 0 /\ rewrite' = TRUE
     /\ UNCHANGED <<sector, cached, scheduler, history>>
  \/ /\ cfg # cached /\ ~NeedErase
     /\ pc' = "program"
     /\ asked' = cfg /\ at' = NextFree /\ rewrite' = FALSE
     /\ UNCHANGED <<sector, cached, scheduler, history>>

\* setup(): the namespace is the host's or the loaded one; the calibration is
\* the loaded one, or what a boot calibration captured.
SetupSave ==
  /\ pc = "setup"
  /\ \E ns \in Namespaces, cal \in Calibrations \cup {cached.cal} :
       Save([ns |-> ns, cal |-> cal])

\* saveImuCalibration() keeps the cached namespace.
DefaultsWith(cal) == [Default EXCEPT !.cal = cal]
CachedWith(cal) == [cached EXCEPT !.cal = cal]

RuntimeSave ==
  /\ pc = "idle"
  /\ \E cal \in Calibrations : Save(CachedWith(cal))

Blank == [i \in Slots |-> Erased]
Garbage == [i \in Slots |-> Torn]

Erase ==
  /\ pc = "erase"
  /\ sector' = Blank
  /\ pc' = "program"
  /\ UNCHANGED <<cached, scheduler, save, history>>

\* HAL_FLASHEx_Erase fails; what it leaves is the flash's business.
EraseFails ==
  /\ pc = "erase"
  /\ sector' \in {sector, Garbage}
  /\ lost' = TRUE
  /\ Return
  /\ UNCHANGED <<cached, refused>>

\* programSlot(): the first word makes the slot neither erased nor valid ...
FirstWord ==
  /\ pc = "program"
  /\ sector' = [sector EXCEPT ![at] = Torn]
  /\ pc' = "programming"
  /\ UNCHANGED <<cached, scheduler, save, history>>

\* ... and the last one, its CRC, makes it the newest record.
LastWord ==
  /\ pc = "programming"
  /\ sector' = [sector EXCEPT ![at] = Record(asked)]
  /\ cached' = asked
  /\ Return
  /\ UNCHANGED history

\* What s_cached holds after a save that failed.
CachedAnyway == asked
CachedIfOk == cached

\* HAL_FLASH_Program fails, at the first word or a later one.
ProgramFails ==
  /\ pc \in {"program", "programming"}
  /\ cached' = CachedIfOk
  /\ lost' = (lost \/ rewrite)
  /\ Return
  /\ UNCHANGED <<sector, refused>>

\* The power goes, or the MCU resets.  Cut short, an erase leaves the sector as
\* it was, blank, or unreadable.
PowerLoss ==
  /\ pc # "off"
  /\ sector' \in IF pc = "erase" THEN {sector, Blank, Garbage} ELSE {sector}
  /\ pc' = "off" /\ scheduler' = FALSE
  /\ asked' = NoConfig /\ at' = 0 /\ rewrite' = FALSE
  /\ UNCHANGED <<cached, history>>

Next ==
  \/ Boot \/ SetupSave \/ RuntimeSave
  \/ Erase \/ EraseFails
  \/ FirstWord \/ LastWord \/ ProgramFails
  \/ PowerLoss

Spec == Init /\ [][Next]_vars

-----------------------------------------------------------------------------
TypeOK ==
  /\ sector \in [Slots -> SlotContents]
  /\ cached \in Configs
  /\ pc \in {"off", "setup", "idle", "erase", "program", "programming"}
  /\ scheduler \in BOOLEAN
  /\ asked \in Configs \cup {NoConfig} /\ at \in Slots /\ rewrite \in BOOLEAN
  /\ lost \in BOOLEAN /\ refused \in BOOLEAN

\* Whatever was cut short or failed before, the cache save() compares with, and
\* the bridge is told of, is what the next boot will load - unless a rewrite
\* of the sector failed since this boot.
CacheIsFlash == pc \in {"setup", "idle"} /\ ~lost => cached = Stored

\* save() programs erased flash only, past the slots that power losses and
\* failures left half-programmed: programming over one would fail its CRC.
ProgramsErasedFlash == pc = "program" => sector[at] = Erased

\* A calibration saved at run time never changes the namespace the next boot
\* will load, and neither does losing power in the middle of it.  (After a failed
\* rewrite it brings back the one the flash has lost.)
NamespaceKept == [][scheduler /\ ~lost => Stored'.ns = Stored.ns]_vars

\* The log keeps the promise of ConfigStore: the next boot loads the last
\* configuration a save reported stored, or the one whose saving was cut short.
Abstract == INSTANCE ConfigStore WITH
  stored <- Stored, known <- cached, rewriting <- rewrite
ImplementsConfigStore == Abstract!Spec

\* The comment "The next boot can do it": the boot after a refused save ends
\* with room for the next one (if the flash does its part).
NextBootMakesRoom ==
  [][~scheduler /\ scheduler' /\ ~lost' /\ refused => ~NeedErase']_vars
=============================================================================
