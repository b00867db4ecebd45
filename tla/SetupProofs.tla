---------------------------- MODULE SetupProofs ----------------------------
(***************************************************************************)
(* Proofs about the configuration log and its use by setup(), for a sector *)
(* of any number of slots and any names and calibrations.                  *)
(*                                                                         *)
(* The log is reasoned about as a function s from slots to their contents: *)
(* filled from the front, and with a newest record or none.                *)
(***************************************************************************)
EXTENDS Setup, TLAPS

\* scan() and load() of PersistentConfig, over any contents.
BeforeIn(s, i) == \A j \in Slots : j < i => s[j] # Erased
ValidIn(s, i) == s[i].kind = "record" /\ BeforeIn(s, i)
NewestIn(s) == {i \in Slots : ValidIn(s, i) /\ \A j \in Slots : ValidIn(s, j) => j <= i}
StoredIn(s) ==
  IF NewestIn(s) # {} THEN s[CHOOSE i \in NewestIn(s) : TRUE].cfg
  ELSE IF s[0].kind = "legacy" THEN s[0].cfg
  ELSE Default

RecordAt(s, i) == s[i].kind = "record"
Filled(s, n) == \A i \in Slots : s[i] = Erased <=> i >= n
Latest(s, m) == m \in Slots /\ RecordAt(s, m) /\ \A j \in Slots : RecordAt(s, j) => j <= m
NoRecord(s) == \A j \in Slots : ~RecordAt(s, j)

\* What every step leaves of the log.
Logged(s) ==
  /\ \E n \in 0 .. SlotCount : Filled(s, n)
  /\ NoRecord(s) \/ \E m \in Slots : Latest(s, m)

-----------------------------------------------------------------------------
\* The contents of slots.

LEMMA Numbers == SlotCount \in Nat /\ SlotCount > 0 /\ 0 \in Slots
BY SlotsAssumption DEF Slots

LEMMA Contents ==
  /\ Erased.kind = "erased" /\ Torn.kind = "torn"
  /\ \A c \in Configs : Record(c).kind = "record" /\ Record(c).cfg = c
  /\ Erased \in SlotContents /\ Torn \in SlotContents
  /\ \A c \in Configs : Record(c) \in SlotContents
  /\ \A n \in Namespaces : Legacy(n) \in SlotContents
BY DEF Erased, Torn, Record, Legacy, SlotContents

LEMMA DefaultIsConfig == Default \in Configs
BY NamesAssumption DEF Default, Configs

LEMMA LegacyIsConfig ==
  ASSUME NEW n \in Namespaces
  PROVE  Legacy(n).kind = "legacy" /\ Legacy(n).cfg \in Configs
BY DEF Legacy, Configs

LEMMA ContentsConfig ==
  ASSUME NEW x \in SlotContents
  PROVE  x.cfg \in Configs
<1>1. CASE x \in {Erased, Torn}
  BY <1>1, DefaultIsConfig DEF Erased, Torn
<1>2. CASE x \in {Record(c) : c \in Configs}
  BY <1>2 DEF Record
<1>3. CASE x \in {Legacy(n) : n \in Namespaces}
  BY <1>3, LegacyIsConfig
<1>4. QED
  BY <1>1, <1>2, <1>3 DEF SlotContents

\* The variables of the module are one such log.
LEMMA ScanIsIn ==
  /\ Stored = StoredIn(sector) /\ Stored' = StoredIn(sector')
  /\ NoneValid <=> NewestIn(sector) = {}
BY Zenon DEF Stored, StoredIn, NoneValid, Newest, LastValid, NewestIn, Valid, ValidIn, Before,
   BeforeIn

-----------------------------------------------------------------------------
\* What load() finds in a log.

LEMMA ValidIsRecord ==
  ASSUME NEW s, Logged(s), NEW i \in Slots
  PROVE  ValidIn(s, i) <=> RecordAt(s, i)
<1>1. PICK n \in 0 .. SlotCount : Filled(s, n)
  BY DEF Logged
<1>2. ASSUME RecordAt(s, i) PROVE BeforeIn(s, i)
  <2>1. s[i] # Erased
    BY <1>2, Contents DEF RecordAt
  <2>2. i < n
    BY <1>1, <2>1 DEF Filled, Slots
  <2>3. QED
    BY <1>1, <2>2 DEF Filled, Slots, BeforeIn
<1>3. QED
  BY <1>2 DEF ValidIn, RecordAt

LEMMA NewestIsLatest ==
  ASSUME NEW s, Logged(s), NEW m \in Slots, Latest(s, m)
  PROVE  NewestIn(s) = {m}
<1>1. \A i \in Slots : ValidIn(s, i) <=> RecordAt(s, i)
  BY ValidIsRecord
<1>2. NewestIn(s) = {i \in Slots : RecordAt(s, i) /\ \A j \in Slots : RecordAt(s, j) => j <= i}
  BY <1>1 DEF NewestIn
<1>3. \A i \in Slots : RecordAt(s, i) /\ (\A j \in Slots : RecordAt(s, j) => j <= i) <=> i = m
  BY DEF Latest, Slots
<1>4. QED
  BY <1>2, <1>3

LEMMA StoredIsLatest ==
  ASSUME NEW s, Logged(s), NEW m \in Slots, Latest(s, m)
  PROVE  StoredIn(s) = s[m].cfg
<1>1. (CHOOSE i \in {m} : TRUE) = m
  OBVIOUS
<1>2. QED
  BY <1>1, NewestIsLatest DEF StoredIn

LEMMA StoredWithoutRecord ==
  ASSUME NEW s, Logged(s), NoRecord(s)
  PROVE  /\ NewestIn(s) = {}
         /\ StoredIn(s) = IF s[0].kind = "legacy" THEN s[0].cfg ELSE Default
<1>1. NewestIn(s) = {}
  BY ValidIsRecord DEF NewestIn, NoRecord
<1>2. QED
  BY <1>1 DEF StoredIn

LEMMA StoredIsConfig ==
  ASSUME NEW s \in [Slots -> SlotContents], Logged(s)
  PROVE  StoredIn(s) \in Configs
<1>1. CASE NoRecord(s)
  BY <1>1, StoredWithoutRecord, DefaultIsConfig, ContentsConfig, Numbers
<1>2. ASSUME NEW m \in Slots, Latest(s, m) PROVE StoredIn(s) \in Configs
  BY <1>2, StoredIsLatest, ContentsConfig
<1>3. QED
  BY <1>1, <1>2 DEF Logged

\* Two logs with the same records, and the same first slot if it is a legacy one, load
\* the same.
LEMMA SameStored ==
  ASSUME NEW s, NEW t, Logged(s), Logged(t),
         \A i \in Slots : RecordAt(s, i) <=> RecordAt(t, i),
         \A i \in Slots : RecordAt(s, i) => s[i] = t[i],
         s[0].kind = "legacy" <=> t[0].kind = "legacy",
         s[0].kind = "legacy" => s[0] = t[0]
  PROVE  StoredIn(s) = StoredIn(t)
<1>1. CASE NoRecord(s)
  <2>1. NoRecord(t)
    BY <1>1 DEF NoRecord
  <2>2. QED
    BY <1>1, <2>1, StoredWithoutRecord
<1>2. ASSUME NEW m \in Slots, Latest(s, m) PROVE StoredIn(s) = StoredIn(t)
  <2>1. Latest(t, m)
    BY <1>2 DEF Latest
  <2>2. s[m] = t[m]
    BY <1>2 DEF Latest
  <2>3. QED
    BY <1>2, <2>1, <2>2, StoredIsLatest
<1>3. QED
  BY <1>1, <1>2 DEF Logged

-----------------------------------------------------------------------------
\* What the flash operations make of a log.

LEMMA BlankLog == Logged(Blank) /\ StoredIn(Blank) = Default /\ Filled(Blank, 0)
<1>1. \A i \in Slots : Blank[i] = Erased
  BY DEF Blank
<1>2. Filled(Blank, 0) /\ NoRecord(Blank)
  BY <1>1, Contents DEF Filled, NoRecord, RecordAt, Slots
<1>3. Logged(Blank)
  BY <1>2, Numbers DEF Logged
<1>4. QED
  BY <1>1, <1>2, <1>3, StoredWithoutRecord, Contents, Numbers

LEMMA GarbageLog == Logged(Garbage) /\ StoredIn(Garbage) = Default
<1>1. \A i \in Slots : Garbage[i] = Torn
  BY DEF Garbage
<1>2. Filled(Garbage, SlotCount) /\ NoRecord(Garbage)
  BY <1>1, Contents, Numbers DEF Filled, NoRecord, RecordAt, Slots
<1>3. Logged(Garbage)
  BY <1>2, Numbers DEF Logged
<1>4. QED
  BY <1>1, <1>2, <1>3, StoredWithoutRecord, Contents, Numbers

\* The first word goes to the first erased slot and changes nothing load() sees.
LEMMA TornLog ==
  ASSUME NEW s \in [Slots -> SlotContents], Logged(s), NEW a \in Slots, Filled(s, a)
  PROVE  LET t == [s EXCEPT ![a] = Torn]
         IN Logged(t) /\ Filled(t, a + 1) /\ StoredIn(t) = StoredIn(s)
<1> DEFINE t == [s EXCEPT ![a] = Torn]
<1>1. t[a] = Torn /\ s[a] = Erased /\ \A i \in Slots : i # a => t[i] = s[i]
  BY DEF Filled, Slots
<1>2. Filled(t, a + 1)
  BY <1>1, Contents DEF Filled, Slots
<1>3. \A i \in Slots : RecordAt(s, i) <=> RecordAt(t, i)
  BY <1>1, Contents DEF RecordAt
<1>4. NoRecord(t) \/ \E m \in Slots : Latest(t, m)
  BY <1>3 DEF Logged, NoRecord, Latest
<1>5. Logged(t)
  <2>1. a + 1 \in 0 .. SlotCount
    BY Numbers DEF Slots
  <2>2. QED
    BY <1>2, <1>4, <2>1 DEF Logged
<1>6. \A i \in Slots : RecordAt(s, i) => s[i] = t[i]
  BY <1>1, Contents DEF RecordAt
<1>7. (s[0].kind = "legacy" <=> t[0].kind = "legacy") /\ (s[0].kind = "legacy" => s[0] = t[0])
  BY <1>1, Contents, Numbers
<1> HIDE DEF t
<1>8. StoredIn(t) = StoredIn(s)
  BY <1>3, <1>5, <1>6, <1>7, SameStored
<1>9. QED
  BY <1>2, <1>5, <1>8 DEF t

\* The last word makes it the newest record.
LEMMA RecordLog ==
  ASSUME NEW s \in [Slots -> SlotContents], Logged(s), NEW a \in Slots, Filled(s, a + 1),
         NEW c \in Configs
  PROVE  LET t == [s EXCEPT ![a] = Record(c)]
         IN Logged(t) /\ StoredIn(t) = c
<1> DEFINE t == [s EXCEPT ![a] = Record(c)]
<1>1. t[a] = Record(c) /\ \A i \in Slots : i # a => t[i] = s[i]
  OBVIOUS
<1>2. Filled(t, a + 1)
  BY <1>1, Contents DEF Filled, Slots
<1>3. Latest(t, a)
  <2>1. RecordAt(t, a)
    BY <1>1, Contents DEF RecordAt
  <2>2. ASSUME NEW j \in Slots, RecordAt(t, j) PROVE j <= a
    BY <1>2, <2>2, Contents DEF RecordAt, Filled, Slots
  <2>3. QED
    BY <2>1, <2>2 DEF Latest
<1>4. Logged(t)
  <2>1. a + 1 \in 0 .. SlotCount
    BY Numbers DEF Slots
  <2>2. QED
    BY <1>2, <1>3, <2>1 DEF Logged
<1> HIDE DEF t
<1>5. StoredIn(t) = c
  BY <1>1, <1>3, <1>4, StoredIsLatest, Contents
<1>6. QED
  BY <1>4, <1>5 DEF t

\* next_free is the first erased slot, and less than 0 in a full sector.
LEMMA NextFreeIsFirst ==
  ASSUME NEW n \in 0 .. SlotCount, Filled(sector, n)
  PROVE  NextFree = IF n = SlotCount THEN -1 ELSE n
<1>1. CASE n = SlotCount
  BY <1>1 DEF Filled, Slots, NextFree, FirstErased, Full
<1>2. CASE n # SlotCount
  <2>1. n \in Slots /\ sector[n] = Erased /\ Before(n) /\ ~Full
    BY <1>2, Numbers DEF Filled, Slots, Before, Full
  <2>2. \A i \in Slots : sector[i] = Erased /\ Before(i) => i = n
    BY <2>1 DEF Filled, Slots, Before
  <2>3. (CHOOSE i \in Slots : sector[i] = Erased /\ Before(i)) = n
    BY <2>1, <2>2
  <2>4. QED
    BY <1>2, <2>1, <2>3 DEF NextFree, FirstErased
<1>3. QED
  BY <1>1, <1>2

-----------------------------------------------------------------------------
\* The inductive invariant of persistent_config.

Busy == {"erase", "program", "programming"}

\* Where save() is, and what it has left to do.
SaveState ==
  /\ pc \in {"off", "setup", "idle"} => asked = NoConfig /\ ~rewrite
  /\ pc \in Busy => asked \in Configs
  /\ pc = "erase" => rewrite /\ at = 0
  /\ pc = "program" => Filled(sector, at)
  /\ pc = "programming" => Filled(sector, at + 1)

\* Only setup(), before the scheduler, rewrites the sector.
SchedulerState ==
  /\ pc \in {"off", "setup"} => ~scheduler
  /\ pc = "idle" => scheduler
  /\ rewrite => ~scheduler

\* The cache is what the next boot loads, also while a save appends ...
CacheTrue ==
  /\ pc # "off" /\ ~lost /\ ~rewrite => cached = Stored
  /\ pc = "setup" => ~lost

\* ... and a save of the IMU task has its namespace.
RuntimeNs == scheduler /\ asked # NoConfig => asked.ns = cached.ns

LogInv ==
  /\ TypeOK /\ Logged(sector)
  /\ SaveState /\ SchedulerState /\ CacheTrue /\ RuntimeNs

LEMMA StoredStays == ASSUME UNCHANGED sector PROVE Stored' = Stored
BY ScanIsIn

LEMMA StoredTyped == ASSUME LogInv PROVE Stored \in Configs
BY ScanIsIn, StoredIsConfig DEF LogInv, TypeOK

LEMMA NoConfigIsNone == NoConfig \notin Configs
BY NoConfigAssumption

LEMMA InitLog == Init => Logged(sector) /\ Stored \in Configs /\ sector \in [Slots -> SlotContents]
<1> SUFFICES ASSUME Init PROVE Logged(sector) /\ Stored \in Configs
                              /\ sector \in [Slots -> SlotContents]
  OBVIOUS
<1>1. PICK first \in {Erased} \cup {Legacy(n) : n \in Namespaces} :
        sector = [i \in Slots |-> IF i = 0 THEN first ELSE Erased]
  BY DEF Init
<1>2. first \in SlotContents /\ first.kind # "record" /\ (first = Erased \/ first.kind = "legacy")
  BY Contents, LegacyIsConfig
<1>3. sector \in [Slots -> SlotContents]
  BY <1>1, <1>2, Contents
<1>4. NoRecord(sector)
  BY <1>1, <1>2, Contents DEF NoRecord, RecordAt
<1>5. \E n \in 0 .. SlotCount : Filled(sector, n)
  <2>1. CASE first = Erased
    <3>1. Filled(sector, 0)
      BY <1>1, <2>1 DEF Filled, Slots
    <3>2. QED
      BY <3>1, Numbers
  <2>2. CASE first # Erased
    <3>1. Filled(sector, 1)
      BY <1>1, <2>2 DEF Filled, Slots
    <3>2. QED
      BY <3>1, Numbers
  <2>3. QED
    BY <2>1, <2>2
<1>6. Logged(sector)
  BY <1>4, <1>5 DEF Logged
<1>7. QED
  BY <1>3, <1>6, StoredIsConfig, ScanIsIn

LEMMA InitHolds == Init => LogInv
<1> SUFFICES ASSUME Init PROVE LogInv
  OBVIOUS
<1>1. TypeOK
  BY InitLog, DefaultIsConfig, Numbers, Zenon DEF Init, TypeOK
<1>2. SaveState /\ SchedulerState /\ CacheTrue /\ RuntimeNs
  BY DEF Init, SaveState, SchedulerState, CacheTrue, RuntimeNs, Busy
<1>3. QED
  BY <1>1, <1>2, InitLog DEF LogInv

LEMMA BootHolds == ASSUME LogInv, Boot PROVE LogInv'
<1>1. TypeOK'
  BY StoredTyped DEF LogInv, TypeOK, Boot, save
<1>2. CacheTrue'
  BY StoredStays DEF LogInv, CacheTrue, Boot
<1>3. SaveState' /\ SchedulerState' /\ RuntimeNs'
  BY DEF LogInv, SaveState, SchedulerState, RuntimeNs, Boot, save, Busy
<1>4. QED
  BY <1>1, <1>2, <1>3 DEF LogInv, Boot

\* save() up to its first flash operation, for either caller.
LEMMA SaveHolds ==
  ASSUME LogInv, NEW cfg \in Configs, Save(cfg), pc \in {"setup", "idle"},
         pc = "idle" => cfg.ns = cached.ns
  PROVE  LogInv'
<1>1. PICK n \in 0 .. SlotCount : Filled(sector, n)
  BY DEF LogInv, Logged
<1>2. NextFree = IF n = SlotCount THEN -1 ELSE n
  BY <1>1, NextFreeIsFirst
<1>3. UNCHANGED <<sector, cached, lost>>
  BY DEF Save, history
<1>4. Stored' = Stored
  BY <1>3, StoredStays
<1>5. CASE Return
  <2>1. TypeOK'
    BY <1>3, <1>5, Numbers, Zenon DEF LogInv, TypeOK, Return, Save, history
  <2>2. SaveState' /\ SchedulerState' /\ RuntimeNs'
    BY <1>5 DEF Return, SaveState, SchedulerState, RuntimeNs, Busy
  <2>3. CacheTrue'
    BY <1>3, <1>4, <1>5 DEF LogInv, SaveState, CacheTrue, Return
  <2>4. QED
    BY <1>3, <2>1, <2>2, <2>3 DEF LogInv
<1>6. CASE ~Return /\ NeedErase
  <2>1. /\ pc' = "erase" /\ ~scheduler /\ asked' = cfg /\ at' = 0 /\ rewrite' = TRUE
        /\ UNCHANGED <<sector, cached, scheduler, history>>
    BY <1>6 DEF Save
  <2>2. TypeOK'
    BY <2>1, Numbers DEF LogInv, TypeOK, history
  <2>3. SaveState' /\ SchedulerState' /\ RuntimeNs' /\ CacheTrue'
    BY <2>1 DEF SaveState, SchedulerState, RuntimeNs, CacheTrue, Busy
  <2>4. QED
    BY <1>3, <2>2, <2>3 DEF LogInv
<1>7. CASE ~Return /\ ~NeedErase
  <2>1. /\ pc' = "program" /\ asked' = cfg /\ at' = NextFree /\ rewrite' = FALSE
        /\ UNCHANGED <<sector, cached, scheduler, history>>
    BY <1>7 DEF Save
  <2>2. at' = n /\ n \in Slots
    BY <1>2, <1>7, <2>1, Numbers DEF NeedErase, Slots
  <2>3. TypeOK'
    BY <2>1, <2>2 DEF LogInv, TypeOK, history
  <2>4. SaveState'
    BY <1>1, <2>1, <2>2 DEF SaveState, Busy
  <2>5. SchedulerState' /\ RuntimeNs' /\ CacheTrue'
    BY <1>4, <2>1 DEF LogInv, SaveState, SchedulerState, RuntimeNs, CacheTrue, history
  <2>6. QED
    BY <1>3, <2>3, <2>4, <2>5 DEF LogInv
<1>8. QED
  BY <1>5, <1>6, <1>7

LEMMA SetupSaveHolds == ASSUME LogInv, SetupSave PROVE LogInv'
<1>1. PICK ns \in Namespaces, cal \in Calibrations \cup {cached.cal} :
        Save([ns |-> ns, cal |-> cal])
  BY DEF SetupSave
<1>2. [ns |-> ns, cal |-> cal] \in Configs
  BY DEF LogInv, TypeOK, Configs
<1>3. QED
  BY <1>1, <1>2, SaveHolds DEF SetupSave

LEMMA RuntimeSaveHolds == ASSUME LogInv, RuntimeSave PROVE LogInv'
<1>1. PICK cal \in Calibrations : Save(CachedWith(cal))
  BY DEF RuntimeSave
<1>2. CachedWith(cal) \in Configs /\ CachedWith(cal).ns = cached.ns
  BY DEF CachedWith, LogInv, TypeOK, Configs
<1>3. QED
  BY <1>1, <1>2, SaveHolds DEF RuntimeSave

LEMMA EraseHolds == ASSUME LogInv, Erase PROVE LogInv' /\ Stored' = Default
<1>1. sector' = Blank /\ rewrite' = TRUE /\ at' = 0
  BY DEF Erase, LogInv, SaveState, TypeOK, save
<1>2. Blank \in [Slots -> SlotContents]
  BY Contents DEF Blank
<1>3. TypeOK'
  BY <1>1, <1>2 DEF LogInv, TypeOK, Erase, save, history
<1>4. SaveState' /\ SchedulerState' /\ CacheTrue' /\ RuntimeNs'
  BY <1>1, BlankLog DEF LogInv, SaveState, SchedulerState, CacheTrue, RuntimeNs, Erase, Busy,
     save, history
<1>5. QED
  BY <1>1, <1>3, <1>4, BlankLog, ScanIsIn DEF LogInv

\* What a failure leaves: nothing of the save but, of a rewrite, its damage.
LEMMA ReturnHolds ==
  ASSUME LogInv, Return, pc \in Busy, UNCHANGED <<cached, refused>>, lost' \in BOOLEAN,
         Logged(sector'), sector' \in [Slots -> SlotContents],
         ~lost' => ~lost /\ ~rewrite /\ UNCHANGED sector
  PROVE  LogInv'
<1>1. TypeOK'
  BY Numbers, Zenon DEF LogInv, TypeOK, Return
<1>2. SaveState' /\ SchedulerState' /\ RuntimeNs'
  BY DEF Return, SaveState, SchedulerState, RuntimeNs, Busy
<1>3. CacheTrue'
  BY StoredStays DEF LogInv, CacheTrue, Return, Busy
<1>4. QED
  BY <1>1, <1>2, <1>3 DEF LogInv

LEMMA EraseFailsHolds ==
  ASSUME LogInv, EraseFails
  PROVE  LogInv' /\ Stored' \in {Stored, Default}
<1>1. Garbage \in [Slots -> SlotContents]
  BY Contents DEF Garbage
<1>2. sector' \in [Slots -> SlotContents] /\ Logged(sector')
  BY <1>1, GarbageLog DEF LogInv, TypeOK, EraseFails
<1>3. LogInv'
  BY <1>2, ReturnHolds DEF EraseFails, Busy
<1>4. QED
  BY <1>3, GarbageLog, ScanIsIn DEF EraseFails

LEMMA FirstWordHolds == ASSUME LogInv, FirstWord PROVE LogInv' /\ Stored' = Stored
<1>1. at \in Slots /\ Filled(sector, at) /\ sector \in [Slots -> SlotContents] /\ Logged(sector)
  BY DEF LogInv, TypeOK, SaveState, FirstWord
<1>2. Logged(sector') /\ Filled(sector', at + 1) /\ StoredIn(sector') = StoredIn(sector)
  BY <1>1, TornLog DEF FirstWord
<1>3. sector' \in [Slots -> SlotContents]
  BY <1>1, Contents DEF FirstWord
<1>4. Stored' = Stored
  BY <1>2, ScanIsIn
<1>5. TypeOK'
  BY <1>3 DEF LogInv, TypeOK, FirstWord, save, history
<1>6. SaveState' /\ SchedulerState' /\ CacheTrue' /\ RuntimeNs'
  BY <1>2, <1>4 DEF LogInv, SaveState, SchedulerState, CacheTrue, RuntimeNs, FirstWord, Busy,
     save, history
<1>7. QED
  BY <1>2, <1>4, <1>5, <1>6 DEF LogInv

LEMMA LastWordHolds ==
  ASSUME LogInv, LastWord
  PROVE  LogInv' /\ Stored' = asked /\ asked \in Configs
<1>1. /\ at \in Slots /\ Filled(sector, at + 1) /\ sector \in [Slots -> SlotContents]
      /\ Logged(sector) /\ asked \in Configs
  BY DEF LogInv, TypeOK, SaveState, LastWord, Busy
<1>2. Logged(sector') /\ StoredIn(sector') = asked
  BY <1>1, RecordLog DEF LastWord
<1>3. sector' \in [Slots -> SlotContents]
  BY <1>1, Contents DEF LastWord
<1>4. Stored' = asked
  BY <1>2, ScanIsIn
<1>5. TypeOK'
  BY <1>1, <1>3, Numbers, Zenon DEF LogInv, TypeOK, LastWord, Return, history
<1>6. SaveState' /\ SchedulerState' /\ CacheTrue' /\ RuntimeNs'
  BY <1>4 DEF SaveState, SchedulerState, CacheTrue, RuntimeNs, LastWord, Return, Busy
<1>7. QED
  BY <1>1, <1>2, <1>4, <1>5, <1>6 DEF LogInv

LEMMA ProgramFailsHolds == ASSUME LogInv, ProgramFails PROVE LogInv' /\ Stored' = Stored
<1>1. lost' \in BOOLEAN /\ (~lost' => ~lost /\ ~rewrite)
  BY Zenon DEF LogInv, TypeOK, ProgramFails
<1>2. LogInv'
  BY <1>1, ReturnHolds DEF LogInv, TypeOK, ProgramFails, CachedIfOk, Busy
<1>3. QED
  BY <1>2, StoredStays DEF ProgramFails

LEMMA PowerLossHolds ==
  ASSUME LogInv, PowerLoss
  PROVE  LogInv' /\ Stored' \in {Stored, Default} /\ (~rewrite => Stored' = Stored)
<1>1. Garbage \in [Slots -> SlotContents] /\ Blank \in [Slots -> SlotContents]
  BY Contents DEF Garbage, Blank
<1>2. /\ sector' \in [Slots -> SlotContents] /\ Logged(sector')
      /\ sector' \in {sector, Blank, Garbage} /\ (pc # "erase" => sector' = sector)
  BY <1>1, GarbageLog, BlankLog DEF LogInv, TypeOK, PowerLoss
<1>3. TypeOK'
  BY <1>2, Numbers, Zenon DEF LogInv, TypeOK, PowerLoss, history
<1>4. SaveState' /\ SchedulerState' /\ CacheTrue' /\ RuntimeNs'
  BY DEF SaveState, SchedulerState, CacheTrue, RuntimeNs, PowerLoss, Busy
<1>5. Stored' \in {Stored, Default}
  BY <1>2, GarbageLog, BlankLog, ScanIsIn
<1>6. ~rewrite => Stored' = Stored
  BY <1>2, StoredStays DEF LogInv, SaveState
<1>7. QED
  BY <1>2, <1>3, <1>4, <1>5, <1>6 DEF LogInv

LEMMA LogStutters == ASSUME LogInv, UNCHANGED vars PROVE LogInv'
<1>1. Stored' = Stored
  BY StoredStays DEF vars
<1>2. TypeOK'
  BY DEF LogInv, TypeOK, vars, save, history
<1>3. SaveState' /\ SchedulerState' /\ CacheTrue' /\ RuntimeNs'
  BY <1>1 DEF LogInv, SaveState, SchedulerState, CacheTrue, RuntimeNs, vars, save, history
<1>4. QED
  BY <1>2, <1>3 DEF LogInv, vars

LEMMA LogStepHolds == LogInv /\ [Next]_vars => LogInv'
BY BootHolds, SetupSaveHolds, RuntimeSaveHolds, EraseHolds, EraseFailsHolds, FirstWordHolds,
   LastWordHolds, ProgramFailsHolds, PowerLossHolds, LogStutters
DEF Next

-----------------------------------------------------------------------------
\* setup() takes the steps of persistent_config.

LEMMA SaveNowIsSave ==
  ASSUME LogInv, SetupTypeOK, SaveNow
  PROVE  /\ SetupSave
         /\ \E cal \in Calibrations \cup {cached.cal} :
              Save([ns |-> name, cal |-> cal])
<1>1. PICK cal \in Captured : Save([ns |-> name, cal |-> cal])
  BY DEF SaveNow
<1>2. cal \in Calibrations \cup {cached.cal} /\ name \in Namespaces
  BY DEF Captured, SetupTypeOK
<1>3. QED
  BY <1>1, <1>2 DEF SetupSave, SaveNow

LEMMA SetupTakesLogSteps ==
  ASSUME LogInv, SetupTypeOK, [SetupNext]_setupVars
  PROVE  [Next]_vars
<1>1. CASE Start \/ HostNames \/ HandshakeEnds
  BY <1>1 DEF Start, HostNames, HandshakeEnds, Next
<1>2. CASE SaveNow
  BY <1>2, SaveNowIsSave DEF Next
<1>3. CASE Succeeds \/ Fails \/ Continues \/ Off
  BY <1>3 DEF Succeeds, Fails, Continues, Off, Next
<1>4. CASE UNCHANGED setupVars
  BY <1>4 DEF setupVars
<1>5. QED
  BY <1>1, <1>2, <1>3, <1>4 DEF SetupNext

\* Where the boot is while save() is where it is.
StageState ==
  /\ stage = "off" <=> pc = "off"
  /\ stage = "handshake" => pc = "setup"
  /\ stage = "named" => pc \in Busy \cup {"setup"}
  /\ stage = "running" <=> scheduler
  /\ stage = "named" /\ asked # NoConfig => asked.ns = name

\* Whose namespace the flash and the cache hold.
SettledNs ==
  /\ Stored.ns = settled \/ ((wiped \/ rewrite) /\ Stored.ns = EmptyNs)
  /\ pc # "off" => cached.ns = settled \/ (wiped /\ cached.ns = EmptyNs)

SetupInv ==
  /\ LogInv /\ SetupTypeOK
  /\ StageState /\ SettledNs /\ SilentBootKeepsNamespace

LEMMA SetupInitHolds == SetupInit => SetupInv
<1> SUFFICES ASSUME SetupInit PROVE SetupInv
  OBVIOUS
<1>1. LogInv /\ Stored \in Configs
  BY InitHolds, InitLog DEF SetupInit
<1>2. SetupTypeOK
  BY <1>1, NamesAssumption DEF SetupInit, SetupTypeOK, LogInv, Configs
<1>3. StageState
  BY DEF SetupInit, Init, StageState, Busy
<1>4. SettledNs /\ SilentBootKeepsNamespace
  BY DEF SetupInit, Init, SettledNs, SilentBootKeepsNamespace
<1>5. QED
  BY <1>1, <1>2, <1>3, <1>4 DEF SetupInv

LEMMA SetupTypeHolds ==
  ASSUME SetupInv, [SetupNext]_setupVars
  PROVE  LogInv' /\ SetupTypeOK'
<1>1. LogInv'
  BY SetupTakesLogSteps, LogStepHolds DEF SetupInv
<1>2. cached.ns \in Namespaces /\ EmptyNs \in Namespaces
  BY NamesAssumption DEF SetupInv, SetupTypeOK, TypeOK, Configs
<1>3. /\ stage' \in {"off", "handshake", "named", "running"}
      /\ gesture' \in {"none", "tap", "hold"}
      /\ name' \in Namespaces /\ received' \in BOOLEAN
      /\ settled' \in Namespaces /\ wiped' \in BOOLEAN
  <2>1. CASE Start \/ HostNames \/ HandshakeEnds
    BY <1>2, <2>1 DEF Start, HostNames, HandshakeEnds, DefaultNs, DefaultLoaded, SetupInv,
       SetupTypeOK
  <2>2. CASE SaveNow \/ Succeeds
    BY <2>2, Zenon DEF SaveNow, Succeeds, SetupInv, SetupTypeOK
  <2>3. CASE Fails \/ Continues \/ Off \/ UNCHANGED setupVars
    <3>1. wiped' \in BOOLEAN
      BY <2>3, Zenon DEF Fails, Continues, Off, setupVars, SetupInv, SetupTypeOK
    <3>2. QED
      BY <1>2, <2>3, <3>1 DEF Fails, Continues, Off, setupVars, boot, SetupInv, SetupTypeOK
  <2>4. QED
    BY <2>1, <2>2, <2>3 DEF SetupNext
<1>4. QED
  BY <1>1, <1>3 DEF LogInv, SetupTypeOK

LEMMA StartHolds == ASSUME SetupInv, Start PROVE StageState' /\ SettledNs'
<1>1. Stored' = Stored /\ ~rewrite
  BY StoredStays DEF Start, Boot, SetupInv, LogInv, SaveState
<1>2. StageState'
  BY DEF Start, Boot, SetupInv, LogInv, SchedulerState, StageState
<1>3. SettledNs'
  BY <1>1 DEF Start, Boot, save, SetupInv, SettledNs
<1>4. QED
  BY <1>2, <1>3

LEMMA HandshakeHolds ==
  ASSUME SetupInv, HostNames \/ HandshakeEnds
  PROVE  StageState' /\ SettledNs' /\ SilentBootKeepsNamespace'
<1>1. Stored' = Stored /\ asked = NoConfig /\ pc = "setup"
  BY StoredStays DEF HostNames, HandshakeEnds, SetupInv, LogInv, SaveState, StageState, vars
<1>2. StageState'
  BY <1>1 DEF HostNames, HandshakeEnds, SetupInv, StageState, vars, save
<1>3. SettledNs'
  BY <1>1 DEF HostNames, HandshakeEnds, SetupInv, SettledNs, vars, save
<1>4. SilentBootKeepsNamespace'
  BY <1>1 DEF HostNames, HandshakeEnds, DefaultNs, DefaultLoaded, SetupInv, SettledNs,
     SilentBootKeepsNamespace
<1>5. QED
  BY <1>2, <1>3, <1>4

LEMMA SaveNowHolds ==
  ASSUME SetupInv, SaveNow
  PROVE  StageState' /\ SettledNs' /\ SilentBootKeepsNamespace'
<1>1. PICK cal \in Calibrations \cup {cached.cal} : Save([ns |-> name, cal |-> cal])
  BY SaveNowIsSave DEF SetupInv
<1>2. /\ Stored' = Stored /\ cached = Stored /\ ~scheduler /\ ~rewrite /\ ~lost
      /\ pc = "setup" /\ stage = "named" /\ UNCHANGED cached
  BY <1>1, StoredStays DEF SaveNow, Save, SetupInv, LogInv, SchedulerState, SaveState, CacheTrue
<1>3. CASE pc' = "idle"
  <2>1. [ns |-> name, cal |-> cal] = cached /\ Return
    BY <1>1, <1>2, <1>3 DEF Save
  <2>2. cached.ns = name
    BY <2>1
  <2>3. StageState'
    BY <1>3, <2>1 DEF StageState, SaveNow, Return, Busy
  <2>4. SettledNs' /\ SilentBootKeepsNamespace'
    BY <1>2, <1>3, <2>2 DEF SaveNow, SettledNs, SilentBootKeepsNamespace
  <2>5. QED
    BY <2>3, <2>4
<1>4. CASE pc' # "idle"
  <2>1. /\ pc' \in {"erase", "program"} /\ asked' = [ns |-> name, cal |-> cal]
        /\ scheduler' = scheduler
    BY <1>1, <1>4 DEF Save, Return
  <2>2. UNCHANGED <<stage, name, received, settled, wiped>>
    BY <1>4 DEF SaveNow
  <2>3. StageState'
    BY <1>2, <2>1, <2>2 DEF SetupInv, StageState, Busy
  <2>4. SettledNs' /\ SilentBootKeepsNamespace'
    BY <1>2, <2>2 DEF SetupInv, SettledNs, SilentBootKeepsNamespace
  <2>5. QED
    BY <2>3, <2>4
<1>5. QED
  BY <1>3, <1>4

LEMMA SucceedsHolds == ASSUME SetupInv, Succeeds PROVE StageState' /\ SettledNs'
<1>1. Stored' = asked /\ cached' = asked /\ asked # NoConfig /\ Return
  BY LastWordHolds, NoConfigIsNone DEF Succeeds, LastWord, SetupInv
<1>2. StageState'
  BY <1>1 DEF StageState, Succeeds, Return, Busy
<1>3. CASE stage = "named"
  <2>1. settled' = name /\ asked.ns = name
    BY <1>1, <1>3 DEF Succeeds, SetupInv, StageState
  <2>2. QED
    BY <1>1, <1>2, <2>1 DEF SettledNs
<1>4. CASE stage # "named"
  <2>1. pc = "programming"
    BY DEF Succeeds, LastWord
  <2>2. stage = "running"
    BY <1>4, <2>1 DEF SetupInv, SetupTypeOK, StageState
  <2>3. asked.ns = cached.ns
    BY <1>1, <2>2 DEF SetupInv, StageState, LogInv, RuntimeNs
  <2>4. QED
    BY <1>1, <1>2, <1>4, <2>1, <2>3 DEF Succeeds, SetupInv, SettledNs
<1>5. QED
  BY <1>2, <1>3, <1>4

LEMMA FailsHolds == ASSUME SetupInv, Fails PROVE StageState' /\ SettledNs'
<1>1. Stored' \in {Stored, Default} /\ (~rewrite => Stored' = Stored)
  BY EraseFailsHolds, ProgramFailsHolds DEF Fails, SetupInv, LogInv, SaveState, EraseFails
<1>2. Return /\ cached' = cached /\ pc # "off"
  BY DEF Fails, EraseFails, ProgramFails, CachedIfOk
<1>3. StageState'
  BY <1>2 DEF Fails, Return, StageState, Busy
<1>4. SettledNs'
  <2>1. cached'.ns = settled' \/ (wiped' /\ cached'.ns = EmptyNs)
    BY <1>2, Zenon DEF Fails, SetupInv, SettledNs
  <2>2. CASE Stored' = Stored
    BY <2>1, <2>2, Zenon DEF Fails, SetupInv, SettledNs
  <2>3. CASE rewrite /\ Stored' = Default
    BY <2>1, <2>3 DEF Fails, Default, SettledNs
  <2>4. QED
    BY <1>1, <2>2, <2>3
<1>5. QED
  BY <1>3, <1>4

LEMMA ContinuesHolds ==
  ASSUME SetupInv, Continues
  PROVE  StageState' /\ SettledNs' /\ SilentBootKeepsNamespace'
<1>1. SilentBootKeepsNamespace'
  BY DEF Continues, boot, SetupInv, SilentBootKeepsNamespace
<1>2. CASE Erase
  <2>1. Stored' = Default /\ rewrite'
    BY <1>2, EraseHolds DEF SetupInv, LogInv, SaveState, Erase, save
  <2>2. StageState'
    BY <1>2 DEF Erase, save, Continues, boot, SetupInv, StageState, Busy
  <2>3. SettledNs'
    BY <1>2, <2>1 DEF Erase, Continues, boot, Default, SetupInv, SettledNs
  <2>4. QED
    BY <1>1, <2>2, <2>3
<1>3. CASE FirstWord
  <2>1. Stored' = Stored
    BY <1>3, FirstWordHolds DEF SetupInv
  <2>2. StageState'
    BY <1>3 DEF FirstWord, save, Continues, boot, SetupInv, StageState, Busy
  <2>3. SettledNs'
    BY <1>3, <2>1 DEF FirstWord, save, Continues, boot, SetupInv, SettledNs
  <2>4. QED
    BY <1>1, <2>2, <2>3
<1>4. CASE RuntimeSave
  <2>1. PICK cal \in Calibrations : Save(CachedWith(cal))
    BY <1>4 DEF RuntimeSave
  <2>2. scheduler /\ ~rewrite /\ pc = "idle" /\ stage = "running"
    BY <1>4 DEF RuntimeSave, SetupInv, LogInv, SchedulerState, SaveState, StageState
  <2>3. /\ Stored' = Stored /\ cached' = cached /\ scheduler' = TRUE /\ pc' # "off"
        /\ rewrite' = FALSE
    BY <2>1, <2>2, StoredStays DEF Save, Return
  <2>4. StageState'
    BY <2>2, <2>3 DEF Continues, boot, StageState
  <2>5. SettledNs'
    BY <2>2, <2>3 DEF Continues, boot, SetupInv, SettledNs
  <2>6. QED
    BY <1>1, <2>4, <2>5
<1>5. QED
  BY <1>2, <1>3, <1>4 DEF Continues

LEMMA OffHolds == ASSUME SetupInv, Off PROVE StageState' /\ SettledNs'
<1>1. Stored' \in {Stored, Default} /\ (~rewrite => Stored' = Stored)
  BY PowerLossHolds DEF Off, SetupInv
<1>2. StageState'
  BY DEF Off, PowerLoss, StageState, Busy
<1>3. SettledNs'
  <2>1. CASE Stored' = Stored
    BY <2>1, Zenon DEF Off, PowerLoss, SetupInv, SettledNs
  <2>2. CASE rewrite /\ Stored' = Default
    BY <2>2 DEF Off, PowerLoss, Default, SettledNs
  <2>3. QED
    BY <1>1, <2>1, <2>2
<1>4. QED
  BY <1>2, <1>3

LEMMA SetupStepHolds == SetupInv /\ [SetupNext]_setupVars => SetupInv'
<1> SUFFICES ASSUME SetupInv, [SetupNext]_setupVars PROVE SetupInv'
  OBVIOUS
<1>1. LogInv' /\ SetupTypeOK'
  BY SetupTypeHolds
<1>2. StageState' /\ SettledNs' /\ SilentBootKeepsNamespace'
  <2>1. CASE Start \/ Succeeds \/ Fails \/ Off
    <3>1. stage' # "named"
      BY <2>1 DEF Start, Succeeds, Fails, Off
    <3>2. QED
      BY <2>1, <3>1, StartHolds, SucceedsHolds, FailsHolds, OffHolds
      DEF SilentBootKeepsNamespace
  <2>2. CASE HostNames \/ HandshakeEnds \/ SaveNow \/ Continues
    BY <2>2, HandshakeHolds, SaveNowHolds, ContinuesHolds
  <2>3. CASE UNCHANGED setupVars
    <3>1. Stored' = Stored
      BY <2>3, StoredStays DEF setupVars, vars
    <3>2. QED
      BY <2>3, <3>1 DEF setupVars, vars, save, boot, SetupInv, StageState, SettledNs,
         SilentBootKeepsNamespace
  <2>4. QED
    BY <2>1, <2>2, <2>3 DEF SetupNext
<1>3. QED
  BY <1>1, <1>2 DEF SetupInv

LEMMA SetupInductive == SetupSpec => []SetupInv
BY SetupInitHolds, SetupStepHolds, PTL DEF SetupSpec

\* Every state of setup() and of the log it writes has its type: no slot is ever
\* indexed outside the sector, and save() has a configuration while it writes one.
THEOREM TypeCorrect == SetupSpec => []SetupTypeOK
<1>1. SetupInv => SetupTypeOK
  BY DEF SetupInv
<1>2. QED
  BY <1>1, SetupInductive, PTL

\* The cache that save() compares with, and the bridge is told of, is what the next
\* boot loads, unless a rewrite of the sector failed since this boot.
THEOREM CacheMatchesFlash == SetupSpec => []CacheIsFlash
<1>1. SetupInv => CacheIsFlash
  BY DEF SetupInv, LogInv, SaveState, CacheTrue, CacheIsFlash
<1>2. QED
  BY <1>1, SetupInductive, PTL

\* save() never programs a slot that is not erased, however many half-programmed
\* slots power losses and failures left before it.
THEOREM OnlyErasedFlash == SetupSpec => []ProgramsErasedFlash
<1>1. ASSUME SetupInv, pc = "program" PROVE sector[at] = Erased
  BY <1>1 DEF SetupInv, LogInv, TypeOK, SaveState, Filled, Slots
<1>2. SetupInv => ProgramsErasedFlash
  BY <1>1 DEF ProgramsErasedFlash
<1>3. QED
  BY <1>2, SetupInductive, PTL

\* A boot with a silent host runs under the namespace the last successful boot
\* saved; only an unfinished rewrite of the sector may lose it.
THEOREM SilentBoot == SetupSpec => []SilentBootKeepsNamespace
<1>1. SetupInv => SilentBootKeepsNamespace
  BY DEF SetupInv
<1>2. QED
  BY <1>1, SetupInductive, PTL

\* Once the scheduler runs, no save, failure or power loss changes the namespace
\* the next boot loads.
LEMMA NamespaceStays ==
  ASSUME LogInv, Next, scheduler, ~lost
  PROVE  Stored'.ns = Stored.ns
<1>1. pc # "erase" /\ ~rewrite
  BY DEF LogInv, SaveState, SchedulerState
<1>2. CASE Boot \/ SetupSave \/ RuntimeSave
  BY <1>2, StoredStays DEF Boot, SetupSave, RuntimeSave, Save
<1>3. CASE LastWord
  <2>1. Stored' = asked /\ asked # NoConfig /\ pc = "programming"
    BY <1>3, LastWordHolds, NoConfigIsNone DEF LastWord
  <2>2. asked.ns = cached.ns /\ cached = Stored
    BY <1>1, <2>1 DEF LogInv, RuntimeNs, CacheTrue
  <2>3. QED
    BY <2>1, <2>2
<1>4. CASE Erase \/ EraseFails
  BY <1>1, <1>4 DEF Erase, EraseFails
<1>5. CASE FirstWord \/ ProgramFails \/ PowerLoss
  BY <1>1, <1>5, FirstWordHolds, ProgramFailsHolds, PowerLossHolds
<1>6. QED
  BY <1>2, <1>3, <1>4, <1>5 DEF Next

\* A calibration saved at run time keeps the namespace the next boot loads, at every
\* step and whatever fails.
THEOREM NamespaceSafe == SetupSpec => NamespaceKept
<1>1. ASSUME SetupInv, [SetupNext]_setupVars
      PROVE  [scheduler /\ ~lost => Stored'.ns = Stored.ns]_vars
  <2>1. LogInv /\ [Next]_vars
    BY <1>1, SetupTakesLogSteps DEF SetupInv
  <2>2. QED
    BY <2>1, NamespaceStays
<1>2. QED
  BY <1>1, SetupInductive, PTL DEF SetupSpec, NamespaceKept

-----------------------------------------------------------------------------
\* One step of the log is one step of ConfigStore, or changes nothing of it.
LEMMA StepImplementsStore ==
  ASSUME LogInv, [Next]_vars
  PROVE  [Abstract!Next]_(Abstract!vars)
<1>1. CASE Boot
  <2>1. Stored' = Stored
    BY <1>1, StoredStays DEF Boot
  <2>2. Abstract!Load
    BY <1>1, <2>1 DEF Boot, save, Abstract!Load
  <2>3. QED
    BY <2>2 DEF Abstract!Next
<1>2. ASSUME NEW cfg \in Configs, Save(cfg), pc \in {"setup", "idle"}
      PROVE  [Abstract!Next]_(Abstract!vars)
  <2>1. Stored' = Stored /\ cached' = cached /\ asked = NoConfig /\ rewrite = FALSE
    BY <1>2, StoredStays DEF Save, LogInv, TypeOK, SaveState
  <2>2. CASE Return
    BY <2>1, <2>2 DEF Return, Abstract!vars
  <2>3. CASE ~Return
    <3>1. asked' = cfg /\ rewrite' \in BOOLEAN
      BY <1>2, <2>3, Zenon DEF Save
    <3>2. PICK r \in BOOLEAN : rewrite' = r
      BY <3>1
    <3>3. Abstract!Begin(cfg, r)
      BY <2>1, <3>1, <3>2, Zenon DEF Abstract!Begin
    <3>4. QED
      BY <3>3, Zenon DEF Abstract!Next
  <2>4. QED
    BY <2>2, <2>3
<1>3. CASE SetupSave \/ RuntimeSave
  <2>1. PICK cfg \in Configs : Save(cfg) /\ pc \in {"setup", "idle"}
    BY <1>3 DEF SetupSave, RuntimeSave, CachedWith, LogInv, TypeOK, Configs
  <2>2. QED
    BY <1>2, <2>1
<1>4. CASE Erase
  <2>1. Stored' = Default /\ rewrite
    BY <1>4, EraseHolds DEF LogInv, SaveState, Erase
  <2>2. Abstract!Wipe
    BY <1>4, <2>1 DEF Erase, save, Abstract!Wipe
  <2>3. QED
    BY <2>2 DEF Abstract!Next
<1>5. CASE FirstWord
  <2>1. Stored' = Stored
    BY <1>5, FirstWordHolds
  <2>2. QED
    BY <1>5, <2>1 DEF FirstWord, save, Abstract!vars
<1>6. CASE LastWord
  <2>1. Stored' = asked /\ asked # NoConfig
    BY <1>6, LastWordHolds, NoConfigIsNone
  <2>2. Abstract!Commit
    BY <1>6, <2>1 DEF LastWord, Return, Abstract!Commit
  <2>3. QED
    BY <2>2 DEF Abstract!Next
<1>7. CASE EraseFails \/ ProgramFails \/ PowerLoss
  <2>1. /\ Stored' \in {Stored, Default} /\ (~rewrite => Stored' = Stored)
        /\ cached' = cached /\ asked' = NoConfig /\ rewrite' = FALSE
    BY <1>7, EraseFailsHolds, ProgramFailsHolds, PowerLossHolds
    DEF EraseFails, ProgramFails, PowerLoss, CachedIfOk, Return, LogInv, SaveState
  <2>2. CASE asked = NoConfig
    <3>1. pc \notin Busy
      BY <2>2, NoConfigIsNone DEF LogInv, SaveState
    <3>2. rewrite = FALSE
      BY <3>1 DEF LogInv, TypeOK, SaveState, Busy
    <3>3. QED
      BY <2>1, <2>2, <3>2 DEF Abstract!vars
  <2>3. CASE asked # NoConfig
    <3>1. Abstract!GiveUp
      BY <2>1, <2>3 DEF Abstract!GiveUp
    <3>2. QED
      BY <3>1 DEF Abstract!Next
  <2>4. QED
    BY <2>2, <2>3
<1>8. CASE UNCHANGED vars
  <2>1. Stored' = Stored
    BY <1>8, StoredStays DEF vars
  <2>2. QED
    BY <1>8, <2>1 DEF vars, save, Abstract!vars
<1>9. QED
  BY <1>1, <1>3, <1>4, <1>5, <1>6, <1>7, <1>8 DEF Next

\* The log in the flash sector implements ConfigStore: what the next boot loads
\* changes only when a save commits, and then to all of it, or to the default while a
\* rewrite of the sector is under way - for any number of slots.
THEOREM StoreImplemented == SetupSpec => ImplementsConfigStore
<1>1. SetupInit => Abstract!Init
  <2>1. SetupInit => Stored \in Configs
    BY InitLog DEF SetupInit
  <2>2. QED
    BY <2>1 DEF SetupInit, Init, Abstract!Init
<1>2. SetupInv /\ [SetupNext]_setupVars => [Abstract!Next]_(Abstract!vars)
  BY SetupTakesLogSteps, StepImplementsStore DEF SetupInv
<1>3. QED
  BY <1>1, <1>2, SetupInductive, PTL DEF SetupSpec, ImplementsConfigStore, Abstract!Spec
=============================================================================
