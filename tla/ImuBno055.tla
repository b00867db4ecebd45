----------------------------- MODULE ImuBno055 ------------------------------
(***************************************************************************)
(* The IMU task and the BNO055 on its I2C bus: each cycle services a save  *)
(* request first, which borrows the bus for polled transfers, and then     *)
(* reads one block of registers by DMA.  The completion interrupt may run  *)
(* between any two steps of the task.                                      *)
(*                                                                         *)
(* Time is left out: a wait may time out at any moment.  s_buf is told     *)
(* apart by what it holds: the block this update() asked for (new), an     *)
(* earlier one (old), or one being overwritten or cut short (torn).        *)
(*                                                                         *)
(* The HAL is not part of this repository.  As the code relies on it: a    *)
(* transfer refuses to start while another is under way; an aborted one    *)
(* ends later, without the completion callback.                            *)
(***************************************************************************)

VARIABLES
  pc,      \* the IMU task: idle, reset, drain, start, wait, late, check,
           \* or in a save: toConfig, read, toNdof
  xfer,    \* the DMA read: none, running or aborting
  doneSem, \* s_done_sem
  xferOk,  \* s_xfer_ok
  buf,     \* s_buf: new, old or torn
  mode,    \* the chip's operating mode: NDOF or CONFIG
  readOk,  \* readCalibrationOffsets(): its read_ok
  saved    \* history: what the last save was told, TRUE for offsets read

chip == <<mode, readOk, saved>>
dma == <<xfer, doneSem, xferOk, buf>>
driverVars == <<pc, dma, chip>>

DriverInit ==
  /\ pc = "idle"
  /\ xfer = "none" /\ doneSem = FALSE /\ xferOk = FALSE /\ buf = "old"
  /\ mode = "NDOF" /\ readOk = FALSE /\ saved = TRUE

-----------------------------------------------------------------------------
\* The bus, between any two steps of the task.

\* HAL_I2C_MemRxCpltCallback.
Complete ==
  /\ xfer = "running"
  /\ xfer' = "none" /\ buf' = "new"
  /\ xferOk' = TRUE /\ doneSem' = TRUE
  /\ UNCHANGED <<pc, chip>>

\* A NACK or bus error: the HAL is ready again, the semaphore is not given.
BusError ==
  /\ xfer = "running"
  /\ xfer' = "none"
  /\ UNCHANGED <<pc, doneSem, xferOk, buf, chip>>

\* The DMA stream has stopped.
Aborted ==
  /\ xfer = "aborting"
  /\ xfer' = "none"
  /\ UNCHANGED <<pc, doneSem, xferOk, buf, chip>>

-----------------------------------------------------------------------------
\* readCalibrationOffsets(), when a save was requested.

\* A polled write of OPR_MODE; one that fails may yet have reached the chip.  The
\* HAL refuses it while a transfer is under way.
WriteMode(m, ok) ==
  IF ok THEN xfer = "none" /\ mode' = m ELSE mode' \in {mode, m}

SaveBegins ==
  /\ pc = "idle"
  /\ pc' = "toConfig"
  /\ UNCHANGED <<dma, chip>>

ToConfig ==
  /\ pc = "toConfig"
  /\ \E ok \in BOOLEAN :
       /\ WriteMode("CONFIG", ok)
       /\ IF ok THEN pc' = "read" /\ UNCHANGED saved
                ELSE pc' = "reset" /\ saved' = FALSE
  /\ UNCHANGED <<dma, readOk>>

\* In CONFIG mode since ToConfig: the offsets are the chip's.
ReadOffsets ==
  /\ pc = "read"
  /\ readOk' \in BOOLEAN
  /\ pc' = "toNdof"
  /\ UNCHANGED <<dma, mode, saved>>

\* The mode written back, and what the caller is told.
BackTo == "NDOF"
IfRead(backOk) == readOk
IfReadAndBack(backOk) == readOk /\ backOk
SaveResult(backOk) == IfReadAndBack(backOk)

ToNdof ==
  /\ pc = "toNdof"
  /\ \E backOk \in BOOLEAN :
       /\ WriteMode(BackTo, backOk)
       /\ saved' = SaveResult(backOk)
  /\ readOk' = FALSE
  /\ pc' = "reset"
  /\ UNCHANGED dma

-----------------------------------------------------------------------------
\* update().

NoSave ==
  /\ pc = "idle"
  /\ pc' = "reset"
  /\ UNCHANGED <<dma, chip>>

\* What an earlier update() read is old from here on.
Reset ==
  /\ pc = "reset"
  /\ xferOk' = FALSE
  /\ buf' = IF buf = "new" THEN "old" ELSE buf
  /\ pc' = "drain"
  /\ UNCHANGED <<xfer, doneSem, chip>>

\* "Drain any stale completion left over from a previous timeout."
LeftOver == doneSem
Drained == FALSE
AfterDrain == Drained

Drain ==
  /\ pc = "drain"
  /\ doneSem' = AfterDrain
  /\ pc' = "start"
  /\ UNCHANGED <<xfer, xferOk, buf, chip>>

\* HAL_I2C_Mem_Read_DMA succeeds ...
StartRead ==
  /\ pc = "start" /\ xfer = "none"
  /\ xfer' = "running" /\ buf' = "torn"
  /\ pc' = "wait"
  /\ UNCHANGED <<doneSem, xferOk, chip>>

\* ... or not: a transfer is under way, or the bus is stuck.
StartFails ==
  /\ pc = "start"
  /\ pc' = "idle"
  /\ UNCHANGED <<dma, chip>>

Take ==
  /\ pc = "wait" /\ doneSem
  /\ doneSem' = FALSE
  /\ pc' = "check"
  /\ UNCHANGED <<xfer, xferOk, buf, chip>>

\* kReadTimeoutMs has passed; the completion may still come before the abort.
TimeOut ==
  /\ pc = "wait" /\ ~doneSem
  /\ pc' = "late"
  /\ UNCHANGED <<dma, chip>>

\* HAL_I2C_Master_Abort_IT: a transfer that is over by now is not aborted.
Unaborted == xfer
AbortStarted == IF xfer = "running" THEN "aborting" ELSE xfer
AfterAbort == AbortStarted

Abort ==
  /\ pc = "late"
  /\ xfer' = AfterAbort
  /\ pc' = "idle"
  /\ UNCHANGED <<doneSem, xferOk, buf, chip>>

\* update() returns s_xfer_ok; when it is true, the sample goes to the queue.
Check ==
  /\ pc = "check"
  /\ pc' = "idle"
  /\ UNCHANGED <<dma, chip>>

Publish == Check /\ xferOk

-----------------------------------------------------------------------------
Save == SaveBegins \/ ToConfig \/ ReadOffsets \/ ToNdof
Update == NoSave \/ Reset \/ Drain \/ StartRead \/ StartFails \/ Take \/ TimeOut \/ Abort
          \/ Check
Bus == Complete \/ BusError \/ Aborted

DriverNext == Save \/ Update \/ Bus

DriverSpec == DriverInit /\ [][DriverNext]_driverVars

\* The task runs every period and a transfer comes to an end.
DriverFairSpec == DriverSpec /\ WF_driverVars(Save \/ Update) /\ WF_driverVars(Bus)

-----------------------------------------------------------------------------
DriverTypeOK ==
  /\ pc \in {"idle", "toConfig", "read", "toNdof", "reset", "drain", "start", "wait",
             "late", "check"}
  /\ xfer \in {"none", "running", "aborting"}
  /\ doneSem \in BOOLEAN /\ xferOk \in BOOLEAN
  /\ buf \in {"new", "old", "torn"}
  /\ mode \in {"NDOF", "CONFIG"} /\ readOk \in BOOLEAN /\ saved \in BOOLEAN

\* The comment in imuTask(): the save runs before update(), which "keeps it from
\* ever overlapping a DMA read".  Were a read still running, its completion would
\* land in the middle of the polled transfers.
BusIsOurs == pc \in {"toConfig", "read", "toNdof"} => xfer # "running"

\* Only the block this cycle asked for is published, complete and with nothing
\* writing to it any more, however late an earlier completion comes.
FreshSample == [][Publish => buf = "new" /\ xfer = "none"]_driverVars

\* "A chip left in CONFIG mode outputs no orientation at all": between saves it is
\* in fusion mode unless the last save was told it failed.
FusionUnlessFailed ==
  pc \notin {"toConfig", "read", "toNdof"} /\ saved => mode = "NDOF"

\* A timeout or an error costs samples but never the stream of them: once the bus
\* behaves, samples are published again and again.
BusBehaves == <>[][~(TimeOut \/ BusError \/ (StartFails /\ xfer = "none"))]_driverVars
SamplesResume == BusBehaves => []<><<Publish>>_driverVars
=============================================================================
