------------------------------ MODULE SerialTx ------------------------------
(***************************************************************************)
(* The transmit side of MavlinkSerialTransport under MavlinkNode's         *)
(* sendMessage(): writers put whole frames into a FreeRTOS stream buffer,  *)
(* and the bytes leave through a DMA buffer that is refilled either by a   *)
(* writer that finds the DMA idle or by the transfer-complete interrupt.   *)
(*                                                                         *)
(* The interrupt may run between any two steps of a writer except inside   *)
(* its critical section, which is therefore one step (Arm).  The interrupt *)
(* itself is one step: nothing on the one core that touches this state     *)
(* preempts it.  A byte is <<frame, its length, position>>, so that loss,  *)
(* duplication and tearing show; what the bytes say does not matter here.  *)
(***************************************************************************)
EXTENDS Naturals, Sequences

CONSTANTS
  Writers,     \* the tasks that call sendMessage()
  NoOne,       \* the value of a free mutex
  StreamSize,  \* kTxStreamSize
  DmaBufSize,  \* kTxDmaBufSize
  FrameLens,   \* lengths of the frames sent
  MaxFrames    \* bound of the model: frames written in a behaviour

ASSUME SizesAssumption ==
  /\ StreamSize \in Nat \ {0}
  /\ DmaBufSize \in Nat \ {0}
  /\ FrameLens \subseteq Nat \ {0}
  /\ MaxFrames \in Nat
ASSUME NoOneAssumption == NoOne \notin Writers

VARIABLES
  stream,    \* s_tx_stream: the bytes in the stream buffer
  dmaBuf,    \* s_dma_buf: the part of it the DMA reads
  dmaActive, \* s_dma_active
  dma,       \* the DMA stream: idle, running, or done with its interrupt pending
  wire,      \* history: the bytes the UART sent
  txMutex,   \* tx_mutex_: who holds it
  pc,        \* where each writer is
  frame,     \* the frame each writer is sending
  nextFrame  \* frames written so far, which numbers them

vars == <<stream, dmaBuf, dmaActive, dma, wire, txMutex, pc, frame, nextFrame>>

Bytes == (0 .. MaxFrames) \X FrameLens \X Nat
FrameOf(n, len) == [i \in 1 .. len |-> <<n, len, i>>]
AllFrames == {FrameOf(n, len) : n \in 0 .. MaxFrames, len \in FrameLens}

Least(m, n) == IF m < n THEN m ELSE n

Init ==
  /\ stream = <<>>
  /\ dmaBuf = <<>>
  /\ dmaActive = FALSE
  /\ dma = "idle"
  /\ wire = <<>>
  /\ txMutex = NoOne
  /\ pc = [w \in Writers |-> "idle"]
  /\ frame = [w \in Writers |-> <<>>]
  /\ nextFrame = 0

-----------------------------------------------------------------------------
\* sendMessage(): pack a message and take the mutex (portMAX_DELAY).
TakeMutex(w, len) ==
  /\ pc[w] = "idle"
  /\ nextFrame < MaxFrames
  /\ txMutex = NoOne
  /\ txMutex' = w
  /\ nextFrame' = nextFrame + 1
  /\ frame' = [frame EXCEPT ![w] = FrameOf(nextFrame, len)]
  /\ pc' = [pc EXCEPT ![w] = "check"]
  /\ UNCHANGED <<stream, dmaBuf, dmaActive, dma, wire>>

\* xStreamBufferSpacesAvailable() against the frame.
AnyRoom(len) == Len(stream) < StreamSize
HasRoom(len) == StreamSize - Len(stream) >= len

\* write(): drop the whole frame unless it fits now.
CheckSpace(w) ==
  /\ pc[w] = "check"
  /\ pc' = [pc EXCEPT ![w] = IF HasRoom(Len(frame[w])) THEN "send" ELSE "give"]
  /\ UNCHANGED <<stream, dmaBuf, dmaActive, dma, wire, txMutex, frame, nextFrame>>

\* xStreamBufferSend with no wait: what fits goes in, with one head update.
SendToStream(w) ==
  /\ pc[w] = "send"
  /\ LET n == Least(Len(frame[w]), StreamSize - Len(stream))
     IN stream' = stream \o SubSeq(frame[w], 1, n)
  /\ pc' = [pc EXCEPT ![w] = "arm"]
  /\ UNCHANGED <<dmaBuf, dmaActive, dma, wire, txMutex, frame, nextFrame>>

\* xStreamBufferReceiveFromISR into s_dma_buf: at most a DMA buffer of bytes.
WholeStream == Len(stream)
ChunkLen == Least(Len(stream), DmaBufSize)

\* Receive a chunk and HAL_DMA_Start_IT it.
StartChunk ==
  /\ dmaBuf' = SubSeq(stream, 1, ChunkLen)
  /\ stream' = SubSeq(stream, ChunkLen + 1, Len(stream))
  /\ dma' = "running"

\* write()'s critical section: start the DMA if it is idle.
Arm(w) ==
  /\ pc[w] = "arm"
  /\ pc' = [pc EXCEPT ![w] = "give"]
  /\ IF ~dmaActive /\ stream # <<>>
     THEN StartChunk /\ dmaActive' = TRUE
     ELSE UNCHANGED <<stream, dmaBuf, dma, dmaActive>>
  /\ UNCHANGED <<wire, txMutex, frame, nextFrame>>

GiveMutex(w) ==
  /\ pc[w] = "give"
  /\ txMutex' = NoOne
  /\ pc' = [pc EXCEPT ![w] = "idle"]
  /\ UNCHANGED <<stream, dmaBuf, dmaActive, dma, wire, frame, nextFrame>>

\* The DMA has sent its buffer and raises the interrupt.
DmaDone ==
  /\ dma = "running"
  /\ dma' = "done"
  /\ wire' = wire \o dmaBuf
  /\ dmaBuf' = <<>>
  /\ UNCHANGED <<stream, dmaActive, txMutex, pc, frame, nextFrame>>

\* DMA*_Stream*_IRQHandler routes the interrupt: "these must exist or TX DMA
\* never completes and the link goes silent after the first chunk".
NoHandler == FALSE
IrqPending == dma = "done"

\* What txCpltCallback leaves in s_dma_active when the stream is empty.
LeftActive == TRUE
ActiveWhenEmpty == FALSE

\* txCpltCallback: refill or go idle.
TxCplt ==
  /\ IrqPending
  /\ IF stream # <<>>
     THEN StartChunk /\ UNCHANGED dmaActive
     ELSE /\ dmaActive' = ActiveWhenEmpty
          /\ dma' = "idle"
          /\ UNCHANGED <<stream, dmaBuf>>
  /\ UNCHANGED <<wire, txMutex, pc, frame, nextFrame>>

Writer(w) ==
  \/ \E len \in FrameLens : TakeMutex(w, len)
  \/ CheckSpace(w)
  \/ SendToStream(w)
  \/ Arm(w)
  \/ GiveMutex(w)

Next ==
  \/ \E w \in Writers : Writer(w)
  \/ DmaDone
  \/ TxCplt

Spec == Init /\ [][Next]_vars

\* A task inside write() is scheduled again and gives the mutex back: the
\* link task outranks all but the control task, which sleeps each period.
\* The DMA and its interrupt always run.
Fairness ==
  /\ \A w \in Writers : WF_vars(CheckSpace(w) \/ SendToStream(w) \/ Arm(w) \/ GiveMutex(w))
  /\ WF_vars(DmaDone)
  /\ WF_vars(TxCplt)

FairSpec == Spec /\ Fairness

-----------------------------------------------------------------------------
TypeOK ==
  /\ stream \in Seq(Bytes) /\ Len(stream) <= StreamSize
  /\ dmaBuf \in Seq(Bytes) /\ Len(dmaBuf) <= DmaBufSize
  /\ dmaActive \in BOOLEAN
  /\ dma \in {"idle", "running", "done"}
  /\ wire \in Seq(Bytes)
  /\ txMutex \in Writers \cup {NoOne}
  /\ pc \in [Writers -> {"idle", "check", "send", "arm", "give"}]
  /\ frame \in [Writers -> Seq(Bytes)]
  /\ nextFrame \in 0 .. MaxFrames

\* No byte waits with nobody left to send it: bytes in the stream mean that the
\* DMA is at work, or that a writer is about to start it (the critical section
\* of write(), "otherwise a writer can be stranded with a full stream and
\* s_dma_active=false").
NeverStranded ==
  stream # <<>> => dma # "idle" \/ \E w \in Writers : pc[w] = "arm"

\* The parts of the inductive invariant: the flag mirrors the hardware, the
\* mutex covers a writer's whole passage, and the space it saw is still there.
ActiveIffBusy == dmaActive <=> dma # "idle"
MutexHeld == \A w \in Writers : pc[w] # "idle" <=> txMutex = w
SpaceStillThere == \A w \in Writers : pc[w] = "send" => HasRoom(Len(frame[w]))
BufferDrained == dma # "running" => dmaBuf = <<>>

\* The transport implements the link that takes and delivers whole frames in
\* order: a space check never goes stale, the DMA buffer is never overwritten
\* in flight and no chunk is sent twice.
Link == INSTANCE FrameLink WITH
          Frames <- AllFrames, inflight <- dmaBuf \o stream, wire <- wire
ImplementsFrameLink == Link!Spec

\* Every byte accepted reaches the wire: with k bytes accepted, k are sent.
Accepted == Len(wire) + Len(dmaBuf) + Len(stream)
AcceptedIsSent ==
  \A k \in 1 .. StreamSize + DmaBufSize : (Accepted >= k) ~> (Len(wire) >= k)
=============================================================================
