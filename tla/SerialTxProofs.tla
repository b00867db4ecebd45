--------------------------- MODULE SerialTxProofs ---------------------------
(***************************************************************************)
(* Proofs about the serial transmit path, for any writers, any sizes of    *)
(* the stream and DMA buffers and any frame lengths: its state stays well  *)
(* formed, no byte is stranded, and it implements FrameLink.               *)
(***************************************************************************)
EXTENDS SerialTx, SequenceTheorems, TLAPS

\* A sequence cut in two is its two parts.
LEMMA Cut ==
  ASSUME NEW S, NEW s \in Seq(S), NEW n \in 0 .. Len(s)
  PROVE  /\ SubSeq(s, 1, n) \in Seq(S)
         /\ Len(SubSeq(s, 1, n)) = n
         /\ SubSeq(s, n + 1, Len(s)) \in Seq(S)
         /\ Len(SubSeq(s, n + 1, Len(s))) = Len(s) - n
         /\ SubSeq(s, 1, n) \o SubSeq(s, n + 1, Len(s)) = s
<1>1. Len(s) \in Nat /\ \A i \in 1 .. Len(s) : s[i] \in S
  BY LenProperties, ElementOfSeq
<1>2. /\ SubSeq(s, 1, n) \in Seq(S)
      /\ Len(SubSeq(s, 1, n)) = n
  BY <1>1, SubSeqProperties
<1>3. /\ SubSeq(s, n + 1, Len(s)) \in Seq(S)
      /\ Len(SubSeq(s, n + 1, Len(s))) = Len(s) - n
  BY <1>1, SubSeqProperties
<1>4. SubSeq(s, 1, n) \o SubSeq(s, n + 1, Len(s)) = SubSeq(s, 1, Len(s))
  <2>1. /\ 1 \in 1 .. Len(s) + 1
        /\ n \in 1 - 1 .. Len(s)
        /\ Len(s) \in n .. Len(s)
    BY <1>1
  <2>2. QED
    BY <2>1, ConcatAdjacentSubSeq
<1>5. SubSeq(s, 1, Len(s)) = s
  BY SubSeqFull
<1>6. QED
  BY <1>2, <1>3, <1>4, <1>5

\* Two parts put together cut back where they were joined.
LEMMA Uncut ==
  ASSUME NEW S, NEW d \in Seq(S), NEW s \in Seq(S)
  PROVE  /\ SubSeq(d \o s, 1, Len(d)) = d
         /\ SubSeq(d \o s, Len(d) + 1, Len(d \o s)) = s
<1>1. /\ d \o s \in Seq(S) /\ Len(d \o s) = Len(d) + Len(s)
      /\ \A i \in 1 .. Len(d) + Len(s) :
           (d \o s)[i] = IF i <= Len(d) THEN d[i] ELSE s[i - Len(d)]
  BY ConcatProperties
<1>2. /\ Len(d) \in Nat /\ Len(s) \in Nat
      /\ \A i \in 1 .. Len(d \o s) : (d \o s)[i] \in S
  BY <1>1, LenProperties, ElementOfSeq
<1>3. /\ SubSeq(d \o s, 1, Len(d)) \in Seq(S)
      /\ Len(SubSeq(d \o s, 1, Len(d))) = Len(d)
      /\ \A i \in 1 .. Len(d) : SubSeq(d \o s, 1, Len(d))[i] = (d \o s)[i]
  BY <1>1, <1>2, SubSeqProperties
<1>4. /\ SubSeq(d \o s, Len(d) + 1, Len(d \o s)) \in Seq(S)
      /\ Len(SubSeq(d \o s, Len(d) + 1, Len(d \o s))) = Len(s)
      /\ \A i \in 1 .. Len(s) :
           SubSeq(d \o s, Len(d) + 1, Len(d \o s))[i] = (d \o s)[Len(d) + i]
  BY <1>1, <1>2, SubSeqProperties
<1>5. SubSeq(d \o s, 1, Len(d)) = d
  BY <1>1, <1>2, <1>3, SeqEqual
<1>6. SubSeq(d \o s, Len(d) + 1, Len(d \o s)) = s
  BY <1>1, <1>2, <1>4, SeqEqual
<1>7. QED
  BY <1>5, <1>6

\* A frame is a sequence of bytes of its length.
LEMMA FrameIsSeq ==
  ASSUME NEW n \in 0 .. MaxFrames, NEW len \in FrameLens
  PROVE  FrameOf(n, len) \in Seq(Bytes) /\ Len(FrameOf(n, len)) = len
<1>1. len \in Nat
  BY SizesAssumption
<1>2. FrameOf(n, len) \in [1 .. len -> Bytes]
  BY <1>1 DEF FrameOf, Bytes
<1>3. QED
  BY <1>1, <1>2

-----------------------------------------------------------------------------
\* What the writer has in hand is a frame until it is in the stream.
FrameInHand ==
  \A w \in Writers : pc[w] \in {"check", "send"} => frame[w] \in AllFrames

IInv ==
  /\ TypeOK /\ FrameInHand
  /\ ActiveIffBusy /\ BufferDrained
  /\ MutexHeld /\ SpaceStillThere
  /\ NeverStranded

LEMMA ChunkFits ==
  ASSUME TypeOK
  PROVE  /\ ChunkLen \in 0 .. Len(stream)
         /\ ChunkLen <= DmaBufSize
         /\ stream # <<>> => ChunkLen > 0
<1>1. Len(stream) \in Nat /\ DmaBufSize \in Nat \ {0}
  BY SizesAssumption, LenProperties DEF TypeOK
<1>2. stream # <<>> => Len(stream) > 0
  BY EmptySeq DEF TypeOK
<1>3. QED
  BY <1>1, <1>2 DEF ChunkLen, Least

\* Starting a chunk moves its bytes from the stream to the DMA buffer.
LEMMA StartChunkMoves ==
  ASSUME TypeOK, StartChunk
  PROVE  /\ dmaBuf' \in Seq(Bytes) /\ Len(dmaBuf') <= DmaBufSize
         /\ stream' \in Seq(Bytes) /\ Len(stream') <= Len(stream)
         /\ dmaBuf' \o stream' = stream
         /\ dma' = "running"
<1>1. /\ stream \in Seq(Bytes) /\ Len(stream) \in Nat
      /\ ChunkLen \in 0 .. Len(stream) /\ ChunkLen <= DmaBufSize
  BY ChunkFits, LenProperties DEF TypeOK
<1>2. /\ SubSeq(stream, 1, ChunkLen) \in Seq(Bytes)
      /\ Len(SubSeq(stream, 1, ChunkLen)) = ChunkLen
      /\ SubSeq(stream, ChunkLen + 1, Len(stream)) \in Seq(Bytes)
      /\ Len(SubSeq(stream, ChunkLen + 1, Len(stream))) = Len(stream) - ChunkLen
      /\ SubSeq(stream, 1, ChunkLen) \o SubSeq(stream, ChunkLen + 1, Len(stream))
           = stream
  BY <1>1, Cut
<1>3. /\ dmaBuf' = SubSeq(stream, 1, ChunkLen)
      /\ stream' = SubSeq(stream, ChunkLen + 1, Len(stream))
      /\ dma' = "running"
  BY DEF StartChunk
<1>4. Len(stream) - ChunkLen <= Len(stream)
  BY <1>1
<1>5. QED
  BY <1>1, <1>2, <1>3, <1>4

\* With the space it saw still there, a writer's whole frame goes in.
LEMMA SendTakesAll ==
  ASSUME IInv, NEW w \in Writers, SendToStream(w)
  PROVE  /\ frame[w] \in AllFrames
         /\ stream' = stream \o frame[w]
         /\ stream' \in Seq(Bytes)
         /\ Len(stream') <= StreamSize
<1>1. /\ frame[w] \in AllFrames /\ frame[w] \in Seq(Bytes)
      /\ stream \in Seq(Bytes) /\ StreamSize \in Nat
      /\ HasRoom(Len(frame[w]))
  BY SizesAssumption DEF IInv, TypeOK, FrameInHand, SpaceStillThere, SendToStream
<1>2. Len(frame[w]) \in Nat /\ Len(stream) \in Nat
  BY <1>1, LenProperties
<1>3. Least(Len(frame[w]), StreamSize - Len(stream)) = Len(frame[w])
  BY <1>1, <1>2 DEF Least, HasRoom
<1>4. stream' = stream \o frame[w]
  <2>1. SubSeq(frame[w], 1, Len(frame[w])) = frame[w]
    BY <1>1, SubSeqFull
  <2>2. QED
    BY <1>3, <2>1 DEF SendToStream
<1>5. stream' \in Seq(Bytes) /\ Len(stream') = Len(stream) + Len(frame[w])
  BY <1>1, <1>4, ConcatProperties
<1>6. Len(stream) + Len(frame[w]) <= StreamSize
  BY <1>1, <1>2 DEF HasRoom
<1>7. QED
  BY <1>1, <1>4, <1>5, <1>6

LEMMA InitIInv == Init => IInv
<1>1. <<>> \in Seq(Bytes) /\ Len(<<>>) = 0
  BY EmptySeq
<1>2. Init => TypeOK
  <2> SUFFICES ASSUME Init
               PROVE  TypeOK
    OBVIOUS
  <2>1. frame \in [Writers -> Seq(Bytes)]
    BY <1>1, Zenon DEF Init
  <2>2. Len(stream) <= StreamSize /\ Len(dmaBuf) <= DmaBufSize
    BY <1>1, SizesAssumption DEF Init
  <2>3. nextFrame \in 0 .. MaxFrames
    BY SizesAssumption DEF Init
  <2>4. pc \in [Writers -> {"idle", "check", "send", "arm", "give"}]
    BY DEF Init
  <2>5. stream \in Seq(Bytes) /\ dmaBuf \in Seq(Bytes) /\ wire \in Seq(Bytes)
    BY <1>1 DEF Init
  <2>6. QED
    BY <2>1, <2>2, <2>3, <2>4, <2>5 DEF Init, TypeOK
<1>3. Init => FrameInHand /\ SpaceStillThere
  BY DEF Init, FrameInHand, SpaceStillThere
<1>4. Init => ActiveIffBusy /\ BufferDrained /\ NeverStranded
  BY DEF Init, ActiveIffBusy, BufferDrained, NeverStranded
<1>5. Init => MutexHeld
  BY NoOneAssumption DEF Init, MutexHeld
<1>6. QED
  BY <1>2, <1>3, <1>4, <1>5 DEF IInv

\* Steps of one writer.
LEMMA WriterIInv ==
  ASSUME IInv, NEW w \in Writers, Writer(w)
  PROVE  IInv'
<1> USE SizesAssumption, NoOneAssumption
<1>0. /\ Len(stream) \in Nat /\ StreamSize \in Nat
      /\ \A v \in Writers : frame[v] \in Seq(Bytes) /\ Len(frame[v]) \in Nat
  BY LenProperties DEF IInv, TypeOK
<1>1. ASSUME NEW len \in FrameLens, TakeMutex(w, len)
      PROVE  IInv'
  <2>1. /\ nextFrame \in 0 .. MaxFrames /\ nextFrame + 1 \in 0 .. MaxFrames
        /\ FrameOf(nextFrame, len) \in AllFrames
        /\ FrameOf(nextFrame, len) \in Seq(Bytes)
    BY <1>1, FrameIsSeq DEF IInv, TypeOK, TakeMutex, AllFrames
  <2>2. TypeOK' /\ FrameInHand'
    BY <1>1, <2>1 DEF IInv, TypeOK, FrameInHand, TakeMutex
  <2>3. ActiveIffBusy' /\ BufferDrained' /\ MutexHeld'
    BY <1>1 DEF IInv, TypeOK, TakeMutex, ActiveIffBusy, BufferDrained, MutexHeld
  <2>4. SpaceStillThere' /\ NeverStranded'
    BY <1>1 DEF IInv, TypeOK, TakeMutex, SpaceStillThere, HasRoom, NeverStranded
  <2>5. QED
    BY <2>2, <2>3, <2>4 DEF IInv
<1>2. CASE CheckSpace(w)
  <2>1. TypeOK' /\ FrameInHand'
    BY <1>2 DEF IInv, TypeOK, FrameInHand, CheckSpace
  <2>2. ActiveIffBusy' /\ BufferDrained' /\ MutexHeld'
    BY <1>2 DEF IInv, TypeOK, CheckSpace, ActiveIffBusy, BufferDrained, MutexHeld
  <2>3. SpaceStillThere' /\ NeverStranded'
    BY <1>2 DEF IInv, TypeOK, CheckSpace, SpaceStillThere, HasRoom, NeverStranded
  <2>4. QED
    BY <2>1, <2>2, <2>3 DEF IInv
<1>3. CASE SendToStream(w)
  <2>1. stream' \in Seq(Bytes) /\ Len(stream') <= StreamSize
    BY <1>3, SendTakesAll
  <2>2. /\ pc' = [pc EXCEPT ![w] = "arm"]
        /\ UNCHANGED <<dmaBuf, dmaActive, dma, wire, txMutex, frame, nextFrame>>
    BY <1>3 DEF SendToStream
  <2>3. TypeOK' /\ FrameInHand'
    BY <2>1, <2>2 DEF IInv, TypeOK, FrameInHand
  <2>4. ActiveIffBusy' /\ BufferDrained' /\ MutexHeld' /\ NeverStranded'
    BY <1>3, <2>2
    DEF IInv, TypeOK, SendToStream, ActiveIffBusy, BufferDrained, MutexHeld,
        NeverStranded
  <2>5. SpaceStillThere'
    <3> SUFFICES ASSUME NEW v \in Writers, pc'[v] = "send"
                 PROVE  FALSE
      BY DEF SpaceStillThere
    <3>1. pc[v] = "send" /\ pc[w] = "send" /\ v # w
      BY <1>3, <2>2 DEF IInv, TypeOK, SendToStream
    <3>2. QED
      BY <3>1 DEF IInv, MutexHeld
  <2>6. QED
    BY <2>3, <2>4, <2>5 DEF IInv
<1>4. CASE Arm(w)
  <2>1. /\ stream' \in Seq(Bytes) /\ dmaBuf' \in Seq(Bytes)
        /\ Len(stream') <= Len(stream) /\ Len(dmaBuf') <= DmaBufSize
    <3>1. CASE ~dmaActive /\ stream # <<>>
      BY <1>4, <3>1, StartChunkMoves DEF IInv, Arm
    <3>2. CASE ~(~dmaActive /\ stream # <<>>)
      BY <1>0, <1>4, <3>2 DEF IInv, TypeOK, Arm
    <3>3. QED
      BY <3>1, <3>2
  <2>2. Len(stream') \in Nat
    BY <2>1, LenProperties
  <2>3. /\ pc' = [pc EXCEPT ![w] = "give"]
        /\ UNCHANGED <<wire, txMutex, frame, nextFrame>>
        /\ \/ dmaActive' = TRUE /\ dma' = "running"
           \/ /\ UNCHANGED <<stream, dmaBuf, dma, dmaActive>>
              /\ dmaActive \/ stream = <<>>
    BY <1>4 DEF Arm, StartChunk
  <2>4. TypeOK' /\ FrameInHand'
    <3>1. Len(stream') <= StreamSize
      BY <1>0, <2>1, <2>2 DEF IInv, TypeOK
    <3>2. TypeOK'
      BY <2>1, <2>3, <3>1 DEF IInv, TypeOK
    <3>3. FrameInHand'
      BY <2>3 DEF IInv, TypeOK, FrameInHand
    <3>4. QED
      BY <3>2, <3>3
  <2>5. ActiveIffBusy' /\ BufferDrained' /\ MutexHeld'
    BY <1>4, <2>3 DEF IInv, TypeOK, Arm, ActiveIffBusy, BufferDrained, MutexHeld
  <2>6. SpaceStillThere'
    BY <1>0, <2>1, <2>2, <2>3 DEF IInv, TypeOK, SpaceStillThere, HasRoom
  <2>7. NeverStranded'
    BY <2>3 DEF IInv, TypeOK, ActiveIffBusy, NeverStranded
  <2>8. QED
    BY <2>4, <2>5, <2>6, <2>7 DEF IInv
<1>5. CASE GiveMutex(w)
  <2>1. TypeOK' /\ FrameInHand'
    BY <1>5 DEF IInv, TypeOK, FrameInHand, GiveMutex
  <2>2. ActiveIffBusy' /\ BufferDrained' /\ MutexHeld'
    BY <1>5 DEF IInv, TypeOK, GiveMutex, ActiveIffBusy, BufferDrained, MutexHeld
  <2>3. SpaceStillThere' /\ NeverStranded'
    BY <1>5 DEF IInv, TypeOK, GiveMutex, SpaceStillThere, HasRoom, NeverStranded
  <2>4. QED
    BY <2>1, <2>2, <2>3 DEF IInv
<1>6. QED
  BY <1>1, <1>2, <1>3, <1>4, <1>5 DEF Writer

\* Steps of the hardware and its interrupt.
LEMMA DmaIInv ==
  ASSUME IInv, DmaDone \/ TxCplt
  PROVE  IInv'
<1> USE SizesAssumption
<1>0. /\ Len(stream) \in Nat /\ StreamSize \in Nat
      /\ \A v \in Writers : frame[v] \in Seq(Bytes) /\ Len(frame[v]) \in Nat
  BY LenProperties DEF IInv, TypeOK
<1>1. CASE DmaDone
  <2>1. wire \o dmaBuf \in Seq(Bytes) /\ <<>> \in Seq(Bytes) /\ Len(<<>>) = 0
    BY ConcatProperties, EmptySeq DEF IInv, TypeOK
  <2>2. TypeOK'
    BY <1>1, <2>1 DEF IInv, TypeOK, DmaDone
  <2>3. FrameInHand' /\ ActiveIffBusy' /\ BufferDrained' /\ MutexHeld'
    BY <1>1 DEF IInv, DmaDone, FrameInHand, ActiveIffBusy, BufferDrained, MutexHeld
  <2>4. SpaceStillThere' /\ NeverStranded'
    BY <1>1 DEF IInv, DmaDone, SpaceStillThere, HasRoom, NeverStranded
  <2>5. QED
    BY <2>2, <2>3, <2>4 DEF IInv
<1>2. CASE TxCplt
  <2>1. /\ stream' \in Seq(Bytes) /\ dmaBuf' \in Seq(Bytes)
        /\ Len(stream') <= Len(stream) /\ Len(dmaBuf') <= DmaBufSize
    <3>1. CASE stream # <<>>
      BY <1>2, <3>1, StartChunkMoves DEF IInv, TxCplt
    <3>2. CASE stream = <<>>
      BY <1>0, <1>2, <3>2 DEF IInv, TypeOK, TxCplt
    <3>3. QED
      BY <3>1, <3>2
  <2>2. Len(stream') \in Nat
    BY <2>1, LenProperties
  <2>3. /\ dma = "done"
        /\ UNCHANGED <<wire, txMutex, pc, frame, nextFrame>>
        /\ \/ UNCHANGED dmaActive /\ dma' = "running"
           \/ /\ dmaActive' = FALSE /\ dma' = "idle"
              /\ UNCHANGED <<stream, dmaBuf>> /\ stream = <<>>
    BY <1>2 DEF TxCplt, StartChunk, IrqPending, ActiveWhenEmpty
  <2>4. TypeOK' /\ FrameInHand'
    <3>1. Len(stream') <= StreamSize
      BY <1>0, <2>1, <2>2 DEF IInv, TypeOK
    <3>2. TypeOK'
      BY <2>1, <2>3, <3>1 DEF IInv, TypeOK
    <3>3. FrameInHand'
      BY <2>3 DEF IInv, TypeOK, FrameInHand
    <3>4. QED
      BY <3>2, <3>3
  <2>5. ActiveIffBusy' /\ BufferDrained' /\ MutexHeld' /\ NeverStranded'
    BY <2>3 DEF IInv, ActiveIffBusy, BufferDrained, MutexHeld, NeverStranded
  <2>6. SpaceStillThere'
    BY <1>0, <2>1, <2>2, <2>3 DEF IInv, SpaceStillThere, HasRoom
  <2>7. QED
    BY <2>4, <2>5, <2>6 DEF IInv
<1>3. QED
  BY <1>1, <1>2

LEMMA NextIInv == IInv /\ [Next]_vars => IInv'
<1> SUFFICES ASSUME IInv, [Next]_vars
             PROVE  IInv'
  OBVIOUS
<1>1. CASE UNCHANGED vars
  BY <1>1
  DEF vars, IInv, TypeOK, FrameInHand, ActiveIffBusy, BufferDrained, MutexHeld,
      SpaceStillThere, HasRoom, NeverStranded
<1>2. QED
  BY <1>1, WriterIInv, DmaIInv DEF Next

\* The state of the transport keeps its types, and neither buffer overflows.
THEOREM TypeCorrect == Spec => []TypeOK
<1>1. IInv => TypeOK
  BY DEF IInv
<1>2. QED
  BY InitIInv, NextIInv, <1>1, PTL DEF Spec

\* No byte is ever left in the stream with the DMA idle and no writer about to
\* start it, whatever the interleaving of writers and interrupt.
THEOREM NothingStranded == Spec => []NeverStranded
<1>1. IInv => NeverStranded
  BY DEF IInv
<1>2. QED
  BY InitIInv, NextIInv, <1>1, PTL DEF Spec

-----------------------------------------------------------------------------
\* One step of the transport is one step of the link, or changes nothing of it.
LEMMA StepImplementsLink ==
  IInv /\ [Next]_vars => [Link!Next]_(Link!vars)
<1> SUFFICES ASSUME IInv, [Next]_vars
             PROVE  Link!Next \/ UNCHANGED Link!vars
  OBVIOUS
<1>0. /\ stream \in Seq(Bytes) /\ dmaBuf \in Seq(Bytes) /\ wire \in Seq(Bytes)
      /\ Len(stream) \in Nat /\ Len(dmaBuf) \in Nat
      /\ dmaBuf \o stream \in Seq(Bytes)
      /\ Len(dmaBuf \o stream) = Len(dmaBuf) + Len(stream)
  BY LenProperties, ConcatProperties DEF IInv, TypeOK
\* A refill happens with the DMA buffer empty, so it only moves bytes within
\* what is in flight.
<1>1. ASSUME StartChunk, dmaBuf = <<>>
      PROVE  dmaBuf' \o stream' = dmaBuf \o stream
  <2>1. dmaBuf' \o stream' = stream
    BY <1>1, StartChunkMoves DEF IInv
  <2>2. dmaBuf \o stream = stream
    BY <1>0, <1>1, ConcatEmptySeq
  <2>3. QED
    BY <2>1, <2>2
<1>2. ASSUME NEW w \in Writers, SendToStream(w)
      PROVE  Link!Next
  <2>1. /\ frame[w] \in AllFrames /\ frame[w] \in Seq(Bytes)
        /\ stream' = stream \o frame[w]
    BY <1>2, SendTakesAll DEF IInv, TypeOK
  <2>2. dmaBuf \o (stream \o frame[w]) = (dmaBuf \o stream) \o frame[w]
    <3>1. ASSUME NEW f \in Seq(Bytes)
          PROVE  (dmaBuf \o stream) \o f = dmaBuf \o (stream \o f)
      BY <1>0, ConcatAssociative
    <3>2. QED
      BY <2>1, <3>1
  <2>3. dmaBuf' = dmaBuf /\ wire' = wire
    BY <1>2 DEF SendToStream
  <2>4. Link!Accept(frame[w])
    BY <2>1, <2>2, <2>3 DEF Link!Accept
  <2>5. QED
    BY <2>1, <2>4 DEF Link!Next
<1>3. ASSUME NEW w \in Writers, Arm(w)
      PROVE  UNCHANGED Link!vars
  <2>1. CASE ~dmaActive /\ stream # <<>>
    <3>1. StartChunk /\ wire' = wire /\ dmaBuf = <<>>
      BY <1>3, <2>1 DEF Arm, IInv, ActiveIffBusy, BufferDrained
    <3>2. QED
      BY <1>1, <3>1 DEF Link!vars
  <2>2. CASE ~(~dmaActive /\ stream # <<>>)
    BY <1>3, <2>2 DEF Arm, Link!vars
  <2>3. QED
    BY <2>1, <2>2
<1>4. ASSUME NEW w \in Writers,
             CheckSpace(w) \/ GiveMutex(w) \/ \E len \in FrameLens : TakeMutex(w, len)
      PROVE  UNCHANGED Link!vars
  BY <1>4 DEF CheckSpace, GiveMutex, TakeMutex, Link!vars
<1>5. ASSUME DmaDone
      PROVE  Link!Next \/ UNCHANGED Link!vars
  <2>1. wire' = wire \o dmaBuf /\ dmaBuf' \o stream' = stream
    BY <1>0, <1>5, ConcatEmptySeq DEF DmaDone
  <2>2. CASE dmaBuf = <<>>
    BY <1>0, <2>1, <2>2, ConcatEmptySeq DEF Link!vars
  <2>3. CASE dmaBuf # <<>>
    <3>1. Len(dmaBuf) \in 1 .. Len(dmaBuf \o stream)
      BY <1>0, <2>3, EmptySeq
    <3>2. /\ SubSeq(dmaBuf \o stream, 1, Len(dmaBuf)) = dmaBuf
          /\ SubSeq(dmaBuf \o stream, Len(dmaBuf) + 1, Len(dmaBuf \o stream)) = stream
      BY <1>0, Uncut
    <3>3. Link!Deliver(Len(dmaBuf))
      <4>1. Len(dmaBuf) <= Len(dmaBuf \o stream)
        BY <1>0
      <4>2. wire' = wire \o SubSeq(dmaBuf \o stream, 1, Len(dmaBuf))
        BY <2>1, <3>2, Zenon
      <4>3. dmaBuf' \o stream'
              = SubSeq(dmaBuf \o stream, Len(dmaBuf) + 1, Len(dmaBuf \o stream))
        BY <2>1, <3>2, Zenon
      <4>4. QED
        BY <4>1, <4>2, <4>3, Zenon DEF Link!Deliver
    <3>4. QED
      BY <3>1, <3>3 DEF Link!Next
  <2>4. QED
    BY <2>2, <2>3
<1>6. ASSUME TxCplt
      PROVE  UNCHANGED Link!vars
  <2>1. CASE stream # <<>>
    <3>1. StartChunk /\ wire' = wire /\ dmaBuf = <<>>
      BY <1>6, <2>1 DEF TxCplt, IrqPending, IInv, BufferDrained
    <3>2. QED
      BY <1>1, <3>1 DEF Link!vars
  <2>2. CASE stream = <<>>
    BY <1>6, <2>2 DEF TxCplt, Link!vars
  <2>3. QED
    BY <2>1, <2>2
<1>7. CASE UNCHANGED vars
  BY <1>7 DEF vars, Link!vars
<1>8. QED
  BY <1>2, <1>3, <1>4, <1>5, <1>6, <1>7 DEF Next, Writer

\* The transport implements the link: every frame written is taken whole or
\* dropped whole and its bytes reach the wire once and in order, for any
\* writers, buffer sizes and frame lengths.
THEOREM TransportImplementsLink == Spec => ImplementsFrameLink
<1>1. Init => Link!Init
  <2>1. <<>> \in Seq(Bytes)
    BY EmptySeq
  <2>2. <<>> \o <<>> = <<>>
    BY <2>1, ConcatEmptySeq
  <2>3. QED
    BY <2>2 DEF Init, Link!Init
<1>2. QED
  BY <1>1, InitIInv, NextIInv, StepImplementsLink, PTL
  DEF Spec, ImplementsFrameLink, Link!Spec
=============================================================================
