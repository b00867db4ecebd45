---------------------------- MODULE LinkReceive -----------------------------
(***************************************************************************)
(* The receive side of MavlinkUdpTransport under MavlinkNode's drainRx():  *)
(* lwIP's callback pushes the datagrams of the peer into a stream buffer,  *)
(* the link task reads it in chunks and parses them byte by byte.  The     *)
(* callback runs in a task of higher priority: it is one step, which may   *)
(* fall between any two of the link task's.                                *)
(*                                                                         *)
(* A frame is a start byte, its length, its flags, the payload and a CRC   *)
(* (one byte each but the payload); a MAVLink 1 frame has no flags.  Of a  *)
(* byte only what the parser tells apart is kept: whose it is and whether  *)
(* it could start a frame.  The CRC is assumed to fail on anything but one *)
(* frame from start to end; what the parser makes of a length or flags     *)
(* byte that is not one is left open.                                      *)
(***************************************************************************)
EXTENDS Naturals, Sequences

CONSTANTS
  StreamSize,  \* kRxStreamSize
  ChunkSize,   \* kRxChunk
  Payloads,    \* payloads sent: of each byte, whether it could start a frame
  MaxLen,      \* longest length a byte may announce
  SigLen,      \* MAVLINK_SIGNATURE_BLOCK_LEN
  MaxFrames    \* bound of the model: frames sent in a behaviour

\* MAVLINK_STX, MAVLINK_STX_MAVLINK1, or neither.
Kinds == {"stx", "stx1", "plain"}

ASSUME SizesAssumption ==
  /\ {StreamSize, ChunkSize, MaxLen, SigLen, MaxFrames} \subseteq Nat \ {0}
  /\ Payloads \subseteq Seq(Kinds) /\ \A p \in Payloads : Len(p) <= MaxLen

VARIABLES
  stream,  \* s_rx_stream
  chunk,   \* drainRx(): what is left of buf
  phase,   \* parse_state: idle, length, flags, or body (payload, CRC and signature)
  left,    \* bytes of the body to come
  v1,      \* MAVLINK_STATUS_FLAG_IN_MAVLINK1
  frame,   \* the frame read so far, from its first byte on; 0 if it is none
  \* History: frames sent, those before the first cut, the last one delivered, bytes
  \* parsed since one that was of a cut frame or only looked like a start.
  sent, whole, last, calm

parser == <<phase, left, v1, frame>>
rxVars == <<stream, chunk, parser, sent, whole, last, calm>>

Least(m, n) == IF m < n THEN m ELSE n

\* The peer's frames are numbered from 1.
Alien == MaxFrames + 1
BytesOf(n, p, cut) ==
  LET Kind(i) == IF i = 1 THEN "stx" ELSE IF i - 3 \in DOMAIN p THEN p[i - 3] ELSE "plain"
  IN [i \in 1 .. Len(p) + 4 |->
        [frame |-> n, kind |-> Kind(i), at |-> i, len |-> Len(p), cut |-> cut]]

\* Where in its frame a byte is.
IsStart(b) == b.at = 1
IsLength(b) == b.at = 2
IsEnd(b) == b.at = b.len + 4

\* The most a parser that took a wrong start swallows: length, flags, body.
MaxSwallow == 2 + MaxLen + 1 + SigLen
MaxCalm == MaxSwallow + MaxLen + 4

RxInit ==
  /\ stream = <<>> /\ chunk = <<>>
  /\ phase = "idle" /\ left = 0 /\ v1 = FALSE /\ frame = 0
  /\ sent = 0 /\ whole = 0 /\ last = 0 /\ calm = 0

-----------------------------------------------------------------------------
\* rxCallback(): each pbuf with no wait, so that a prefix of the datagram fits.
Everything(bytes) == Len(bytes)
WhatFits(bytes) == Least(Len(bytes), StreamSize - Len(stream))
Taken(bytes) == WhatFits(bytes)

Push(bytes) == stream' = stream \o SubSeq(bytes, 1, Taken(bytes))

FromPeer(p) ==
  LET fits == Len(p) + 4 <= StreamSize - Len(stream)
  IN /\ sent < MaxFrames
     /\ sent' = sent + 1
     /\ whole' = IF fits /\ whole = sent THEN sent + 1 ELSE whole
     /\ Push(BytesOf(sent + 1, p, ~fits))
     /\ UNCHANGED <<chunk, parser, last, calm>>

\* "Only the SBC may drive the robot."
FromAnyone(p) == Push(BytesOf(Alien, p, FALSE))
Ignored(p) == UNCHANGED stream
Foreign(p) == Ignored(p)

FromOther(p) ==
  /\ Foreign(p)
  /\ UNCHANGED <<chunk, parser, sent, whole, last, calm>>

\* read(): a chunk of what there is.
Read ==
  /\ chunk = <<>> /\ stream # <<>>
  /\ LET n == Least(Len(stream), ChunkSize)
     IN chunk' = SubSeq(stream, 1, n) /\ stream' = SubSeq(stream, n + 1, Len(stream))
  /\ UNCHANGED <<parser, sent, whole, last, calm>>

-----------------------------------------------------------------------------
\* mavlink_parse_char() of the next byte.

byte == Head(chunk)

Parse ==
  /\ chunk # <<>> /\ chunk' = Tail(chunk)
  /\ calm' = IF byte.cut \/ (byte.kind # "plain" /\ ~IsStart(byte)) THEN 0
             ELSE Least(calm + 1, MaxCalm)
  /\ UNCHANGED <<stream, sent, whole>>

Goes(to, n, f) == phase' = to /\ left' = n /\ frame' = f

\* The frame goes on with this byte, or what was read is none any more.
Going == IF frame = byte.frame THEN frame ELSE 0
Intact == frame # 0 /\ frame = byte.frame

\* The frame that starts with this byte, if one does and is read as MAVLink 2.
Started(asV1) == IF IsStart(byte) /\ ~asV1 THEN byte.frame ELSE 0

Idle ==
  /\ phase = "idle" /\ Parse
  /\ IF byte.kind = "plain"
     THEN UNCHANGED parser
     ELSE v1' = (byte.kind = "stx1") /\ Goes("length", 0, Started(v1'))
  /\ UNCHANGED last

Length ==
  /\ phase = "length" /\ Parse
  /\ \E n \in IF IsLength(byte) THEN {byte.len} ELSE 0 .. MaxLen :
       IF v1 THEN Goes("body", n + 1, 0) ELSE Goes("flags", n, Going)
  /\ UNCHANGED <<v1, last>>

\* Flags the parser does not know make it give up; one announces a signature.
Flags ==
  /\ phase = "flags" /\ Parse
  /\ \/ Goes("body", left + 1, Going)
     \/ ~Intact /\ Goes("body", left + 1 + SigLen, 0)
     \/ ~Intact /\ Goes("idle", 0, 0)
  /\ UNCHANGED <<v1, last>>

Body ==
  /\ phase = "body" /\ left > 1 /\ Parse
  /\ Goes("body", left - 1, Going)
  /\ UNCHANGED <<v1, last>>

\* The last byte of a frame whose CRC is right: dispatchMessage() gets it ...
CrcRight == Intact

Received ==
  /\ phase = "body" /\ left = 1 /\ Parse /\ CrcRight
  /\ Goes("idle", 0, 0)
  /\ last' = Going
  /\ UNCHANGED v1

\* ... or it is wrong: the byte may yet start a frame, which is then read in the
\* version of the last one.
StaysBad == Goes("body", 1, 0)
StartsOver == IF byte.kind = "stx" THEN Goes("length", 0, Started(v1)) ELSE Goes("idle", 0, 0)
AfterBadCrc == StartsOver

BadCrc ==
  /\ phase = "body" /\ left = 1 /\ Parse /\ ~CrcRight
  /\ AfterBadCrc
  /\ UNCHANGED <<v1, last>>

-----------------------------------------------------------------------------
Network == \E p \in Payloads : FromPeer(p) \/ FromOther(p)
DrainRx == Read \/ Idle \/ Length \/ Flags \/ Body \/ Received \/ BadCrc

RxNext == Network \/ DrainRx

RxSpec == RxInit /\ [][RxNext]_rxVars

-----------------------------------------------------------------------------
AllBytes ==
  [frame : 0 .. MaxFrames, kind : Kinds, at : 1 .. MaxLen + 4,
   len : 0 .. MaxLen, cut : BOOLEAN]

RxTypeOK ==
  /\ stream \in Seq(AllBytes) /\ Len(stream) <= StreamSize
  /\ chunk \in Seq(AllBytes) /\ Len(chunk) <= ChunkSize
  /\ phase \in {"idle", "length", "flags", "body"}
  /\ left \in 0 .. MaxLen + 1 + SigLen
  /\ v1 \in BOOLEAN /\ frame \in 0 .. MaxFrames
  /\ sent \in 0 .. MaxFrames /\ whole \in 0 .. sent /\ last \in 0 .. sent
  /\ calm \in 0 .. MaxCalm

\* Wherever a datagram was cut and whatever the parser took for a frame since, the
\* node gets frames of the peer only, none twice or out of order, and all of those
\* before the first cut.
Abstract == INSTANCE LossyLink
ImplementsLossyLink == Abstract!Spec

\* A cut costs a bounded stretch: past MaxSwallow bytes of whole frames without
\* look-alike starts every frame gets through as soon as its last byte is parsed, even
\* when what was swallowed ended on a start byte and left the parser in MAVLink 1.
Resyncs ==
  [][chunk # <<>> /\ chunk' = Tail(chunk)
     /\ IsEnd(byte) /\ calm' >= MaxSwallow + byte.len + 4
       => last' = byte.frame]_rxVars
=============================================================================
