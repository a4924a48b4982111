-------------------------- MODULE SendBufferProofs --------------------------
(***************************************************************************)
(* Proofs about SendBuffer, for every buffer size and every set of send    *)
(* lengths, whatever the handlers leave in the buffer.                     *)
(***************************************************************************)
EXTENDS SendBuffer, TLAPS

(* The inductive invariant about lengths: an open chunk is the last thing  *)
(* in the buffer, so the fill is its offset, its placeholder and payload.  *)
BufferInv ==
  /\ TypeOK
  /\ sendBuffLen <= MaxFill
  /\ chunkHdr # NoHdr => /\ Chunking /\ lock = "handler"
                         /\ payload > 0
                         /\ sendBuffLen = chunkHdr + ChunkSizeTextLen + payload
  /\ chunkHdr = NoHdr => payload = 0
  /\ NothingDropped
  /\ lock = "handler" => cgi = "handler"

LEMMA BufferInit == Init => BufferInv
BY SizeAssumption
   DEF Init, BufferInv, TypeOK, NothingDropped, NoHdr, CrLf, NullChunkLen,
       Stages

(* The parser's verdict is one of the four stages, whatever is flushed.    *)
LEMMA FlushBuffer ==
  ASSUME BufferInv, NEW handler, httpdFlushSendBuffer(handler)
  PROVE  /\ sendBuffLen' = 0 /\ chunkHdr' = NoHdr /\ payload' = 0
         /\ stage' \in Stages
<1>1. StageAfterRaw \in Stages
  BY DEF StageAfterRaw, BufferInv, TypeOK, Stages
<1>2. StageAfterChunk \in Stages
  BY <1>1 DEF StageAfterChunk, Stages
<1>3. \A sent : StageAfterFlush(handler, sent) \in Stages
  BY <1>2 DEF StageAfterFlush, Stages
<1> QED
  BY <1>3 DEF httpdFlushSendBuffer

(* A send keeps the fill within MaxFill and the open chunk at the end.     *)
LEMMA SendKeepsBuffer ==
  ASSUME BufferInv, lock = "handler", NEW n \in Nat \ {0}, httpdSend(n)
  PROVE  /\ sendBuffLen' \in 0..Size /\ sendBuffLen' <= MaxFill
         /\ chunkHdr' \in 0..Size \cup {NoHdr}
         /\ payload' \in Nat
         /\ chunkHdr' # NoHdr =>
              /\ Chunking
              /\ payload' > 0
              /\ sendBuffLen' = chunkHdr' + ChunkSizeTextLen + payload'
         /\ chunkHdr' = NoHdr => payload' = 0
<1> USE SizeAssumption
      DEF BufferInv, TypeOK, NoHdr, ChunkSizeTextLen, CrLf, NullChunkLen
<1>1. CASE SendFits(n) /\ OpensChunk
  BY <1>1 DEF httpdSend, Append, SendFits, OpensChunk
<1>2. CASE SendFits(n) /\ ~OpensChunk
  BY <1>2 DEF httpdSend, Append, SendFits, OpensChunk
<1>3. CASE ~SendFits(n)
  BY <1>3 DEF httpdSend, Refuse
<1> QED BY <1>1, <1>2, <1>3

LEMMA BufferStep == BufferInv /\ [Next]_vars => BufferInv'
<1> SUFFICES ASSUME BufferInv, [Next]_vars PROVE BufferInv'
  OBVIOUS
<1> USE SizeAssumption, HandlerAssumption
    DEF BufferInv, TypeOK, NothingDropped, CrLf, NullChunkLen
<1>1. ASSUME NEW c \in ChunkedOrNot, Request(c) PROVE BufferInv'
  <2>1. flags' \subseteq Flags
    BY <1>1 DEF Request, ChunkedOrNot, Flags
  <2>2. chunkHdr' = NoHdr /\ payload' = 0
    BY <1>1 DEF Request
  <2> QED
    BY <1>1, <2>1, <2>2 DEF Request
<1>2. CASE httpdContinue
  BY <1>2 DEF httpdContinue, Chunking
<1>3. ASSUME NEW c \in ChunkedOrNot, httpdSetTransferMode(c) PROVE BufferInv'
  <2>1. flags' \subseteq Flags
    BY <1>3 DEF httpdSetTransferMode, ChunkedOrNot, Flags
  <2>2. chunkHdr' = NoHdr /\ payload' = 0
    BY <1>3 DEF httpdSetTransferMode, Chunking
  <2> QED
    BY <1>3, <2>1, <2>2 DEF httpdSetTransferMode
<1>4. ASSUME NEW n \in SendSizes, HandlerSends(n) PROVE BufferInv'
  BY <1>4, SendKeepsBuffer DEF HandlerSends, Chunking
<1>5. CASE httpdEndHeaders
  BY <1>5, SendKeepsBuffer, CrLf \in Nat \ {0}
     DEF httpdEndHeaders, Flags, Chunking
<1>6. CASE ReturnMore
  BY <1>6, FlushBuffer DEF ReturnMore
<1>7. CASE ReturnDone
  <2>1. flags' \subseteq Flags
    <3>1. CASE "CHUNKED" \in flags
      BY <1>7, <3>1 DEF ReturnDone
    <3>2. CASE "CHUNKED" \notin flags
      BY <1>7, <3>2 DEF ReturnDone, Flags
    <3> QED BY <3>1, <3>2
  <2>2. sendBuffLen' = 0 /\ chunkHdr' = NoHdr /\ payload' = 0 /\ stage' \in Stages
    BY <1>7, FlushBuffer DEF ReturnDone
  <2> QED
    BY <1>7, <2>1, <2>2 DEF ReturnDone, LeavesRoom
<1>8. CASE CloseAfterSent
  BY <1>8 DEF CloseAfterSent, ConnectAnew, Stages
<1>9. CASE GiveUp
  BY <1>9 DEF GiveUp, ConnectAnew, Stages
<1>10. CASE UNCHANGED vars
  BY <1>10 DEF vars, Chunking
<1> QED
  BY <1>1, <1>2, <1>3, <1>4, <1>5, <1>6, <1>7, <1>8, <1>9, <1>10 DEF Next

LEMMA BufferInvariant == Spec => []BufferInv
BY BufferInit, BufferStep, PTL DEF Spec

(* Type correctness.                                                       *)
THEOREM TypeCorrect == Spec => []TypeOK
<1>1. BufferInv => TypeOK
  BY DEF BufferInv
<1> QED BY <1>1, BufferInvariant, PTL

(* No handler can overrun the buffer or keep a flush from closing a chunk. *)
THEOREM BufferNeverOverruns == Spec => []BufferBound
<1>1. BufferInv => BufferBound
  BY SizeAssumption
     DEF BufferInv, TypeOK, BufferBound, ClosedLen, NoHdr, CrLf, NullChunkLen
<1> QED BY <1>1, BufferInvariant, PTL

LEMMA ClaimIsPayload == BufferInv => ChunkLengthExact
<1> SUFFICES ASSUME BufferInv, chunkHdr # NoHdr
             PROVE  payload > 0 /\ ClaimedLen = payload
  BY DEF ChunkLengthExact
<1>1. ClosedLen = sendBuffLen + CrLf
  BY SizeAssumption DEF BufferInv, TypeOK, ClosedLen, CrLf, NullChunkLen
<1>2. ClosedLen - chunkHdr - (ChunkSizeTextLen + CrLf) = payload
  BY <1>1 DEF BufferInv, TypeOK, NoHdr, CrLf, ChunkSizeTextLen
<1>3. payload \in Nat /\ payload < 65536
  BY SizeAssumption
     DEF BufferInv, TypeOK, NoHdr, CrLf, ChunkSizeTextLen, NullChunkLen
<1>4. payload % 65536 = payload
  BY <1>3
<1> QED BY <1>2, <1>4 DEF BufferInv, ClaimedLen

(* Every chunk's length field is the number of bytes sent in it.           *)
THEOREM ChunkLengthsCorrect == Spec => []ChunkLengthExact
BY ClaimIsPayload, BufferInvariant, PTL

(* The resets of sendBuffLen drop nothing.                                 *)
THEOREM NothingIsDropped == Spec => []NothingDropped
<1>1. BufferInv => NothingDropped
  BY DEF BufferInv
<1> QED BY <1>1, BufferInvariant, PTL
-----------------------------------------------------------------------------
(* The client's side.                                                      *)

(* Bytes outside a chunk only ever precede the body, a chunked body only   *)
(* ever follows a head, and an end is lost only if no room was left for it.*)
FramingInv ==
  /\ BufferInv
  /\ cgi = "handler" => "DISCONAFTERSENT" \notin flags
  /\ "DISCONAFTERSENT" \in flags => "CHUNKED" \notin flags
  /\ ~Serving => flags = {} /\ stage \in {"idle", "lost"}
  /\ stage = "lost" => ~Serving /\ ~roomy
  /\ stage # "broken"
  /\ stage = "body" => Chunking /\ RawLen = 0
  /\ Chunking /\ stage = "idle" => RawLen > 0

LEMMA FramingInit == Init => FramingInv
BY BufferInit DEF Init, FramingInv, Serving, Chunking, RawLen

(* What a flush does to the client's parser.                               *)
LEMMA FlushFraming ==
  ASSUME FramingInv, Serving
  PROVE  /\ StageAfterChunk \in {"idle", "head", "body"}
         /\ StageAfterChunk = "body" => Chunking
         /\ Chunking => StageAfterChunk \in {"head", "body"}
         /\ stage # "idle" => StageAfterChunk # "idle"
         /\ stage = "body" => StageAfterChunk = "body"
<1>0. stage \in {"idle", "head", "body"}
  BY DEF FramingInv, BufferInv, TypeOK, Stages
<1>1. StageAfterRaw \in {"idle", "head", "body"}
  BY <1>0 DEF FramingInv, StageAfterRaw
<1>2. /\ StageAfterRaw = "idle" => stage = "idle" /\ RawLen = 0
      /\ StageAfterRaw = "body" <=> stage = "body"
  BY <1>0 DEF FramingInv, StageAfterRaw
<1>3. chunkHdr # NoHdr => payload > 0 /\ ClaimedLen = payload
  BY ClaimIsPayload DEF FramingInv, ChunkLengthExact
<1>4. chunkHdr # NoHdr => Chunking
  BY DEF FramingInv, BufferInv
<1>5. Chunking => StageAfterRaw \in {"head", "body"}
  BY <1>1, <1>2 DEF FramingInv
<1>6. /\ chunkHdr # NoHdr => StageAfterChunk = "body"
      /\ chunkHdr = NoHdr => StageAfterChunk = StageAfterRaw
  BY <1>3, <1>4, <1>5 DEF StageAfterChunk
<1> QED
  BY <1>1, <1>2, <1>4, <1>5, <1>6 DEF FramingInv

(* A flush of a handler that goes on adds no end.                          *)
LEMMA FlushOfMore ==
  ASSUME FramingInv, ReturnMore
  PROVE  Serving /\ stage' = StageAfterChunk
<1>1. cgi = "handler"
  BY DEF ReturnMore, FramingInv, BufferInv
<1>2. \A sent : StageAfterFlush(cgi, sent) = StageAfterChunk
  BY <1>1 DEF StageAfterFlush, AddsNullChunk
<1> QED
  BY <1>1, <1>2 DEF ReturnMore, httpdFlushSendBuffer, Serving

(* The flush of a chunked response that is done shows its end or, only if  *)
(* the handler left no room for six bytes, loses it.                       *)
LEMMA FlushOfDone ==
  ASSUME FramingInv, ReturnDone
  PROVE  /\ Serving
         /\ Chunking => stage' = "idle" \/ (stage' = "lost" /\ ~roomy')
         /\ ~Chunking => stage' = StageAfterChunk
<1>1. Serving
  BY DEF ReturnDone, FramingInv, BufferInv, Serving
<1>2. PICK sent \in SentLens("NULL") : stage' = StageAfterFlush("NULL", sent)
  BY DEF ReturnDone, httpdFlushSendBuffer
<1>3. ASSUME Chunking PROVE stage' = "idle" \/ (stage' = "lost" /\ ~roomy')
  <2>1. StageAfterChunk \in {"head", "body"}
    BY <1>1, <1>3, FlushFraming
  <2>2. stage' \in {"idle", "lost"}
    BY <1>2, <1>3, <2>1 DEF StageAfterFlush
  <2>3. ClosedLen \in Nat
    BY DEF FramingInv, BufferInv, TypeOK, ClosedLen, CrLf
  <2>4. ASSUME LeavesRoom PROVE stage' = "idle"
    <3>1. AddsNullChunk("NULL") /\ ClosedLen + NullChunkLen # Size
      BY <1>3, <2>3, <2>4, SizeAssumption DEF LeavesRoom, AddsNullChunk, NullChunkLen
    <3>2. sent = ClosedLen + NullChunkLen
      BY <3>1 DEF SentLens, NullChunkEnds
    <3> QED BY <1>2, <2>1, <3>1, <3>2 DEF StageAfterFlush
  <2> QED BY <2>2, <2>4 DEF ReturnDone
<1>4. ASSUME ~Chunking PROVE stage' = StageAfterChunk
  BY <1>2, <1>4 DEF StageAfterFlush, AddsNullChunk
<1> QED BY <1>1, <1>3, <1>4

LEMMA FramingStep == FramingInv /\ [Next]_vars => FramingInv'
<1> SUFFICES ASSUME FramingInv, [Next]_vars PROVE FramingInv'
  OBVIOUS
<1>0. BufferInv'
  BY BufferStep DEF FramingInv
<1>1. ASSUME NEW c \in ChunkedOrNot, Request(c) PROVE FramingInv'
  BY <1>1, <1>0 DEF Request, ChunkedOrNot, FramingInv, Serving, Chunking, RawLen
<1>2. CASE httpdContinue
  BY <1>2, <1>0
     DEF httpdContinue, FramingInv, BufferInv, NothingDropped, Serving,
         Chunking, RawLen
<1>3. ASSUME NEW c \in ChunkedOrNot, httpdSetTransferMode(c) PROVE FramingInv'
  BY <1>3, <1>0
     DEF httpdSetTransferMode, ChunkedOrNot, FramingInv, BufferInv, Serving,
         Chunking, RawLen
<1>4. ASSUME NEW n \in SendSizes, HandlerSends(n) PROVE FramingInv'
  <2>1. n \in Nat \ {0}
    BY HandlerAssumption
  <2>2. UNCHANGED <<flags, cgi, stage, roomy>>
    BY <1>4 DEF HandlerSends
  <2>3. stage = "body" => RawLen' = 0
    BY <1>4, <2>1
       DEF HandlerSends, httpdSend, Append, Refuse, OpensChunk, FramingInv,
           BufferInv, TypeOK, RawLen, NoHdr
  <2>4. Chunking /\ stage = "idle" => RawLen' > 0
    BY <1>4, <2>1
       DEF HandlerSends, httpdSend, Append, Refuse, OpensChunk, FramingInv,
           BufferInv, TypeOK, RawLen, NoHdr
  <2> QED
    BY <2>2, <2>3, <2>4, <1>0 DEF FramingInv, Serving, Chunking
<1>5. CASE httpdEndHeaders
  <2>1. chunkHdr = NoHdr /\ stage # "body"
    BY <1>5 DEF httpdEndHeaders, FramingInv, BufferInv, Chunking
  <2>2. sendBuffLen' = sendBuffLen + CrLf /\ chunkHdr' = NoHdr
    BY <1>5, <2>1
       DEF httpdEndHeaders, httpdSend, Append, OpensChunk, Chunking, NoHdr,
           FramingInv, BufferInv, TypeOK, CrLf
  <2>3. RawLen' > 0
    BY <2>2 DEF RawLen, FramingInv, BufferInv, TypeOK, CrLf
  <2>4. /\ flags' = flags \cup {"SENDINGBODY"}
        /\ cgi = "handler" /\ UNCHANGED <<cgi, stage, roomy>>
    BY <1>5 DEF httpdEndHeaders, FramingInv, BufferInv
  <2> QED
    BY <1>0, <2>1, <2>3, <2>4 DEF FramingInv, Serving
<1>6. CASE ReturnMore
  <2>1. Serving /\ stage' = StageAfterChunk
    BY <1>6, FlushOfMore
  <2>2. UNCHANGED <<flags, cgi, roomy>> /\ RawLen' = 0
    BY <1>6 DEF ReturnMore, httpdFlushSendBuffer, RawLen
  <2> QED
    BY <2>1, <2>2, <1>0, FlushFraming DEF FramingInv, Serving, Chunking
<1>7. CASE ReturnDone
  <2>1. RawLen' = 0
    BY <1>7 DEF ReturnDone, httpdFlushSendBuffer, RawLen
  <2>2. "DISCONAFTERSENT" \notin flags
    BY <1>7 DEF ReturnDone, FramingInv, BufferInv
  <2>3. CASE "CHUNKED" \in flags
    <3>1. stage' = "idle" \/ (stage' = "lost" /\ ~roomy')
      BY <1>7, <2>3, FlushOfDone DEF ReturnDone, Chunking
    <3>2. flags' = {} /\ cgi' = "NULL"
      BY <1>7, <2>3 DEF ReturnDone
    <3> QED
      BY <3>1, <3>2, <1>0 DEF FramingInv, Serving, Chunking
  <2>4. CASE "CHUNKED" \notin flags
    <3>1. Serving /\ stage' = StageAfterChunk /\ ~Chunking
      BY <1>7, <2>4, FlushOfDone DEF Chunking
    <3>2. flags' = flags \cup {"DISCONAFTERSENT"} /\ cgi' = "NULL"
      BY <1>7, <2>4 DEF ReturnDone
    <3> QED
      BY <2>4, <3>1, <3>2, <1>0, FlushFraming
         DEF FramingInv, Serving, Chunking
  <2> QED BY <2>3, <2>4
<1>8. CASE ConnectAnew
  BY <1>8, <1>0
     DEF ConnectAnew, FramingInv, BufferInv, Serving, Chunking, RawLen
<1>9. CASE UNCHANGED vars
  BY <1>9, <1>0 DEF vars, FramingInv, Serving, Chunking, RawLen
<1> QED
  BY <1>1, <1>2, <1>3, <1>4, <1>5, <1>6, <1>7, <1>8, <1>9 DEF Next, CloseAfterSent, GiveUp

(* The end of every response reaches the client before the next request,   *)
(* if its handler left room for the null chunk and the NUL behind it.      *)
THEOREM EveryEndIsSeen == Spec => []EndIsSeen
<1>1. FramingInv => EndIsSeen
  BY DEF FramingInv, EndIsSeen
<1> QED BY <1>1, FramingInit, FramingStep, PTL DEF Spec

(* Every step is a step of the abstract framing, or a stutter.             *)
LEMMA FramingRefined ==
  ASSUME FramingInv, [Next]_vars
  PROVE  [Framing!FramingNext]_Framing!framingVars
<1> USE DEF Framing!FramingNext, Framing!framingVars
<1>0. roomy' \in BOOLEAN
  BY BufferStep DEF FramingInv, BufferInv, TypeOK
<1>1. ASSUME NEW c \in ChunkedOrNot, Request(c)
      PROVE  Framing!FramingNext
  BY <1>1 DEF Request, ChunkedOrNot, FramingInv, Serving, Framing!Begin
<1>2. CASE httpdContinue
  BY <1>2 DEF httpdContinue, Serving
<1>3. ASSUME NEW c \in ChunkedOrNot, httpdSetTransferMode(c)
      PROVE  UNCHANGED Framing!framingVars
  BY <1>3 DEF httpdSetTransferMode, ChunkedOrNot, FramingInv, BufferInv, Serving
<1>4. ASSUME NEW n \in SendSizes, HandlerSends(n)
      PROVE  UNCHANGED Framing!framingVars
  BY <1>4 DEF HandlerSends, Serving
<1>5. CASE httpdEndHeaders
  BY <1>5 DEF httpdEndHeaders, FramingInv, BufferInv, Serving
<1>6. CASE ReturnMore
  <2>1. Serving /\ stage' = StageAfterChunk
    BY <1>6, FlushOfMore
  <2>2. Serving'
    BY <1>6, <2>1 DEF ReturnMore, Serving
  <2>3. stage \in {"idle", "head", "body"}
    BY <2>1 DEF FramingInv, BufferInv, TypeOK, Stages
  <2> QED
    BY <1>0, <2>1, <2>2, <2>3, FlushFraming DEF Framing!Deliver
<1>7. CASE ReturnDone
  <2>1. Serving
    BY <1>7, FlushOfDone
  <2>2. CASE "CHUNKED" \in flags
    <3>1. stage' = "idle" \/ (stage' = "lost" /\ ~roomy')
      BY <1>7, <2>2, FlushOfDone DEF ReturnDone, Chunking
    <3>2. ~Serving'
      BY <1>7, <2>2 DEF ReturnDone, Serving
    <3> QED BY <1>0, <2>1, <3>1, <3>2 DEF Framing!Finish, Framing!Lose
  <2>3. CASE "CHUNKED" \notin flags
    <3>1. stage' = StageAfterChunk
      BY <1>7, <2>3, FlushOfDone DEF Chunking
    <3>2. Serving'
      BY <1>7, <2>3 DEF ReturnDone, Serving
    <3>3. stage \in {"idle", "head", "body"}
      BY <2>1 DEF FramingInv, BufferInv, TypeOK, Stages
    <3> QED
      BY <1>0, <2>1, <3>1, <3>2, <3>3, FlushFraming DEF Framing!Deliver
  <2> QED BY <2>2, <2>3
<1>8. CASE CloseAfterSent
  <2>1. Serving /\ ~Serving' /\ stage' = "idle"
    BY <1>8 DEF CloseAfterSent, ConnectAnew, Serving
  <2> QED
    BY <1>0, <2>1 DEF Framing!Finish
<1>9. CASE GiveUp
  <2>1. ~Serving /\ ~Serving'
    BY <1>9 DEF GiveUp, ConnectAnew, FramingInv, Serving
  <2>2. Serving' = Serving
    BY <2>1 DEF Serving
  <2> QED
    BY <1>9, <2>2 DEF GiveUp, ConnectAnew, Framing!Reconnect
<1>10. CASE UNCHANGED vars
  BY <1>10 DEF vars, Serving
<1> QED
  BY <1>1, <1>2, <1>3, <1>4, <1>5, <1>6, <1>7, <1>8, <1>9, <1>10 DEF Next

(* SendBuffer implements ResponseFraming.                                  *)
THEOREM ImplementsFraming == Spec => FramingSpec
<1>1. Init => Framing!FramingInit
  BY DEF Init, Framing!FramingInit, Serving
<1>2. FramingInv /\ [Next]_vars => [Framing!FramingNext]_Framing!framingVars
  BY FramingRefined
<1> QED
  BY <1>1, <1>2, FramingInit, FramingStep, PTL
     DEF Spec, FramingSpec, Framing!FramingSpec
=============================================================================
