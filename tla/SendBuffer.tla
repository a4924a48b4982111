----------------------------- MODULE SendBuffer -----------------------------
(***************************************************************************)
(* The send buffer of one connection (core/httpd.c): httpdSend appends,    *)
(* opening a chunk when the response body is chunked, and                  *)
(* httpdFlushSendBuffer closes the chunk, patches its length into the      *)
(* placeholder, adds the null chunk when the handler is done and hands the *)
(* buffer to the socket.  Bytes are counted, not stored.  The platform's   *)
(* write is blocking and takes the whole buffer.                           *)
(***************************************************************************)
EXTENDS Integers

CONSTANTS
  Size,        \* HTTPD_SENDBUFF_SIZE
  MaxFill,     \* HTTPD_SENDBUFF_MAX_FILL: Size less the chunk's CR LF
  SendSizes    \* lengths the handlers pass to httpdSend

ChunkSizeTextLen == 6      \* "0000\r\n"
CrLf == 2
NullChunkLen == 5          \* "0\r\n\r\n"
Flags == {"CHUNKED", "SENDINGBODY", "DISCONAFTERSENT"}   \* HFL_...
NoHdr == -1                \* chunkHdr == NULL; otherwise its offset in sendBuff

ASSUME SizeAssumption ==
  /\ Size \in Nat
  /\ NullChunkLen + CrLf <= Size
  /\ Size <= 65536
  /\ MaxFill = Size - CrLf
ASSUME HandlerAssumption == SendSizes \subseteq Nat \ {0}

VARIABLES
  sendBuffLen,   \* conn->priv.sendBuffLen
  chunkHdr,      \* conn->priv.chunkHdr
  flags,         \* conn->priv.flags, a subset of Flags
  cgi,           \* conn->cgi: "NULL" or "handler"
  lock,          \* "free", or "handler" while the handler is being called
  payload,       \* history: bytes handed to httpdSend since chunkHdr was set
  stage,         \* history: where the client's parser of the response stands
  roomy          \* history: the last handler that ended had left room for the end

vars == <<sendBuffLen, chunkHdr, flags, cgi, lock, payload, stage, roomy>>

Init ==
  /\ sendBuffLen = 0
  /\ chunkHdr = NoHdr
  /\ flags = {}
  /\ cgi = "NULL"
  /\ lock = "free"
  /\ payload = 0
  /\ stage = "idle"
  /\ roomy = TRUE

-----------------------------------------------------------------------------
(* httpdSend(conn, data, n), n > 0.                                        *)

Chunking == "CHUNKED" \in flags /\ "SENDINGBODY" \in flags

OpensChunk == Chunking /\ chunkHdr = NoHdr

(* Mutants: the chunk header is not counted; no room is kept for CR LF.    *)
SendFitsNoHeader(n) == sendBuffLen + n <= MaxFill
SendFitsWholeBuffer(n) ==
  sendBuffLen + n + (IF OpensChunk THEN ChunkSizeTextLen ELSE 0) <= Size

SendFits(n) ==
  sendBuffLen + n + (IF OpensChunk THEN ChunkSizeTextLen ELSE 0) <= MaxFill

(* Returns 1: all of the data is in the buffer.                            *)
Append(n) ==
  LET hdr == IF OpensChunk THEN ChunkSizeTextLen ELSE 0
  IN /\ sendBuffLen' = sendBuffLen + hdr + n
     /\ chunkHdr' = IF OpensChunk THEN sendBuffLen ELSE chunkHdr
     /\ payload' = IF chunkHdr' # NoHdr THEN payload + n ELSE payload

(* Returns 0: no byte of it is.                                            *)
Refuse == UNCHANGED <<sendBuffLen, chunkHdr, payload>>

httpdSend(n) == IF SendFits(n) THEN Append(n) ELSE Refuse

-----------------------------------------------------------------------------
(* httpdFlushSendBuffer(conn), with conn->cgi # NULL as given by handler.  *)

(* The buffer after the open chunk's CR LF.                                *)
ClosedLen ==
  IF chunkHdr # NoHdr /\ sendBuffLen + CrLf <= Size
  THEN sendBuffLen + CrLf ELSE sendBuffLen

(* Mutant: the CR LF is counted as data.                                   *)
ClaimedLenWithCrLf == (ClosedLen - chunkHdr - ChunkSizeTextLen) % 65536

(* The four hexadecimal digits patched over the placeholder.               *)
ClaimedLen == (ClosedLen - chunkHdr - (ChunkSizeTextLen + CrLf)) % 65536

(* Mutants: the CR LF is counted twice; the null chunk after every flush.  *)
AddsNullChunkLate(handler) ==
  /\ Chunking /\ handler = "NULL"
  /\ ClosedLen + CrLf + NullChunkLen <= Size
AddsNullChunkAlways(handler) == Chunking /\ ClosedLen + NullChunkLen <= Size

AddsNullChunk(handler) ==
  /\ Chunking /\ handler = "NULL"
  /\ ClosedLen + NullChunkLen <= Size

(* What sendBuffLen may be after strcpy put the null chunk in and 5 was    *)
(* added.  strcpy writes a sixth byte, the NUL: where the chunk fits       *)
(* exactly it lands on the low byte of sendBuffLen, which the compiler may *)
(* or may not have loaded before.                                          *)
NullChunkEnds ==
  {ClosedLen + NullChunkLen} \cup
  (IF ClosedLen + NullChunkLen = Size
   THEN {(ClosedLen - (ClosedLen % 256)) + NullChunkLen} ELSE {})

(* What is handed to the socket.                                           *)
SentLens(handler) ==
  IF AddsNullChunk(handler) THEN NullChunkEnds ELSE {ClosedLen}

(* Bytes of the buffer that belong to no chunk.                            *)
RawLen == IF chunkHdr # NoHdr THEN chunkHdr ELSE sendBuffLen

(* The client's parser: a head only after an end, a chunk of the length it *)
(* claims and of at least one byte only after a head, an end only once     *)
(* there was a head.                                                       *)
StageAfterRaw ==
  IF RawLen = 0 THEN stage
  ELSE IF stage \in {"idle", "head"} THEN "head" ELSE "broken"
StageAfterChunk ==
  IF chunkHdr = NoHdr THEN StageAfterRaw
  ELSE IF /\ StageAfterRaw \in {"head", "body"}
          /\ payload > 0
          /\ ClaimedLen = payload
       THEN "body" ELSE "broken"
(* A chunked response whose handler is done ends here or, where the null   *)
(* chunk is left out or cut off, never.                                    *)
StageAfterFlush(handler, sent) ==
  IF AddsNullChunk(handler) /\ sent = ClosedLen + NullChunkLen
  THEN IF StageAfterChunk \in {"head", "body"} THEN "idle" ELSE "broken"
  ELSE IF Chunking /\ handler = "NULL"
  THEN IF StageAfterChunk \in {"head", "body"} THEN "lost" ELSE "broken"
  ELSE StageAfterChunk

(* Mutant: chunkHdr keeps pointing into the recycled buffer.               *)
FlushKeepsHdr(handler) ==
  /\ sendBuffLen' = 0
  /\ payload' = 0
  /\ \E sent \in SentLens(handler) : stage' = StageAfterFlush(handler, sent)
  /\ UNCHANGED chunkHdr

httpdFlushSendBuffer(handler) ==
  /\ sendBuffLen' = 0
  /\ chunkHdr' = NoHdr
  /\ payload' = 0
  /\ \E sent \in SentLens(handler) : stage' = StageAfterFlush(handler, sent)

-----------------------------------------------------------------------------
(* A request has been read (httpdRecvCb): httpdParseHeader set the flags   *)
(* and httpdProcessRequest calls the handler.  A client that still waits   *)
(* for the end of a response sends none.                                   *)
Request(chunked) ==
  /\ cgi = "NULL" /\ "DISCONAFTERSENT" \notin flags
  /\ stage # "lost"
  /\ sendBuffLen' = 0
  /\ flags' = flags \cup chunked
  /\ cgi' = "handler"
  /\ lock' = "handler"
  /\ UNCHANGED <<chunkHdr, payload, stage, roomy>>

(* httpdContinue calls the handler again after HTTPD_CGI_MORE.             *)
httpdContinue ==
  /\ cgi = "handler" /\ lock = "free"
  /\ sendBuffLen' = 0
  /\ lock' = "handler"
  /\ UNCHANGED <<chunkHdr, flags, cgi, payload, stage, roomy>>

(* httpdSetTransferMode, by a handler that has not sent anything yet.      *)
httpdSetTransferMode(chunked) ==
  /\ lock = "handler" /\ "SENDINGBODY" \notin flags
  /\ sendBuffLen = 0 /\ stage = "idle"
  /\ flags' = (flags \ {"CHUNKED"}) \cup chunked
  /\ UNCHANGED <<sendBuffLen, chunkHdr, cgi, lock, payload, stage, roomy>>

(* The running handler sends head bytes (httpdStartResponse, httpdHeader)  *)
(* or body bytes.                                                          *)
HandlerSends(n) ==
  /\ lock = "handler"
  /\ httpdSend(n)
  /\ UNCHANGED <<flags, cgi, lock, stage, roomy>>

(* httpdEndHeaders, by a handler whose head left room for the blank line.  *)
httpdEndHeaders ==
  /\ lock = "handler" /\ "SENDINGBODY" \notin flags
  /\ SendFits(CrLf)
  /\ httpdSend(CrLf)
  /\ flags' = flags \cup {"SENDINGBODY"}
  /\ UNCHANGED <<cgi, lock, stage, roomy>>

(* The handler returns HTTPD_CGI_MORE: the caller flushes.                 *)
ReturnMore ==
  /\ lock = "handler"
  /\ httpdFlushSendBuffer(cgi)
  /\ lock' = "free"
  /\ UNCHANGED <<flags, cgi, roomy>>

(* Room for the null chunk and for the NUL that strcpy puts behind it.     *)
LeavesRoom == ClosedLen + NullChunkLen + 1 <= Size

(* The handler returns HTTPD_CGI_DONE having ended its headers:            *)
(* httpdCgiIsDone, then the caller's own flush (a second one, of an empty  *)
(* buffer with cleared flags, when the response is chunked).               *)
ReturnDone ==
  /\ lock = "handler" /\ "SENDINGBODY" \in flags
  /\ cgi' = "NULL"
  /\ lock' = "free"
  /\ httpdFlushSendBuffer("NULL")
  /\ flags' = IF "CHUNKED" \in flags THEN {}
              ELSE flags \cup {"DISCONAFTERSENT"}
  /\ roomy' = LeavesRoom

(* The slot after the socket was closed, set up anew by httpdConnectCb.    *)
ConnectAnew ==
  /\ sendBuffLen' = 0 /\ chunkHdr' = NoHdr /\ payload' = 0
  /\ flags' = {} /\ cgi' = "NULL" /\ lock' = "free"
  /\ stage' = "idle" /\ roomy' = TRUE

(* httpdContinue on a connection marked for destruction: the socket is     *)
(* closed, which ends an unchunked response.                               *)
CloseAfterSent == "DISCONAFTERSENT" \in flags /\ ConnectAnew

(* A client that waited in vain for the end of a response goes away.       *)
GiveUp == stage = "lost" /\ ConnectAnew

(* The values HFL_CHUNKED can be given.                                    *)
ChunkedOrNot == SUBSET {"CHUNKED"}

Next ==
  \/ \E chunked \in ChunkedOrNot : Request(chunked)
  \/ httpdContinue
  \/ \E chunked \in ChunkedOrNot : httpdSetTransferMode(chunked)
  \/ \E n \in SendSizes : HandlerSends(n)
  \/ httpdEndHeaders
  \/ ReturnMore
  \/ ReturnDone
  \/ CloseAfterSent
  \/ GiveUp

Spec == Init /\ [][Next]_vars

-----------------------------------------------------------------------------
Stages == {"idle", "head", "body", "lost", "broken"}

TypeOK ==
  /\ sendBuffLen \in 0..Size
  /\ chunkHdr \in 0..Size \cup {NoHdr}
  /\ flags \subseteq Flags
  /\ cgi \in {"NULL", "handler"}
  /\ lock \in {"free", "handler"}
  /\ payload \in Nat
  /\ stage \in Stages
  /\ roomy \in BOOLEAN

(* Whatever the handlers send, the buffer never holds more than MaxFill    *)
(* bytes outside a flush and the flush can always close an open chunk: the *)
(* "sendBuff full" branch that would send a chunk without its CR LF and    *)
(* with a length two too small is dead code.                               *)
BufferBound ==
  /\ sendBuffLen <= MaxFill
  /\ chunkHdr # NoHdr => ClosedLen = sendBuffLen + CrLf

(* The length patched into a chunk is the number of bytes the handler put  *)
(* in it, over any sequence of sends, and it is never zero (a zero length  *)
(* would end the body early).                                              *)
ChunkLengthExact ==
  chunkHdr # NoHdr => payload > 0 /\ ClaimedLen = payload

(* Resetting sendBuffLen at the start of httpdRecvCb and httpdContinue     *)
(* drops nothing and leaves no chunk header pointing into a recycled       *)
(* buffer: between handler calls the buffer is empty.                      *)
NothingDropped ==
  lock = "free" => sendBuffLen = 0 /\ chunkHdr = NoHdr

(* A response is being made, or a connection is to close after one.        *)
Serving == cgi # "NULL" \/ "DISCONAFTERSENT" \in flags

(* The client can parse every response, and has seen the end of the last   *)
(* one when the server goes back to reading requests (httpd.c:421          *)
(* "Connection finished sending whatever needs to be sent. Add NULL chunk  *)
(* to indicate this"), unless its handler returned DONE with a buffer that *)
(* had no room for the null chunk and a NUL: five bytes are one too few.   *)
EndIsSeen ==
  /\ stage # "broken"
  /\ ~Serving /\ roomy => stage = "idle"

(* The same promise as a refinement of the abstract specification.         *)
Framing == INSTANCE ResponseFraming
             WITH stage <- stage, serving <- Serving, roomy <- roomy
FramingSpec == Framing!FramingSpec
=============================================================================
