------------------------------ MODULE WsFrames ------------------------------
(***************************************************************************)
(* The frames of a websocket (src/util/cgiwebsocket.c): cgiWebSocketRecv   *)
(* reads them out of the segments that httpdRecvCb is given, which may cut *)
(* the stream anywhere, so that the state of the parser (WebsockPriv) is   *)
(* kept from call to call.  sendFrameHead writes the heads of the frames   *)
(* sent.  Who holds the Websock meanwhile is in the module Websocket.      *)
(*                                                                         *)
(* A byte on the wire is <<"flags", opcode, fin>>, <<"len8", masked, n>>,  *)
(* <<"ext", n>>, <<"mask", frame>> or <<"data", frame, place>>.  XOR with  *)
(* the right byte of the right mask restores the data byte, and any other  *)
(* XOR leaves garbage, <<frame, 0>>.                                       *)
(***************************************************************************)
EXTENDS Integers, Sequences, SequencesExt

CONSTANTS Frames,     \* the frames a client may send
          MaxFrames,  \* bound: frames in a stream
          MaxSegment, \* bound: bytes of a segment, or all that is left
          SendLens    \* lengths of the frames the application sends

DataOps == {"continue", "text", "binary"}
Ops == DataOps \cup {"ping", "close", "other"}
MaxShort == 256 * 256 - 1  \* 65535: what two length bytes hold, and the bound of a payload

IntMax == 127 * 256 * 256 * 256 + (256 * 256 * 256 - 1)  \* of int len

\* A frame: ext is the number of length bytes after len8; shown the number of
\* payload bytes that are sent (the end of the stream may cut a frame off).
WireFrames == [op : Ops, fin : 0 .. 1, masked : 0 .. 1, ext : {0, 2, 8}, len : 0 .. MaxShort,
               shown : 0 .. MaxShort]

ASSUME WsFramesAssumption ==
  /\ \A r \in Frames : r \in WireFrames /\ r.shown <= r.len /\ (r.ext = 0 => r.len <= 125)
  /\ MaxFrames \in Nat \ {0} /\ MaxSegment \in Nat \ {0} /\ SendLens \subseteq 0 .. IntMax

VARIABLES wstream, \* the frames the client sends
          wat,     \* bytes of the stream handled: the place of data[i]
          wend,    \* bytes of the stream received: the place of data[len]
          wfr,     \* WebsockPriv
          wout,    \* what the callback and the client were given
          wopen    \* 1 until cgiWebSocketRecv returns DONE

wsVars == <<wstream, wat, wend, wfr, wout, wopen>>

ST_FLAGS == 0
ST_LEN0 == 1
ST_LEN1 == 2
ST_LEN2 == 3
ST_LEN8 == 9
ST_MASK1 == 10
ST_MASK4 == 13
ST_PAYLOAD == 14

(***************************************************************************)
(* The stream                                                              *)
(***************************************************************************)

\* Only the last frame may be cut off.
Streams ==
  { s \in UNION { [1 .. n -> Frames] : n \in 1 .. MaxFrames } :
      \A f \in 1 .. Len(s) - 1 : s[f].shown = s[f].len }

FrameHead(ws, f) ==
  LET r == ws[f]
      len8 == IF r.ext = 0 THEN r.len ELSE IF r.ext = 2 THEN 126 ELSE 127
      byte(k) == IF k = r.ext THEN r.len % 256 ELSE IF k = r.ext - 1 THEN r.len \div 256 ELSE 0
  IN <<<<"flags", r.op, r.fin>>, <<"len8", r.masked, len8>>>>
     \o [k \in 1 .. r.ext |-> <<"ext", byte(k)>>]
     \o [k \in 1 .. IF r.masked = 1 THEN 4 ELSE 0 |-> <<"mask", f>>]

Wire(ws) == FlattenSeq([f \in DOMAIN ws |->
              FrameHead(ws, f) \o [k \in 1 .. ws[f].shown |-> <<"data", f, k>>]])

(***************************************************************************)
(* cgiWebSocketRecv                                                        *)
(***************************************************************************)

\* priv is allocated with calloc.
NoFrame == [wsStatus |-> ST_FLAGS, op |-> "continue", fin |-> 0, masked |-> 0, len7 |-> 0,
            len |-> 0, mask |-> <<0, 0, 0, 0>>, maskCtr |-> 0, frameCont |-> 0]

AfterLen(p) == IF p.masked = 1 THEN ST_MASK1 ELSE ST_PAYLOAD

\* One byte of the head of a frame.
HeaderByte(p, b) ==
  IF p.wsStatus = ST_FLAGS
  THEN [p EXCEPT !.maskCtr = 0, !.frameCont = 0, !.op = b[2], !.fin = b[3], !.wsStatus = ST_LEN0]
  ELSE IF p.wsStatus = ST_LEN0
  THEN LET q == [p EXCEPT !.masked = b[2], !.len7 = b[3]] IN
       IF b[3] >= 126 THEN [q EXCEPT !.len = 0, !.wsStatus = ST_LEN1]
       ELSE [q EXCEPT !.len = b[3], !.wsStatus = AfterLen(q)]
  ELSE IF p.wsStatus <= ST_LEN8
  THEN [p EXCEPT !.len = 256 * @ + b[2],
                 !.wsStatus = IF (p.len7 = 126 /\ @ = ST_LEN2) \/ @ = ST_LEN8 THEN AfterLen(p) ELSE @ + 1]
  ELSE [p EXCEPT !.mask[p.wsStatus - ST_MASK1 + 1] = b[2], !.wsStatus = @ + 1]

\* data[i + j] ^= mask[maskCtr++ & 3], for sl bytes from place at on.
Unmasked(ws, p, at, sl) ==
  [j \in 1 .. sl |->
     LET b == Wire(ws)[at + j]
         m == (p.maskCtr + j - 1) % 4
         right == IF ws[b[2]].masked = 1 THEN p.mask[m + 1] = b[2] /\ m = (b[3] - 1) % 4
                  ELSE p.mask[m + 1] = 0
     IN <<b[2], IF right THEN b[3] ELSE 0>>]

Given(p, bytes) ==
  [j \in DOMAIN bytes |-> <<"data", bytes[j], 1 - p.fin, IF p.op = "binary" THEN 1 ELSE 0>>]

\* What the payload that is there, data[i] to data[i + sl - 1], leads to; for
\* sl = 0 the callback is called too, with no bytes.
Handled(p, bytes) ==
  CASE p.op = "ping" ->
         IF p.len > 125 THEN IF p.frameCont = 1 THEN <<>> ELSE <<<<"close", "1002">>>>
         ELSE (IF p.frameCont = 1 THEN <<>> ELSE <<<<"pong", p.len>>>>)
              \o [j \in DOMAIN bytes |-> <<"echo", bytes[j]>>]
    [] p.op \in DataOps -> IF p.masked = 0 THEN <<<<"close", "1002">>>> ELSE Given(p, bytes)
    [] p.op = "close" -> <<<<"close", IF Len(bytes) >= 2 THEN "as asked" ELSE "any">>>>
    [] OTHER -> <<>>

Ends(p) == p.op = "close" \/ (p.op = "ping" /\ p.len > 125) \/ (p.op \in DataOps /\ p.masked = 0)

\* Mutant: the rest of a frame begins with the first byte of the mask again.
AfterPayloadRestartsMask(p, sl) ==
  [p EXCEPT !.len = @ - sl, !.maskCtr = 0,
            !.wsStatus = IF p.len = sl THEN ST_FLAGS ELSE @,
            !.frameCont = IF p.len = sl THEN @ ELSE 1]

\* fr.len and wsStatus after sl bytes of payload.
AfterPayload(p, sl) ==
  [p EXCEPT !.len = @ - sl, !.maskCtr = (@ + sl) % 256,
            !.wsStatus = IF p.len = sl THEN ST_FLAGS ELSE @,
            !.frameCont = IF p.len = sl THEN @ ELSE 1]

\* The server task calls cgiWebSocketRecv with the next n bytes.
Segment(n) ==
  /\ wopen = 1 /\ wat = wend /\ wend + n <= Len(Wire(wstream))
  /\ n <= MaxSegment \/ wend + n = Len(Wire(wstream))
  /\ wend' = wend + n
  /\ UNCHANGED <<wstream, wat, wfr, wout, wopen>>

\* One turn of the loop over data[i]: a byte of the head, then, if the head is
\* complete, all the payload that is there.
Turn ==
  /\ wopen = 1 /\ wat < wend
  /\ LET inHead == wfr.wsStatus # ST_PAYLOAD
         p == IF inHead THEN HeaderByte(wfr, Wire(wstream)[wat + 1]) ELSE wfr
         at == IF inHead THEN wat + 1 ELSE wat
         sl == IF wend - at < p.len THEN wend - at ELSE p.len
     IN IF p.wsStatus # ST_PAYLOAD THEN wfr' = p /\ wat' = at /\ UNCHANGED <<wout, wopen>>
        ELSE /\ wout' = wout \o Handled(p, Unmasked(wstream, p, at, sl))
             /\ wopen' = IF Ends(p) THEN 0 ELSE 1
             /\ wfr' = IF Ends(p) THEN p ELSE AfterPayload(p, sl)
             /\ wat' = IF Ends(p) THEN at ELSE at + sl
  /\ UNCHANGED <<wstream, wend>>

WsInit ==
  /\ wstream \in Streams
  /\ wat = 0 /\ wend = 0 /\ wfr = NoFrame /\ wout = <<>> /\ wopen = 1

WsNext == (\E n \in 1 .. Len(Wire(wstream)) : Segment(n)) \/ Turn

WsSpec == WsInit /\ [][WsNext]_wsVars

(***************************************************************************)
(* sendFrameHead                                                           *)
(***************************************************************************)

\* The bytes after the opcode for a payload of len bytes; up(n) is n >> 8.
sendFrameHead(len) ==
  LET low(n) == n % 256
      up(n) == n \div 256
  IN IF len > MaxShort
     THEN <<127, 0, 0, 0, 0, low(up(up(up(len)))), low(up(up(len))), low(up(len)), low(len)>>
     ELSE IF len > 125 THEN <<126, low(up(len)), low(len)>>
     ELSE <<len>>

(***************************************************************************)
(* Properties                                                              *)
(***************************************************************************)

WsTypeOK ==
  /\ wstream \in Streams /\ wat \in 0 .. wend /\ wend \in 0 .. Len(Wire(wstream)) /\ wopen \in 0 .. 1
  /\ wfr.wsStatus \in ST_FLAGS .. ST_PAYLOAD /\ wfr.len \in 0 .. MaxShort
  /\ wfr.maskCtr \in 0 .. 255 /\ wfr.frameCont \in 0 .. 1

\* The reference: the events of a frame of which `here' payload bytes arrived.
Events(ws, f, here) ==
  LET r == ws[f]
      byte(k) == <<f, k>>
  IN CASE r.op = "ping" ->
            IF r.len > 125 THEN <<<<"close", "1002">>>>
            ELSE <<<<"pong", r.len>>>> \o [k \in 1 .. here |-> <<"echo", byte(k)>>]
       [] r.op \in DataOps ->
            IF r.masked = 0 THEN <<<<"close", "1002">>>>
            ELSE [k \in 1 .. here |-> <<"data", byte(k), 1 - r.fin, IF r.op = "binary" THEN 1 ELSE 0>>]
       [] r.op = "close" -> <<<<"close", "any">>>>
       [] OTHER -> <<>>

Closes(ws, f) == LET e == Events(ws, f, 0) IN e # <<>> /\ e[1][1] = "close"

\* What the client was owed when n bytes of the stream had been handled.
Owed(ws, n) ==
  LET size(f) == Len(FrameHead(ws, f)) + ws[f].shown
      start[f \in 1 .. Len(ws)] == IF f = 1 THEN 0 ELSE start[f - 1] + size(f - 1)
      here(f) == LET k == n - start[f] - Len(FrameHead(ws, f)) IN IF k < ws[f].shown THEN k ELSE ws[f].shown
      live(f) == here(f) >= 0 /\ \A g \in 1 .. f - 1 : ~Closes(ws, g)
  IN FlattenSeq([f \in DOMAIN ws |-> IF live(f) THEN Events(ws, f, here(f)) ELSE <<>>])

\* Left open are the reason of a close, the echo of an unmasked ping and, before
\* the last byte of a final frame, the MORE flag: the code takes it from the frame
\* and cgiwebsocket.h:8 wants it on every part but the last.
Plain(ws, e) ==
  IF e[1] = "close" /\ e[2] # "1002" THEN <<"close", "any">>
  ELSE IF e[1] = "echo" /\ ws[e[2][1]].masked = 0 THEN <<"echo", <<e[2][1], 0>>>>
  ELSE IF e[1] = "data" /\ ws[e[2][1]].fin = 1 /\ e[2][2] < ws[e[2][1]].len
  THEN <<"data", e[2], "any", e[4]>>
  ELSE e

PlainAll(ws, s) == [k \in DOMAIN s |-> Plain(ws, s[k])]

\* Wherever the segments cut the heads, masks and payloads, the callback is
\* given exactly the data bytes of the frames, unmasked, in order, once and of
\* the kind of their frame, with MORE on all of a frame that is not final and
\* without it on the last byte of one that is; each ping is echoed, and the
\* first frame that the server refuses, or that closes, ends the reading.
FramesExact == PlainAll(wstream, wout) = PlainAll(wstream, Owed(wstream, wat))

\* A head of the server's own says the length of its payload in the shortest
\* form, at every boundary.
HeadsExact ==
  \A n \in SendLens :
    LET h == sendFrameHead(n)
        value[k \in 1 .. Len(h)] == IF k = 1 THEN 0 ELSE 256 * value[k - 1] + h[k]
    IN IF n <= 125 THEN h = <<n>>
       ELSE h[1] = (IF n <= MaxShort THEN 126 ELSE 127) /\ value[Len(h)] = n
            /\ Len(h) = (IF n <= MaxShort THEN 3 ELSE 9)

\* Violated: the close that is sent repeats the reason the client gave (the two
\* bytes are read past the segment when they have not arrived).
ReasonRepeated == \A k \in DOMAIN wout : wout[k] # <<"close", "any">>

\* Violated: "Set if the data is not the final data in the message; more
\* follows" (cgiwebsocket.h:8): the first part of a frame that is cut by a
\* segment is given without WEBSOCK_FLAG_MORE.
MoreMeansMore ==
  [][Len(wout') > Len(wout) /\ wout'[Len(wout')][1] = "data" /\ wfr'.wsStatus = ST_PAYLOAD
       => wout'[Len(wout')][3] = 1]_wsVars
=============================================================================
