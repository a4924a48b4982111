------------------------------ MODULE Template ------------------------------
(***************************************************************************)
(* Templates: cgiEspFsTemplate (src/core/httpd-espfs.c) and                *)
(* cgiEspVfsTemplate (src/util/esp32_httpd_vfs.c).  The server task calls  *)
(* the handler once per buffer of Chunk characters of the file; a token    *)
(* %name% may lie in two buffers, and the application's callback may ask   *)
(* to be called again for the same token, which makes the handler leave    *)
(* its loop and resume there at the next call.                             *)
(*                                                                         *)
(* Characters are "%", "b" (allowed in a token), "h" (an encoding prefix,  *)
(* html: or js:, as one character) and " " (not allowed in a token).  What *)
(* is sent is a sequence of <<"char", c>> and of <<"token", name, encoded, *)
(* n>> for the n-th call of the callback for a token.                      *)
(*                                                                         *)
(* The text of a call and what its callbacks write share one send buffer,  *)
(* which is flushed after the call.  httpdSend takes all of what it is     *)
(* given or nothing, and the loop ignores its result: what was refused is  *)
(* not offered again.                                                      *)
(***************************************************************************)
EXTENDS Integers, Sequences, SequencesExt

CONSTANTS Chunk,     \* FILE_CHUNK_LEN
          TokenMax,  \* sizeof(token) - 1
          MaxText,   \* bound: length of a file
          MaxMore,   \* bound: calls of the callback that return MORE
          Room,      \* what the send buffer takes of a call's output
          Writes     \* how much a call of the callback may write

ASSUME TemplateAssumption ==
  /\ Chunk \in Nat \ {0} /\ TokenMax \in Nat \ {0} /\ MaxText \in Nat /\ MaxMore \in Nat
  /\ Room \in Nat /\ Writes \subseteq Nat

VARIABLES tfs,    \* "espfs" or "vfs"
          ttext,  \* the file
          tpd,    \* TplData, and the position in the file
          tphase, \* "new", "more" (to be called again), or how it ended
          tout,   \* what was given to httpdSend and to the callback
          tlost,  \* the places of tout that httpdSend refused
          tmost,  \* the most that the callbacks wanted to write in one call
          theld,  \* the handler's own memory and file: allocated minus freed
          tnull,  \* calls of the callback with a NULL token
          tmores  \* MORE results so far

tplVars == <<tfs, ttext, tpd, tphase, tout, tlost, tmost, theld, tnull, tmores>>

Alphabet == {"%", "b", "h", " "}
Texts == UNION { [1 .. n -> Alphabet] : n \in 0 .. MaxText }

Char(c) == <<"char", c>>
Chars(s) == [i \in 1 .. Len(s) |-> Char(s[i])]

\* tokenPos is 1 + the number of collected characters, or 0 outside a token.
\* resume (chunk_resume) holds buff_x, the place to go on from, or 0.
NoTpl == [pos |-> 0, token |-> <<>>, enc |-> 0, buff |-> <<>>, e |-> 1, sp |-> 0,
          resume |-> 0, calls |-> 0, off |-> 0]

TplTypeOK ==
  /\ tfs \in {"espfs", "vfs"} /\ ttext \in Texts
  /\ tpd.pos \in 0 .. TokenMax + 1 /\ tpd.e \in 1 .. Chunk + 1 /\ tpd.sp \in 0 .. Chunk
  /\ tpd.resume \in 0 .. Chunk /\ tpd.off \in 0 .. MaxText /\ tpd.enc \in 0 .. 1
  /\ tphase \in {"new", "more", "notfound", "done", "aborted"}
  /\ theld \in [{"mem", "file"} -> 0 .. 1] /\ tnull \in 0 .. 2 /\ tmores \in 0 .. MaxMore
  /\ tlost \subseteq Nat /\ tmost \in Nat

TplInit ==
  /\ tfs \in {"espfs", "vfs"} /\ ttext \in Texts
  /\ tpd = NoTpl /\ tphase = "new" /\ tout = <<>> /\ tlost = {} /\ tmost = 0
  /\ theld = [mem |-> 0, file |-> 0] /\ tnull = 0 /\ tmores = 0

Released(h) == [h EXCEPT !.mem = @ - 1, !.file = @ - 1]

\* The first call: TplData is allocated and the file opened.
TplFirst ==
  /\ tphase = "new"
  /\ theld' = [mem |-> 1, file |-> 1] /\ tphase' = "more"
  /\ UNCHANGED <<tfs, ttext, tpd, tout, tlost, tmost, tnull, tmores>>

\* No memory, no such file, or a compressed one: what was taken is given back
\* and the next route is tried.
TplNotFound ==
  /\ tphase = "new"
  /\ tphase' = "notfound"
  /\ UNCHANGED <<tfs, ttext, tpd, tout, tlost, tmost, theld, tnull, tmores>>

\* The loop's state while it runs over one buffer: the TplData t, what is sent,
\* and whether the callback made it stop.
InText(s, x, c) ==
  IF c # "%" THEN [s EXCEPT !.t.sp = @ + 1]
  ELSE [s EXCEPT !.out = @ \o Chars(SubSeq(s.t.buff, s.t.e, s.t.e + s.t.sp - 1)),
                 !.t.sp = 0, !.t.pos = 1, !.t.token = <<>>]

\* Mutant: the start of the text after a bad token is not moved.
BackToTextKeepsE(s, x) == [s EXCEPT !.t.pos = 0, !.t.token = <<>>]

BackToText(s, x) == [s EXCEPT !.t.pos = 0, !.t.token = <<>>, !.t.e = x + 1]

\* The closing % of a token: the prefix is cut off once, the callback is
\* called, and when it returns MORE the place is kept.  (The vfs callback
\* returns nothing and knows no prefixes.)
CallBack(s, x, stop) ==
  LET first == s.t.calls = 0
      prefix == tfs = "espfs" /\ first /\ s.t.token[1] = "h"
      enc == IF ~first THEN s.t.enc ELSE IF prefix THEN 1 ELSE 0
      name == IF prefix THEN Tail(s.t.token) ELSE s.t.token
      sent == Append(s.out, <<"token", name, enc, s.t.calls>>)
  IN IF stop = x
     THEN [s EXCEPT !.out = sent, !.t.token = name, !.t.enc = enc, !.t.calls = @ + 1,
                    !.t.resume = x, !.stopped = 1]
     ELSE BackToText([s EXCEPT !.out = sent, !.t.enc = enc, !.t.calls = 0, !.t.resume = 0], x)

\* The second % of %% stands for itself.
Percented(s, x) == BackToText([s EXCEPT !.out = Append(@, Char("%"))], x)

Collected(s, c) == [s EXCEPT !.t.token = Append(@, c), !.t.pos = @ + 1]

\* espfs: at a character that cannot be in a token, what was collected is sent
\* as text.
Garbage(s, c) == s.t.pos > TokenMax \/ c = " "

InTokenEspFs(s, x, c, stop) ==
  IF c = "%" THEN IF s.t.pos = 1 THEN Percented(s, x) ELSE CallBack(s, x, stop)
  ELSE IF Garbage(s, c)
  THEN BackToText([s EXCEPT !.out = @ \o <<Char("%")>> \o Chars(s.t.token) \o <<Char(c)>>], x)
  ELSE Collected(s, c)

\* vfs: what does not fit is dropped.
InTokenVfs(s, x, c, stop) ==
  IF c = "%" THEN IF s.t.pos = 1 THEN Percented(s, x) ELSE CallBack(s, x, stop)
  ELSE IF s.t.pos > TokenMax THEN s ELSE Collected(s, c)

TplStep(s, x, stop) ==
  IF s.stopped = 1 THEN s
  ELSE IF s.t.pos = 0 THEN InText(s, x, s.t.buff[x])
  ELSE IF tfs = "espfs" THEN InTokenEspFs(s, x, s.t.buff[x], stop)
  ELSE InTokenVfs(s, x, s.t.buff[x], stop)

\* The buffer that the call works on: the next one, or the one it left.
Filled(t) ==
  IF t.resume > 0 THEN t
  ELSE LET n == IF Len(ttext) - t.off < Chunk THEN Len(ttext) - t.off ELSE Chunk IN
       [t EXCEPT !.buff = SubSeq(ttext, t.off + 1, t.off + n), !.off = @ + n,
                 !.e = 1, !.sp = 0]

\* The send buffer during a call: how much is in it, what of tout it refused, and
\* what the callbacks wrote.  The characters at first .. last of tout are offered.
Offer(b, first, last) ==
  IF b.fill + (last - first + 1) <= Room THEN [b EXCEPT !.fill = @ + (last - first + 1)]
  ELSE [b EXCEPT !.lost = @ \cup first .. last]

CallsBack(s, x) == s.stopped = 0 /\ s.t.pos > 1 /\ s.t.buff[x] = "%"

\* The step from s to r at place x: a callback that writes w, a bad token, which
\* is sent as its %, what was collected and the bad character, or a text.
Offered(b, s, r, x, w) ==
  LET n == Len(s.out)
      m == Len(r.out)
  IN IF CallsBack(s, x)
     THEN [b EXCEPT !.fill = IF @ + w <= Room THEN @ + w ELSE @, !.wrote = @ + w]
     ELSE IF s.t.pos > 0 /\ m > n + 1
     THEN Offer(Offer(Offer(b, n + 1, n + 1), n + 2, m - 1), m, m)
     ELSE Offer(b, n + 1, m)

SendStep(both, x, stop, w) ==
  LET r == TplStep(both.run, x, stop) IN
  [run |-> r, sent |-> Offered(both.sent, both.run, r, x, w[x])]

\* What becomes of the output of a call: of the loop's and of the remaining text.
Sent(start, xs, stop, w) ==
  LET both == FoldLeft(LAMBDA acc, x : SendStep(acc, x, stop, w),
                       [run |-> start, sent |-> [fill |-> 0, lost |-> tlost, wrote |-> 0]], xs)
      n == Len(both.run.out)
  IN IF both.run.stopped = 1 THEN both.sent ELSE Offer(both.sent, n + 1, n + both.run.t.sp)

\* One call: the loop over the buffer, then the remaining text, and the end of
\* the file when the buffer is not full.
TplCall ==
  /\ tphase = "more"
  /\ \E stop \in IF tfs = "espfs" /\ tmores < MaxMore THEN 0 .. Chunk ELSE {0} :
       LET t == Filled(tpd)
           from == IF tpd.resume > 0 THEN tpd.resume ELSE 1
           xs == [i \in 1 .. Len(t.buff) - from + 1 |-> from + i - 1]
           start == [t |-> t, out |-> tout, stopped |-> 0]
           s == FoldLeft(LAMBDA acc, x : TplStep(acc, x, stop), start, xs)
           rest == IF s.stopped = 1 THEN <<>>
                   ELSE Chars(SubSeq(t.buff, s.t.e, s.t.e + s.t.sp - 1))
           ends == s.stopped = 0 /\ Len(t.buff) # Chunk
       IN /\ stop # 0 => s.stopped = 1
          /\ tpd' = s.t /\ tout' = s.out \o rest
          /\ tmores' = tmores + s.stopped
          /\ tphase' = IF ends THEN "done" ELSE "more"
          /\ tnull' = IF ends THEN tnull + 1 ELSE tnull
          /\ theld' = IF ends THEN Released(theld) ELSE theld
          /\ \E w \in [{ x \in 1 .. Len(t.buff) : t.buff[x] = "%" } -> Writes] :
               LET sent == Sent(start, xs, stop, w) IN
               tlost' = sent.lost /\ tmost' = IF sent.wrote > tmost THEN sent.wrote ELSE tmost
          /\ UNCHANGED <<tfs, ttext>>

\* Mutant: the callback is not told of the end, and keeps its data.
TplAbortSilent ==
  /\ tphase = "more"
  /\ tphase' = "aborted" /\ theld' = Released(theld)
  /\ UNCHANGED <<tfs, ttext, tpd, tout, tlost, tmost, tnull, tmores>>

\* The connection broke: the callback is told, the file closed.
TplAbort ==
  /\ tphase = "more"
  /\ tphase' = "aborted" /\ theld' = Released(theld) /\ tnull' = tnull + 1
  /\ UNCHANGED <<tfs, ttext, tpd, tout, tlost, tmost, tmores>>

TplNext == TplFirst \/ TplNotFound \/ TplCall \/ TplAbort

TplSpec == TplInit /\ [][TplNext]_tplVars

(***************************************************************************)
(* Properties                                                              *)
(***************************************************************************)

\* The reference: what a text expands to, read as a whole from position i on.
\* A token ends at the first character that closes or breaks it; one that the
\* file does not close is left out.
Expand ==
  LET n == Len(ttext)
      Ends(i) == { j \in i + 1 .. n :
                     \/ ttext[j] = "%"
                     \/ tfs = "espfs" /\ (ttext[j] = " " \/ j - i > TokenMax) }
      name(i, j) == SubSeq(ttext, i + 1, IF j - 1 < i + TokenMax THEN j - 1 ELSE i + TokenMax)
      token(i, j) == LET w == name(i, j) IN
        IF tfs = "espfs" /\ w[1] = "h" THEN <<"token", Tail(w), 1, 0>> ELSE <<"token", w, 0, 0>>
      from[i \in 1 .. n + 1] ==
        IF i = n + 1 THEN <<>>
        ELSE IF ttext[i] # "%" THEN <<Char(ttext[i])>> \o from[i + 1]
        ELSE IF Ends(i) = {} THEN <<>>
        ELSE LET j == CHOOSE k \in Ends(i) : \A l \in Ends(i) : k <= l IN
             (IF ttext[j] # "%" THEN Chars(SubSeq(ttext, i, j))
              ELSE IF j = i + 1 THEN <<Char("%")>>
              ELSE <<token(i, j)>>) \o from[j + 1]
  IN from[1]

\* Repeated calls of the callback for one token, in one place, count as one.
Again(sent, i) ==
  /\ i > 1 /\ Len(sent[i]) = 4 /\ sent[i][4] > 0
  /\ sent[i - 1] = [sent[i] EXCEPT ![4] = @ - 1]

Merged(sent) ==
  FoldLeft(LAMBDA kept, i : IF Again(sent, i) THEN kept ELSE Append(kept, sent[i]),
           <<>>, [i \in 1 .. Len(sent) |-> i])

\* What is given to httpdSend and to the callback is at all times a part of the
\* expansion of the whole text, and all of it once the file was read to its end,
\* wherever the buffers cut the tokens and however often the callback asks to be
\* called again.  The client lacks a part of the text only where the callbacks
\* wrote more in a call than a buffer and a token leave of the send buffer:
\* the results of httpdSend are ignored.
ExpandsAsRead ==
  /\ IsPrefix(Merged(tout), Expand)
  /\ tphase = "done" => Merged(tout) = Expand
  /\ tmost + Chunk + TokenMax + 1 <= Room => tlost = {}

\* Memory and file are given back once, and the callback is told of the end
\* exactly once, for the application to free what it keeps in *arg.
TplReleased ==
  /\ tphase \in {"done", "aborted", "notfound"} => theld = [mem |-> 0, file |-> 0]
  /\ tnull = IF tphase \in {"done", "aborted"} THEN 1 ELSE 0
=============================================================================
