-------------------------------- MODULE Text --------------------------------
(***************************************************************************)
(* The conversions between a request's text and what handlers see:         *)
(* httpdUrlDecode, httpdFindArg, httpdGetHeader, httpdSend_html and        *)
(* httpdSend_js (src/core/httpd.c), and base64.  A call takes one of the   *)
(* inputs and leaves its result; characters are bytes.                     *)
(***************************************************************************)
EXTENDS Base64, FiniteSets

CONSTANTS Inputs,    \* the inputs of each function
          Sizes,    \* its buffer sizes; of httpdSend_html and _js, the send that fails
          ArgNames  \* the names that httpdFindArg looks for

Byte == 0 .. 255

\* A request's head is a sequence of lines, each a name and a value.
ASSUME TextAssumption ==
  /\ Inputs.decode \subseteq Seq(Byte) /\ Inputs.find \subseteq Seq(Byte \ {0})
  /\ Inputs.header \subseteq Seq(STRING \X Seq(Byte \ {0}))
  /\ Inputs.html \subseteq Seq(Byte) /\ Inputs.js \subseteq Seq(Byte)
  /\ Inputs.decode64 \subseteq Seq(0 .. Bad) /\ Inputs.encode64 \subseteq Seq(Byte)
  /\ Sizes.decode \subseteq Nat \ {0} /\ Sizes.find \subseteq Nat \ {0}
  /\ Sizes.header \subseteq Nat \ {0}
  /\ Sizes.html \subseteq Nat /\ Sizes.js \subseteq Nat
  /\ Sizes.decode64 \subseteq Nat /\ Sizes.encode64 \subseteq Nat
  /\ ArgNames \subseteq Seq(Byte \ {0})

VARIABLES xcall,   \* the call: the function and its arguments
          xresult  \* what it returns, or NoResult before it ran

textVars == <<xcall, xresult>>

NoResult == [ok |-> -2, out |-> <<>>]

Percent == 37
Plus == 43
Ampersand == 38
Equals == 61
LineEnd == {10, 13}

(***************************************************************************)
(* httpd.c                                                                 *)
(***************************************************************************)

httpdHexVal(c) ==
  IF c \in 48 .. 57 THEN c - 48 ELSE IF c \in 65 .. 70 THEN c - 55
  ELSE IF c \in 97 .. 102 THEN c - 87 ELSE 0

\* Mutant: room for the terminator is not kept.
HasRoomUnterminated(out, retLen) == Len(out) < retLen

HasRoom(out, retLen) == Len(out) < retLen - 1

\* The loop reads on while there is room for a character and the terminator.
DecodeByte(s, c, retLen) ==
  IF ~HasRoom(s.out, retLen) THEN s
  ELSE LET t == [s EXCEPT !.read = @ + 1] IN
       IF s.esced = 1 THEN [t EXCEPT !.escVal = 16 * httpdHexVal(c), !.esced = 2]
       ELSE IF s.esced = 2
       THEN [t EXCEPT !.out = Append(@, s.escVal + httpdHexVal(c)), !.esced = 0]
       ELSE IF c = Percent THEN [t EXCEPT !.esced = 1]
       ELSE [t EXCEPT !.out = Append(@, IF c = Plus THEN 32 ELSE c)]

\* ok: the whole input was read.
httpdUrlDecode(val, retLen) ==
  LET s == FoldLeft(LAMBDA acc, c : DecodeByte(acc, c, retLen),
                    [read |-> 0, esced |-> 0, escVal |-> 0, out |-> <<>>], val)
  IN [ok |-> IF s.read = Len(val) THEN 1 ELSE 0, out |-> s.out]

\* The place of the first & from p on, or 0.
NextAmpersand(line, p) ==
  LET at == { k \in p .. Len(line) : line[k] = Ampersand } IN
  IF at = {} THEN 0 ELSE CHOOSE k \in at : \A l \in at : k <= l

\* The loop over the arguments, from its last turn back to its first.  ok is
\* bytesWritten, which counts the terminator, or -1.
httpdFindArg(line, arg, buffLen) ==
  LET n == Len(line)
      find[p \in 1 .. n + 1] ==
        IF p = n + 1 \/ line[p] \in LineEnd THEN [ok |-> -1, out |-> <<>>]
        ELSE LET next == NextAmpersand(line, p)
                 eq == p + Len(arg)
             IN IF eq <= n /\ SubSeq(line, p, eq) = Append(arg, Equals)
                THEN LET amp == NextAmpersand(line, eq + 1)
                         e == IF amp = 0 THEN n ELSE amp - 1
                         value == httpdUrlDecode(SubSeq(line, eq + 1, e), buffLen).out
                     IN [ok |-> Len(value) + 1, out |-> value]
                ELSE IF next = 0 THEN [ok |-> -1, out |-> <<>>] ELSE find[next + 1]
  IN find[1]

\* lines are <<name, value>>; a name that occurs again is copied behind the
\* first one, over its terminator.
httpdGetHeader(lines, header, retLen) ==
  LET copy(acc, l) ==
        IF l[1] # header THEN acc
        ELSE LET room == retLen - Len(acc.out) - 1 IN
             [ok |-> 1, out |-> acc.out \o SubSeq(l[2], 1, IF Len(l[2]) < room THEN Len(l[2]) ELSE room)]
  IN FoldLeft(copy, [ok |-> 0, out |-> <<>>], lines)

\* The characters that are replaced; what stands for c is written 256 + c.
Special(fn) == IF fn = "html" THEN {34, 39, 60, 62} ELSE {34, 92, 39, 60, 62, 10, 13}

\* The text from start on goes out before an escape and at the end, in one
\* httpdSend each; the k-th send fails for k = fails, and nothing follows.
SendPart(s, part, fails) ==
  IF s.ok = 0 \/ part = <<>> THEN s
  ELSE IF s.sends + 1 = fails THEN [s EXCEPT !.ok = 0]
  ELSE [s EXCEPT !.out = @ \o part, !.sends = @ + 1]

EscapeStep(fn, data, s, end, fails) ==
  IF s.eos = 1 \/ data[end] = 0 THEN [s EXCEPT !.eos = 1]
  ELSE IF data[end] \notin Special(fn) THEN [s EXCEPT !.end = end + 1]
  ELSE LET t == SendPart(s, SubSeq(data, s.start, end - 1), fails) IN
       [SendPart(t, <<256 + data[end]>>, fails) EXCEPT !.start = end + 1, !.end = end + 1]

\* httpdSend_html and httpdSend_js.
httpdSend_escaped(fn, data, fails) ==
  LET s == FoldLeft(LAMBDA acc, end : EscapeStep(fn, data, acc, end, fails),
                    [ok |-> 1, sends |-> 0, out |-> <<>>, start |-> 1, end |-> 1, eos |-> 0],
                    [k \in 1 .. Len(data) |-> k])
      t == SendPart(s, SubSeq(data, s.start, s.end - 1), fails)
  IN [ok |-> IF data = <<>> THEN 0 ELSE t.ok, out |-> t.out]

(***************************************************************************)
(* Calls                                                                   *)
(***************************************************************************)

CallsOf(fn, args) == [fn : {fn}, in : Inputs[fn], arg : args, room : Sizes[fn]]

Calls ==
  CallsOf("find", ArgNames) \cup CallsOf("decode", {<<>>}) \cup CallsOf("header", {<<>>})
  \cup CallsOf("html", {<<>>}) \cup CallsOf("js", {<<>>})
  \cup CallsOf("decode64", {<<>>}) \cup CallsOf("encode64", {<<>>})

Result(c) ==
  CASE c.fn = "decode" -> httpdUrlDecode(c.in, c.room)
    [] c.fn = "find" -> httpdFindArg(c.in, c.arg, c.room)
    [] c.fn = "header" -> httpdGetHeader(c.in, "Cookie", c.room)
    [] c.fn \in {"html", "js"} -> httpdSend_escaped(c.fn, c.in, c.room)
    [] c.fn = "decode64" -> libesphttpd_base64_decode(c.in, c.room)
    [] c.fn = "encode64" -> libesphttpd_base64_encode(c.in, c.room)

TextInit == xcall \in Calls /\ xresult = NoResult
TextNext == xresult = NoResult /\ xresult' = Result(xcall) /\ UNCHANGED xcall

TextSpec == TextInit /\ [][TextNext]_textVars

(***************************************************************************)
(* Properties                                                              *)
(***************************************************************************)

\* What a call may write: its buffer, less the terminator where it writes one.
\* What is sent has no buffer, and no more parts than the text has characters.
RoomFor(c) ==
  IF c.fn \in {"html", "js"} THEN Len(c.in)
  ELSE IF c.fn = "decode64" \/ c.room = 0 THEN c.room ELSE c.room - 1

TextTypeOK ==
  /\ xcall \in Calls
  /\ xresult.ok \in IF xcall.fn = "find" THEN -2 .. xcall.room ELSE {-2, 0, 1}
  /\ Len(xresult.out) <= RoomFor(xcall)

Called(fn) == xcall.fn = fn /\ xresult # NoResult
Min2(a, b) == IF a < b THEN a ELSE b

\* A URL-encoded text, read from place i on: each + is a space, each % stands
\* for the byte of the two digits behind it, and one that is cut off for nothing.
Plainly(val) ==
  LET n == Len(val)
      from[i \in 1 .. n + 3] ==
        IF i > n THEN <<>>
        ELSE IF val[i] # Percent THEN <<IF val[i] = Plus THEN 32 ELSE val[i]>> \o from[i + 1]
        ELSE IF i + 2 > n THEN <<>>
        ELSE <<16 * httpdHexVal(val[i + 1]) + httpdHexVal(val[i + 2])>> \o from[i + 3]
  IN from[1]

\* The text ends in a % that lacks digits.
EscapeCut(val) ==
  LET n == Len(val)
      from[i \in 1 .. n + 3] ==
        IF i > n THEN FALSE
        ELSE IF val[i] # Percent THEN from[i + 1]
        ELSE i + 2 > n \/ from[i + 3]
  IN from[1]

\* What is decoded is the beginning of the whole text, as much as fits with the
\* terminator, and the call reports exactly whether that was all; but when the
\* buffer is full and only a % without its digits is left, which stands for
\* nothing, it reports that the text did not fit (httpd.h:173 says it did).
UrlDecoded ==
  Called("decode") =>
    LET full == Plainly(xcall.in) room == xcall.room - 1 IN
    /\ xresult.out = SubSeq(full, 1, Min2(Len(full), room))
    /\ xresult.ok \in {0, 1}
    /\ xresult.ok = 1 <=> Len(full) < room \/ (Len(full) = room /\ ~EscapeCut(xcall.in))

\* The places where a name may begin: the start, and behind each &.
Names == { k \in 1 .. Len(xcall.in) : k = 1 \/ xcall.in[k - 1] = Ampersand }

\* The argument that is found is the first one of that name, before an argument
\* that begins with the end of the line, and its decoded value is given, as much
\* of it as fits; an empty value is found too.
ArgFound ==
  Called("find") =>
    LET line == xcall.in arg == xcall.arg
        live == { k \in Names : \A j \in Names : j <= k => line[j] \notin LineEnd }
        hits == { k \in live : /\ k + Len(arg) <= Len(line)
                               /\ SubSeq(line, k, k + Len(arg)) = Append(arg, Equals) }
        from == (CHOOSE j \in hits : \A i \in hits : j <= i) + Len(arg) + 1
        ends == { j \in from .. Len(line) + 1 : j > Len(line) \/ line[j] = Ampersand }
        e == CHOOSE j \in ends : \A i \in ends : j <= i
        value == Plainly(SubSeq(line, from, e - 1))
    IN IF hits = {} THEN xresult.ok = -1
       ELSE /\ xresult.ok >= 0
            /\ xresult.out = SubSeq(value, 1, Min2(Len(value), xcall.room - 1))

\* A header's values are joined and cut where the buffer ends.
HeaderJoined ==
  Called("header") =>
    LET lines == xcall.in
        mine == { k \in DOMAIN lines : lines[k][1] = "Cookie" }
        all == FlattenSeq([k \in DOMAIN lines |-> IF k \in mine THEN lines[k][2] ELSE <<>>])
    IN /\ xresult.ok = IF mine = {} THEN 0 ELSE 1
       /\ xresult.out = SubSeq(all, 1, Min2(Len(all), xcall.room - 1))

\* Text up to its end, with each special character replaced and no other, is
\* sent; after a send that failed nothing follows, and the call reports it.
Escaped ==
  \A fn \in {"html", "js"} : Called(fn) =>
    LET data == xcall.in
        n == IF \E k \in DOMAIN data : data[k] = 0
             THEN (CHOOSE k \in DOMAIN data : data[k] = 0 /\ \A j \in 1 .. k - 1 : data[j] # 0) - 1
             ELSE Len(data)
        all == [k \in 1 .. n |-> IF data[k] \in Special(fn) THEN 256 + data[k] ELSE data[k]]
    IN IF xresult.ok = 1 THEN xresult.out = all
       ELSE data # <<>> => IsPrefix(xresult.out, all) /\ xresult.out # all

\* Encoding with room for it gives text of the right length, which decodes to
\* the same bytes, and decoding takes as many bytes as its digits hold.
RoundTrip ==
  /\ Called("encode64") =>
       LET n == Len(xcall.in) size == 4 * ((n + 2) \div 3) IN
       /\ xresult.ok = IF xcall.room > size THEN 1 ELSE 0
       /\ xresult.ok = 1 =>
            /\ Len(xresult.out) = size
            /\ libesphttpd_base64_decode(xresult.out, n).out = xcall.in
  /\ Called("decode64") =>
       LET digits == { k \in DOMAIN xcall.in :
                         xcall.in[k] < Pad /\ \A j \in 1 .. k : xcall.in[j] \notin {Pad, Bad} }
           size == (6 * Cardinality(digits)) \div 8
       IN IF size > xcall.room THEN xresult.ok = 0 ELSE xresult.ok = 1 /\ Len(xresult.out) = size

\* Violated: "returns the length of the result" (httpd.c:155): the terminator
\* is counted, so an argument without a value has length 1.
ArgLength == Called("find") /\ xresult.ok >= 0 => xresult.ok = Len(xresult.out)
=============================================================================
