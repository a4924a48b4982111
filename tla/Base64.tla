------------------------------- MODULE Base64 -------------------------------
(***************************************************************************)
(* libesphttpd_base64_decode and libesphttpd_base64_encode                 *)
(* (src/core/libesphttpd_base64.c).  Bytes are numbers, digits are their   *)
(* values 0 .. 63, and the characters that are no digits are of three      *)
(* kinds.  Texts are of characters below 128: with a char that is signed,  *)
(* as on Linux, the others are looked up in front of the table.            *)
(***************************************************************************)
EXTENDS Integers, Sequences, SequencesExt

Pad == 64
Space == 65
Bad == 66

\* v is a uint32_t of which at most 14 bits are read: it is kept modulo 2^22.
Shifted(v, bits, add) == (v * 2 ^ bits + add) % 2 ^ 22
Bits(v, from, n) == (v \div 2 ^ from) % 2 ^ n

Emit(s, x, outLen) ==
  IF s.ok = 0 THEN s ELSE IF Len(s.out) >= outLen THEN [s EXCEPT !.ok = 0]
  ELSE [s EXCEPT !.out = Append(@, x)]

Decode64Step(s, ch, outLen) ==
  IF s.stop = 1 \/ s.ok = 0 \/ ch = Space THEN s
  ELSE IF ch \in {Pad, Bad} THEN [s EXCEPT !.stop = 1]
  ELSE LET t == [s EXCEPT !.v = Shifted(@, 6, ch), !.rem = @ + 6] IN
       IF t.rem < 8 THEN t
       ELSE Emit([t EXCEPT !.rem = @ - 8], Bits(t.v, t.rem - 8, 8), outLen)

Code64 == [v |-> 0, rem |-> 0, out |-> <<>>, ok |-> 1, stop |-> 0]

\* ok is 0 where the code returns -1.
libesphttpd_base64_decode(in, outLen) ==
  LET s == FoldLeft(LAMBDA acc, ch : Decode64Step(acc, ch, outLen), Code64, in)
  IN [ok |-> s.ok, out |-> IF s.ok = 1 THEN s.out ELSE <<>>]

\* while (rem >= 6): one or two digits.
Encode64Step(s, ch, outLen) ==
  LET t == [s EXCEPT !.v = Shifted(@, 8, ch), !.rem = @ + 8]
      digit(u) == IF u.rem < 6 THEN u
                  ELSE Emit([u EXCEPT !.rem = @ - 6], Bits(u.v, u.rem - 6, 6), outLen)
  IN digit(digit(t))

libesphttpd_base64_encode(in, outLen) ==
  LET s == FoldLeft(LAMBDA acc, ch : Encode64Step(acc, ch, outLen), Code64, in)
      t == IF s.rem = 0 THEN s ELSE Emit(s, Bits(Shifted(s.v, 6 - s.rem, 0), 0, 6), outLen)
      pads == [k \in 1 .. (4 - (Len(t.out) % 4)) % 4 |-> Pad]
      u == FoldLeft(LAMBDA acc, x : Emit(acc, x, outLen), t, pads)
      ok == IF u.ok = 1 /\ Len(u.out) < outLen THEN 1 ELSE 0
  IN [ok |-> ok, out |-> IF ok = 1 THEN u.out ELSE <<>>]
=============================================================================
