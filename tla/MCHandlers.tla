----------------------------- MODULE MCHandlers -----------------------------
(* Handlers for TLC: the names, patterns and lengths that cannot be written *)
(* in the configuration.                                                    *)
EXTENDS Handlers

Words(S, n) == UNION { [1 .. k -> S] : k \in 0 .. n }

\* %, +, 1, F and z; a, 1, =, &, % and the end of a line; a zero, quotes and a;
\* digits of base64, =, a space and a character that is none; bytes.
MCInputs ==
  [decode |-> Words({37, 43, 49, 70, 122}, 4),
   find |-> Words({97, 61, 38, 37}, 5) \cup Words({97, 49, 61, 38, 13, 43}, 4)
            \cup { <<97, 97>> \o w : w \in Words({61, 37, 49, 38}, 4) },
   header |-> Words({"Host", "Cookie"} \X Words({97}, 2), 3),
   html |-> Words({0, 34, 60, 92, 97}, 4), js |-> Words({0, 34, 60, 92, 97}, 4),
   decode64 |-> Words({0, 21, 63, Pad, Space, Bad}, 4),
   encode64 |-> Words({0, 90, 255}, 4)]

MCSizes ==
  [decode |-> 1 .. 4, find |-> 1 .. 3, header |-> 1 .. 5, html |-> 0 .. 3, js |-> 0 .. 3,
   decode64 |-> 0 .. 3, encode64 |-> 0 .. 9]

MCArgNames == { <<97>>, <<97, 97>> }

MCDnsNames == { <<<<97>>>>, <<<<98, 99>>, <<97>>>> }

MCPatterns == { <<"/", "*">>, <<"/", "a">>, <<"/", "a", "/", "*">> }
MCUrls == { <<"/">>, <<"/", "a">>, <<"/", "a", "b">>, <<"/", "a", "/", "b">>,
           <<"/", "a", "/", "/", "b">>, <<"/", "*", "b">> }

\* The users u, with the password p, and uv, with none.
MCUserPw == <<<<<<117>>, <<112>>>>, <<<<117, 118>>, <<>>>>>>

\* In base64: nothing, u:p, uv:, u:, up:, u:p and a zero, u: and a zero, u:p and
\* three zeroes, seven zeroes, and too much.
MCCodes ==
  { <<>>, <<29, 19, 41, 48>>, <<29, 23, 24, 58>>, <<29, 19, 40, 64>>, <<29, 23, 0, 58>>,
    <<29, 19, 41, 48, 0, 0>>, <<29, 19, 40, 0>>, <<29, 19, 41, 48, 0, 0, 0, 0>>,
    <<0, 0, 0, 0, 0, 0, 0, 0, 0, 0>>, <<0, 0, 0, 0, 0, 0, 0, 0, 0, 0, 0, 0>> }

MCAuthHeaders ==
  { [scheme |-> s, code |-> <<>>] : s \in {"other", "bare"} }
  \cup { [scheme |-> "Basic", code |-> c] : c \in MCCodes }

MCFrame(op, fin, masked, ext, len, shown) ==
  [op |-> op, fin |-> fin, masked |-> masked, ext |-> ext, len |-> len, shown |-> shown]

\* Frames of every kind, whole, and two that the end of the stream cuts off.
MCFrames ==
  { MCFrame(op, 1, 1, e[1], e[2], e[2]) :
      op \in Ops, e \in {<<0, 0>>, <<0, 2>>, <<0, 5>>, <<2, 1>>, <<8, 2>>} }
  \cup { MCFrame("text", 0, 1, 0, 5, 5), MCFrame("ping", 1, 0, 0, 1, 1), MCFrame("other", 1, 0, 0, 1, 1),
         MCFrame("text", 1, 0, 0, 1, 1), MCFrame("close", 1, 0, 0, 2, 2), MCFrame("ping", 1, 1, 2, 126, 126),
         MCFrame("binary", 1, 1, 2, 258, 3), MCFrame("ping", 1, 1, 0, 125, 4) }

MCSendLens == {0, 1, 125, 126, 127, 255, 256, 65535, 65536, 16777216, 2147483647}
=============================================================================
