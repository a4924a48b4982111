--------------------------- MODULE MCHttpdServer ---------------------------
(* Values for HttpdServer's constants.  A POST buffer of two bytes and     *)
(* bodies of up to five make a body arrive in no call, in one or in three. *)
EXTENDS HttpdServer

Zero == {0}
ZeroOrOne == {0, 1}
BothVersions == SUBSET {"CHUNKED"}
Http10 == {{}}
Http11 == {{"CHUNKED"}}
Bodies == {0, 1, 5}
ShortBodies == {0, 2}
LongBodies == {0, 5}
NoBody == {0}
OneLine == {1}
UpToTwo == {0, 1, 2}
=============================================================================
