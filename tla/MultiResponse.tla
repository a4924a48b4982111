---------------------------- MODULE MultiResponse ----------------------------
(***************************************************************************)
(* Responses that are longer than one httpdSend (src/util/cgi_common.c):   *)
(* cgiResponseCommonMulti sends a string in pieces of SENDBUFSIZE over     *)
(* several calls of the handler, keeps a cgiResp_state_t behind *statepp   *)
(* in between, and is to free the string and the state.  The handlers      *)
(* around it follow the example in the comment of                          *)
(* cgiJsonResponseCommonMulti: they make the string in the first call and  *)
(* clean up when the connection is closed.  A handler may also use the     *)
(* single-call form, which passes no statepp.                              *)
(***************************************************************************)
EXTENDS Integers, Sequences

CONSTANTS SendBufSize,  \* SENDBUFSIZE
          MaxString,    \* bound: length of a string
          Forms,        \* how the handler calls: subset of {"multi", "single"}
          NoPiece       \* a state pointer that is NULL

ASSUME MultiAssumption ==
  /\ SendBufSize \in Nat \ {0} /\ MaxString \in Nat
  /\ Forms \subseteq {"multi", "single"}

VARIABLES mform,   \* the form this handler uses
          mlen,    \* the length of the string it makes
          mstate,  \* the state behind *statepp, or NoPiece
          mphase,  \* "new", "more", or how the handler ended
          msent,   \* the pieces sent: <<first, last>> places in the string
          mheld,   \* strings and states allocated and not freed
          mrefused \* 1 once httpdSend had no room, 2 if calloc failed

mrVars == <<mform, mlen, mstate, mphase, msent, mheld, mrefused>>

\* toSendPosition and len_to_send.
RespState(pos, left) == [pos |-> pos, left |-> left]

MultiTypeOK ==
  /\ mform \in Forms /\ mlen \in 0 .. MaxString
  /\ mstate = NoPiece \/ mstate \in [pos : 1 .. MaxString + 1, left : 0 .. MaxString]
  /\ mphase \in {"new", "more", "done", "aborted"}
  /\ mheld \in [{"string", "state"} -> 0 .. 1]
  /\ mrefused \in 0 .. 2
  /\ \A i \in DOMAIN msent : msent[i] \in (1 .. MaxString) \X (1 .. MaxString)

MultiInit ==
  /\ mform \in Forms /\ mlen \in 0 .. MaxString
  /\ mstate = NoPiece /\ mphase = "new" /\ msent = <<>>
  /\ mheld = [string |-> 0, state |-> 0] /\ mrefused = 0

Smaller(a, b) == IF a < b THEN a ELSE b

\* Mutant: the state is freed, the string is not.
CleanupStateOnly(held, statepp) ==
  IF statepp = "NULL" THEN held ELSE [held EXCEPT !.state = @ - 1]

\* cgiResponseCommonMultiCleanup: without statepp there is nothing to free.
cgiResponseCommonMultiCleanup(held, statepp) ==
  IF statepp = "NULL" THEN held
  ELSE [held EXCEPT !.string = @ - 1, !.state = @ - 1]

\* Mutant: the position is not moved.
AfterSendStays(s, n, ok) ==
  IF ok THEN [s EXCEPT !.left = @ - n] ELSE [s EXCEPT !.left = 0]

\* When httpdSend has no room the rest is given up.
AfterSend(s, n, ok) ==
  IF ok THEN [s EXCEPT !.left = @ - n, !.pos = @ + n] ELSE [s EXCEPT !.left = 0]

\* One call of cgiResponseCommonMulti with the state s.
SendPiece(s, held, ok) ==
  LET n == Smaller(s.left, SendBufSize)
      t == IF s.left > 0 THEN AfterSend(s, n, ok) ELSE s
      statepp == IF mform = "single" THEN "NULL" ELSE "state"
      ends == t.left <= 0 \/ mform = "single"
  IN /\ msent' = IF s.left > 0 /\ ok THEN Append(msent, <<s.pos, s.pos + n - 1>>) ELSE msent
     /\ mrefused' = IF s.left > 0 /\ ~ok THEN 1 ELSE mrefused
     /\ mstate' = IF ends THEN NoPiece ELSE t
     /\ mheld' = IF ends THEN cgiResponseCommonMultiCleanup(held, statepp) ELSE held
     /\ mphase' = IF ends THEN "done" ELSE "more"
     /\ UNCHANGED <<mform, mlen>>

\* The first call: the JSON tree becomes a string, and the state is allocated.
MultiFirst(ok) ==
  /\ mphase = "new"
  /\ SendPiece(RespState(1, mlen), [string |-> 1, state |-> 1], ok)

\* calloc fails: the string is not freed either.
MultiNoMemory ==
  /\ mphase = "new"
  /\ mphase' = "done" /\ mheld' = [mheld EXCEPT !.string = 1] /\ mrefused' = 2
  /\ UNCHANGED <<mform, mlen, mstate, msent>>

MultiAgain(ok) ==
  /\ mphase = "more"
  /\ SendPiece(mstate, mheld, ok)

\* The connection broke: the handler calls the clean-up.
MultiAbort ==
  /\ mphase = "more"
  /\ mheld' = cgiResponseCommonMultiCleanup(mheld, "state")
  /\ mstate' = NoPiece /\ mphase' = "aborted"
  /\ UNCHANGED <<mform, mlen, msent, mrefused>>

MultiNext == (\E ok \in BOOLEAN : MultiFirst(ok) \/ MultiAgain(ok)) \/ MultiNoMemory \/ MultiAbort

MultiSpec == MultiInit /\ [][MultiNext]_mrVars

(***************************************************************************)
(* Properties                                                              *)
(***************************************************************************)

\* The pieces follow each other without gap or overlap from the start of the
\* string, and reach its end when the handler is done and nothing was refused;
\* the single-call form sends what fits in one piece.
SentInOrder ==
  /\ \A i \in DOMAIN msent :
       /\ msent[i][1] = IF i = 1 THEN 1 ELSE msent[i - 1][2] + 1
       /\ msent[i][2] \in msent[i][1] .. mlen
  /\ mphase = "done" /\ mrefused = 0 =>
       LET last == IF mform = "multi" THEN mlen ELSE Smaller(mlen, SendBufSize) IN
       IF mlen = 0 THEN msent = <<>> ELSE msent # <<>> /\ msent[Len(msent)][2] = last

\* "The string is freed when done": once the handler is done or the connection
\* closed, nothing is kept, except what the single-call form keeps, the string
\* and its state, and the string for which no state could be allocated.
StringFreed ==
  mphase \in {"done", "aborted"} =>
    mheld = CASE mrefused = 2 -> [string |-> 1, state |-> 0]
              [] mrefused # 2 /\ mform = "single" -> [string |-> 1, state |-> 1]
              [] mrefused # 2 /\ mform # "single" -> [string |-> 0, state |-> 0]
=============================================================================
