----------------------------- MODULE HttpdConn -----------------------------
(***************************************************************************)
(* One connection of the HTTP core (core/httpd.c): the callbacks the       *)
(* platform layer makes, as operators from a connection to the connections *)
(* it may become.  A connection is the HttpdConnData and the RtosConnType  *)
(* around it (include/libesphttpd/httpd-freertos.h).  The handlers (CGIs)  *)
(* are the application's: any choice they may make is a member of the set. *)
(***************************************************************************)
EXTENDS Integers

CONSTANTS
  MaxPost,      \* HTTPD_MAX_POST_LEN
  PostLens,     \* Content-Length values clients send
  LengthLines,  \* how many Content-Length lines a head has
  Versions,     \* the values httpdParseHeader gives the flags
  EarlyDone,    \* 1: handlers may return DONE before the body is received
  SilentDone,   \* 1: handlers may return DONE without sending anything
  MallocFails   \* 1: the allocation of a POST buffer may fail

ASSUME PostAssumption ==
  MaxPost \in Nat \ {0} /\ PostLens \subseteq Nat /\ LengthLines \subseteq Nat
ASSUME VersionAssumption == Versions \subseteq SUBSET {"CHUNKED"}
ASSUME SwitchAssumption ==
  EarlyDone \in 0..1 /\ SilentDone \in 0..1 /\ MallocFails \in 0..1

Flags == {"CHUNKED", "SENDINGBODY", "DISCONAFTERSENT"}   \* HFL_...
Handlers == {"handler", "cgiNotFound"}

(* What went wrong in a connection's life; history only.  "length twice"   *)
(* is the client's doing, the others are the server's.                     *)
Faults == {"called again", "freed twice", "closed twice", "given twice",
           "length twice", "buffer lost"}

Conn == [
  fd         : {"none", "open"},    \* rconn->fd # -1
  notif      : 0..1,                \* rconn->needWriteDoneNotif
  needsClose : 0..1,                \* rconn->needsClose
  closed     : 0..1,                \* isConnectionClosed
  url        : {"NULL", "set"},     \* url
  len        : Int,                 \* post.len, -1 while reading headers
  buff       : {"NULL", "heap"},    \* post.buff
  buffSize   : Nat,                 \* post.buffSize
  buffLen    : Nat,                 \* post.buffLen
  received   : Nat,                 \* post.received
  flags      : SUBSET Flags,        \* priv.flags
  cgi        : {"NULL"} \cup Handlers,
  cgiData    : {"NULL", "live", "freed"},  \* what cgiData points at
  out        : 0..1,                \* priv.sendBuffLen > 0
  answered   : 0..1,                \* history: the handler returned DONE
  faults     : SUBSET Faults ]      \* history

(* httpdConnectCb, after the platform filled in the slot for a new socket. *)
Connected == [
  fd |-> "open", notif |-> 0, needsClose |-> 0, closed |-> 0, url |-> "NULL",
  len |-> -1, buff |-> "NULL", buffSize |-> 0, buffLen |-> 0, received |-> 0,
  flags |-> {}, cgi |-> "NULL", cgiData |-> "NULL", out |-> 0,
  answered |-> 0, faults |-> {} ]

httpdConnectCb(c) == [Connected EXCEPT !.faults = c.faults \ {"closed twice"}]

-----------------------------------------------------------------------------
(* httpdFlushSendBuffer: httpdPlatSendData asks for a write notification.  *)
Chunking(c) == "CHUNKED" \in c.flags /\ "SENDINGBODY" \in c.flags

httpdFlushSendBuffer(c) ==
  IF c.out = 1 \/ (Chunking(c) /\ c.cgi = "NULL")
  THEN [c EXCEPT !.notif = 1, !.out = 0]
  ELSE c

(* Mutants: the handler stays set; the count of body bytes is not reset.   *)
CgiIsDoneKeepsCgi(c) ==
  [c EXCEPT !.flags = @ \cup {"DISCONAFTERSENT"}]
CgiIsDoneKeepsReceived(c) ==
  IF "CHUNKED" \in c.flags
  THEN [httpdFlushSendBuffer([c EXCEPT !.cgi = "NULL"]) EXCEPT
          !.len = -1, !.flags = {}, !.buff = "NULL", !.buffLen = 0]
  ELSE [c EXCEPT !.cgi = "NULL", !.flags = @ \cup {"DISCONAFTERSENT"}]

httpdCgiIsDone(c) ==
  IF "CHUNKED" \in c.flags
  THEN [httpdFlushSendBuffer([c EXCEPT !.cgi = "NULL"]) EXCEPT
          !.len = -1, !.flags = {}, !.buff = "NULL",
          !.buffLen = 0, !.received = 0]
  ELSE [c EXCEPT !.cgi = "NULL", !.flags = @ \cup {"DISCONAFTERSENT"}]

-----------------------------------------------------------------------------
(* Calls of the handler conn->cgi.  A handler keeps its state in cgiData   *)
(* from its first HTTPD_CGI_MORE and frees it when it returns DONE; it     *)
(* sends nothing before it has the whole body; cgiNotFound keeps no state. *)

BodyComplete(c) == c.received = c.len

(* The call itself, in the history.                                        *)
Call(c) == [c EXCEPT !.faults = @ \cup
             (IF c.answered = 1 THEN {"called again"} ELSE {})]

Speak(c) == [c EXCEPT !.out = 1, !.flags = @ \cup {"SENDINGBODY"}]

MayReturnMore(c) ==
  CASE c.cgi = "cgiNotFound" -> IF BodyComplete(c) THEN {} ELSE {c}
    [] OTHER ->
       LET m == [c EXCEPT !.cgiData = "live"]
       IN {m} \cup (IF BodyComplete(c) THEN {Speak(m)} ELSE {})

MayReturnDone(c) ==
  LET d == [c EXCEPT !.answered = 1,
              !.cgiData = IF @ = "live" THEN "freed" ELSE @]
  IN CASE c.cgi = "cgiNotFound" -> IF BodyComplete(c) THEN {Speak(d)} ELSE {}
       [] OTHER ->
            IF BodyComplete(c) \/ EarlyDone = 1
            THEN {Speak(d)} \cup (IF SilentDone = 1 THEN {d} ELSE {})
            ELSE {}

(* What the core does with the two answers.                                *)
AfterCall(c) == MayReturnMore(Call(c))
                  \cup {httpdCgiIsDone(d) : d \in MayReturnDone(Call(c))}

(* The call with isConnectionClosed set: the handler frees its state.      *)
CallClosed(c) ==
  IF c.cgi # "handler" THEN [Call(c) EXCEPT !.answered = 1]
  ELSE [Call(c) EXCEPT
          !.answered = 1,
          !.cgiData = IF @ = "live" THEN "freed" ELSE @,
          !.faults = @ \cup (IF c.cgiData = "freed"
                             THEN {"freed twice"} ELSE {})]

-----------------------------------------------------------------------------
(* httpdProcessRequest: the first matching route whose handler does not    *)
(* decline, or cgiNotFound at the end of the table.                        *)
Dispatch(c, h) ==
  [c EXCEPT !.cgi = h, !.cgiData = IF h = "handler" THEN "NULL" ELSE @]

httpdProcessRequest(c) ==
  IF c.url = "NULL" THEN {c}
  ELSE UNION { {httpdFlushSendBuffer(d) : d \in AfterCall(Dispatch(c, h))}
                 : h \in Handlers }

-----------------------------------------------------------------------------
(* httpdRecvCb, one byte at a time, in the three modes of post.len.        *)
ReadsHeader(c) == c.len < 0
ReadsBody(c) == c.len > 0 /\ c.buff = "heap"

(* The byte that completes the headers: httpdParseHeader on every line.    *)
(* Each Content-Length line allocates the buffer anew, even for length     *)
(* zero, over the pointer the line before it left; the result of a failed  *)
(* allocation is ignored.  Of several lines the last gives the length n;   *)
(* without one the size of the last buffer stays and is not used.          *)
Malloc == {"heap"} \cup (IF MallocFails = 1 THEN {"NULL"} ELSE {})

(* Whether the k lines overwrite the pointer to an allocated buffer.       *)
Overwrites(c, k) ==
  IF k >= 1 /\ c.buff = "heap" THEN {TRUE}
  ELSE IF k >= 2 THEN {b = "heap" : b \in Malloc}
  ELSE {FALSE}

Marks(k, lost) ==
  (IF k >= 2 THEN {"length twice"} ELSE {})
    \cup (IF lost THEN {"buffer lost"} ELSE {})

Pointers(c, k) == IF k = 0 THEN {c.buff} ELSE Malloc

Allocated(c, k) ==
  UNION { { [c EXCEPT !.buff = b, !.faults = c.faults \cup Marks(k, lost)]
              : b \in Pointers(c, k) } : lost \in Overwrites(c, k) }

(* Mutant: a byte too few is allocated.                                    *)
ParsedShortBuffer(c, n, version, line) ==
  [c EXCEPT !.len = n, !.url = line, !.flags = @ \cup version,
            !.buffSize = (IF n > MaxPost THEN MaxPost ELSE n) - 1,
            !.buffLen = 0, !.answered = 0]

Parsed(c, n, version, line) ==
  [c EXCEPT !.len = n, !.url = line, !.flags = @ \cup version,
            !.buffSize = IF n > MaxPost THEN MaxPost ELSE n,
            !.buffLen = 0, !.answered = 0]

RecvHeaderEnd(c, n, k, version, line) ==
  UNION { LET p == Parsed(a, n, version, line)
          IN IF n = 0 THEN httpdProcessRequest(p) ELSE {p}
            : a \in Allocated(c, k) }

(* A body byte; the handler is called when the buffer or the body is full. *)
Stored(c) == [c EXCEPT !.buffLen = @ + 1, !.received = @ + 1]

(* Mutants: the buffer is not emptied after the call; it is filled past    *)
(* its end.                                                                *)
RecvBodyByteKeepsBuffer(c) ==
  LET b == Stored(c)
  IN IF b.buffLen >= b.buffSize \/ b.received = b.len
     THEN IF b.cgi # "NULL" THEN AfterCall(b) ELSE httpdProcessRequest(b)
     ELSE {b}
RecvBodyByteOverfull(c) ==
  LET b == Stored(c)
  IN IF b.buffLen > b.buffSize \/ b.received = b.len
     THEN { [r EXCEPT !.buffLen = 0] :
              r \in IF b.cgi # "NULL" THEN AfterCall(b)
                    ELSE httpdProcessRequest(b) }
     ELSE {b}

RecvBodyByte(c) ==
  LET b == Stored(c)
  IN IF b.buffLen >= b.buffSize \/ b.received = b.len
     THEN { [r EXCEPT !.buffLen = 0] :
              r \in IF b.cgi # "NULL" THEN AfterCall(b)
                    ELSE httpdProcessRequest(b) }
     ELSE {b}

-----------------------------------------------------------------------------
(* httpdContinue, also reached through httpdSentCb.  A handler that is     *)
(* called here while part of a body is buffered sees these bytes now and   *)
(* again when the buffer is full.                                          *)
CalledMidBuffer(c) ==
  [c EXCEPT !.out = 0, !.faults = @ \cup
     (IF c.buffLen > 0 THEN {"given twice"} ELSE {})]

(* Mutant: no write notification is asked for, so needsClose is not seen.  *)
ContinueWithoutNotif(c) ==
  IF "DISCONAFTERSENT" \in c.flags THEN {[c EXCEPT !.needsClose = 1]}
  ELSE IF c.cgi = "NULL" THEN {c}
  ELSE {httpdFlushSendBuffer(d) : d \in AfterCall(CalledMidBuffer(c))}

httpdContinue(c) ==
  IF "DISCONAFTERSENT" \in c.flags
  THEN {[c EXCEPT !.needsClose = 1, !.notif = 1]}       \* httpdPlatDisconnect
  ELSE IF c.cgi = "NULL" THEN {c}
  ELSE {httpdFlushSendBuffer(d) : d \in AfterCall(CalledMidBuffer(c))}

-----------------------------------------------------------------------------
(* httpdDisconCb, httpdRetireConn and the close of the socket:             *)
(* closeConnection of core/httpd-freertos.c.                               *)
(* Mutant: the handler is not told of the close.                           *)
DisconCbSilent(c) ==
  [c EXCEPT !.closed = 1, !.buff = "NULL", !.faults = @ \cup
     (IF c.closed = 1 THEN {"closed twice"} ELSE {})]

httpdDisconCb(c) ==
  LET d == [c EXCEPT !.closed = 1, !.faults = @ \cup
              (IF c.closed = 1 THEN {"closed twice"} ELSE {})]
  IN [(IF d.cgi # "NULL" THEN CallClosed(d) ELSE d) EXCEPT !.buff = "NULL"]

(* Mutant: the descriptor is closed but not forgotten.                     *)
CloseKeepsFd(c) == httpdDisconCb(c)

closeConnection(c) == [httpdDisconCb(c) EXCEPT !.fd = "none"]
=============================================================================
