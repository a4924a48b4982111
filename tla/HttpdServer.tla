---------------------------- MODULE HttpdServer ----------------------------
(***************************************************************************)
(* The server task of core/httpd-freertos.c over its slots of connections, *)
(* its clients, and the application task that calls httpdContinue.  The    *)
(* callbacks of HttpdConn run under the httpd mutex, so each is one step,  *)
(* but httpdRecvCb, which keeps the mutex from its first byte to its flush *)
(* and is one step per byte.                                               *)
(***************************************************************************)
EXTENDS HttpdConn, FiniteSets

CONSTANTS
  MaxConn,      \* maxConnections
  Pipelining,   \* 1: clients send requests before the last is answered
  BadRequests,  \* 1: clients send heads without a request line, or too long
  StaleFdIsSet, \* values of FD_ISSET(-1, &readset): undefined in C
  SslPending,   \* values of SSL_has_pending; {0} without SSL
  AppTask       \* 1: the application resumes handlers with httpdContinue

ASSUME SlotAssumption == MaxConn \in Nat \ {0}
ASSUME EnvironmentAssumption ==
  /\ Pipelining \in 0..1 /\ BadRequests \in 0..1 /\ AppTask \in 0..1
  /\ StaleFdIsSet \subseteq 0..1 /\ SslPending \subseteq 0..1

Slots == 1..MaxConn

VARIABLES
  conn,      \* rconn[]: [Slots -> Conn]
  client,    \* where the client of a slot is in its request
  pc,        \* where the server task is
  idx,       \* idxCheckConnection
  readset,   \* what recv will find on each slot select reported readable
  writeset,  \* slots select reported writable
  segment,   \* httpdRecvCb's loop: "first", "more", "break" or "error"
  shutdown   \* httpdShutdown: "no", "requested", "sent", "seen", "down"

taskVars == <<pc, idx, readset, writeset, segment>>
vars == <<conn, client, taskVars, shutdown>>

Client == [phase : {"header", "body", "wait"}, owes : Nat]
FreshClient == [phase |-> "header", owes |-> 0]

Init ==
  /\ conn = [s \in Slots |-> [Connected EXCEPT !.fd = "none", !.closed = 1]]
  /\ client = [s \in Slots |-> FreshClient]
  /\ pc = "select" /\ idx = 1
  /\ readset = [s \in Slots |-> "no"] /\ writeset = {}
  /\ segment = "first"
  /\ shutdown = "no"

Open == {s \in Slots : conn[s].fd = "open"}
Free == Slots \ Open

-----------------------------------------------------------------------------
(* The clients.  One that has sent its request waits for the response (a   *)
(* chunked one leaves the connection ready for the next request), unless   *)
(* it pipelines.                                                           *)
MaySend(s) ==
  \/ client[s].phase # "wait"
  \/ conn[s].len < 0
  \/ Pipelining = 1

(* What it sends then begins a request, and it has read all that was sent  *)
(* to it before: its socket is writable.                                   *)
BeginsRequest(s) == conn[s].len < 0 /\ Pipelining = 0

(* The client after its next byte.                                         *)
NextByte(k) ==
  CASE k.phase = "body" /\ k.owes > 1 -> [k EXCEPT !.owes = @ - 1]
    [] k.phase = "body" /\ k.owes <= 1 -> [phase |-> "wait", owes |-> 0]
    [] OTHER -> [phase |-> "header", owes |-> 0]

(* The client after the last byte of a head that announces n body bytes.   *)
HeadSent(n) ==
  [phase |-> IF n > 0 THEN "body" ELSE "wait", owes |-> n]

-----------------------------------------------------------------------------
(* platHttpServerTaskProcess.                                              *)

(* The fd_sets are built from the slots; writeset is what select watches.  *)
BuildFdSets ==
  /\ pc = "select" /\ shutdown \notin {"seen", "down"}
  /\ writeset' = {s \in Open : conn[s].notif = 1}
  /\ pc' = "blocked"
  /\ UNCHANGED <<conn, client, idx, readset, segment, shutdown>>

(* The listening socket is watched only while a slot is free.              *)
NewClientsAlways == 0..1     \* mutant: it is always watched
NewClients == IF Free # {} THEN 0..1 ELSE {0}

(* select returns (selectTimeoutData is NULL: it has no timeout).  It does *)
(* not see what other tasks change in the slots meanwhile.  Of a readable  *)
(* socket recv gets data, or the end: the client went away.                *)
Read == {"no", "data", "end"}

Select ==
  /\ pc = "blocked"
  /\ \E r \in [Slots -> Read], w \in SUBSET writeset, new \in NewClients :
       /\ \A s \in Slots :
            /\ r[s] # "no" => s \in Open
            /\ r[s] = "data" =>
                 MaySend(s) /\ (BeginsRequest(s) /\ s \in writeset => s \in w)
       /\ \/ \E s \in Slots : r[s] # "no"
          \/ w # {} \/ new = 1 \/ shutdown = "sent"
       /\ readset' = r /\ writeset' = w
       /\ pc' = IF new = 1 THEN "accept" ELSE "sent"
  /\ shutdown' = IF shutdown = "sent" THEN "seen" ELSE shutdown
  /\ UNCHANGED <<conn, client, idx, segment>>

(* accept into the first free slot; accept or SSL_accept may fail, which   *)
(* abandons this pass.                                                     *)
FirstSlot == 1     \* mutant: the slot is not looked for
FirstFree == CHOOSE s \in Free : \A t \in Free : s <= t

EndOfPassNever == "select"     \* mutant: the shutdown flag is not tested
EndOfPass == IF shutdown = "seen" THEN "deinit" ELSE "select"

Accept ==
  /\ pc = "accept"
  /\ \/ /\ conn' = [conn EXCEPT ![FirstFree] = httpdConnectCb(@)]
        /\ client' = [client EXCEPT ![FirstFree] = FreshClient]
        /\ pc' = "sent"
     \/ /\ pc' = EndOfPass
        /\ UNCHANGED <<conn, client>>
  /\ UNCHANGED <<idx, readset, writeset, segment, shutdown>>

Advance ==
  IF idx < MaxConn THEN pc' = "sent" /\ idx' = idx + 1
                   ELSE pc' = EndOfPass /\ idx' = 1

(* Under SSL the read is repeated while data is pending, even on a slot    *)
(* that was just closed.                                                   *)
AfterRead ==
  \/ 0 \in SslPending /\ Advance
  \/ 1 \in SslPending /\ pc' = "pending" /\ idx' = idx

(* The writable half of a slot's turn.                                     *)
SkipEmpty ==
  /\ pc = "sent" /\ conn[idx].fd = "none"
  /\ Advance
  /\ UNCHANGED <<conn, client, readset, writeset, segment, shutdown>>

Sent ==
  /\ pc = "sent" /\ conn[idx].fd = "open"
  /\ pc' = "read"
  /\ IF conn[idx].notif = 1 /\ idx \in writeset
     THEN LET c == [conn[idx] EXCEPT !.notif = 0]
          IN \E d \in (IF c.needsClose = 1 THEN {closeConnection(c)}
                                           ELSE httpdContinue(c)) :
               conn' = [conn EXCEPT ![idx] = d]
     ELSE UNCHANGED conn
  /\ UNCHANGED <<client, idx, readset, writeset, segment, shutdown>>

(* The readable half: FD_ISSET(pRconn->fd, &readset), where the writable   *)
(* half may just have closed the slot (fd = -1).                           *)
NotReadable ==
  /\ pc = "read"
  /\ IF conn[idx].fd = "open" THEN readset[idx] = "no" ELSE 0 \in StaleFdIsSet
  /\ Advance
  /\ UNCHANGED <<conn, client, readset, writeset, segment, shutdown>>

ReadStale ==
  /\ pc = "read" /\ conn[idx].fd = "none" /\ 1 \in StaleFdIsSet
  /\ conn' = [conn EXCEPT ![idx] = closeConnection(@)]
  /\ Advance
  /\ UNCHANGED <<client, readset, writeset, segment, shutdown>>

(* recv returns 0 or an error.                                             *)
ReadEnd ==
  /\ pc = "read" /\ conn[idx].fd = "open" /\ readset[idx] = "end"
  /\ conn' = [conn EXCEPT ![idx] = closeConnection(@)]
  /\ AfterRead
  /\ UNCHANGED <<client, readset, writeset, segment, shutdown>>

(* recv returns data: httpdRecvCb takes the lock.                          *)
ReadData ==
  /\ pc = "read" /\ conn[idx].fd = "open" /\ readset[idx] = "data"
  /\ conn' = [conn EXCEPT ![idx].out = 0]
  /\ pc' = "recv" /\ segment' = "first"
  /\ UNCHANGED <<client, idx, readset, writeset, shutdown>>

-----------------------------------------------------------------------------
(* httpdRecvCb's loop.                                                     *)
MoreToCome(s) == client[s].phase # "wait" \/ Pipelining = 1

NextUnit ==
  /\ pc = "recv" /\ segment \in {"first", "more"}
  /\ segment = "more" => MoreToCome(idx)
  /\ UNCHANGED <<pc, idx, readset, writeset, shutdown>>

RecvHeaderByte ==
  /\ NextUnit /\ ReadsHeader(conn[idx])
  /\ client' = [client EXCEPT ![idx] = NextByte(@)]
  /\ segment' = "more"
  /\ UNCHANGED conn

HeaderEnd ==
  /\ NextUnit /\ ReadsHeader(conn[idx]) /\ client[idx].phase # "body"
  /\ \E n \in PostLens, k \in LengthLines, v \in Versions,
        line \in {"set"} \cup (IF BadRequests = 1 THEN {"NULL"} ELSE {}) :
       /\ n > 0 => k > 0
       /\ \E d \in RecvHeaderEnd(conn[idx], n, k, v, line) :
            conn' = [conn EXCEPT ![idx] = d]
       /\ client' = [client EXCEPT ![idx] = HeadSent(n)]
  /\ segment' = "more"

(* HTTPD_MAX_HEAD_LEN is reached.                                          *)
HeaderTooLong ==
  /\ NextUnit /\ ReadsHeader(conn[idx]) /\ BadRequests = 1
  /\ segment' = "error"
  /\ UNCHANGED <<conn, client>>

BodyByte ==
  /\ NextUnit /\ ReadsBody(conn[idx])
  /\ Pipelining = 1 => conn[idx].received <= conn[idx].len  \* bounds received
  /\ \E d \in RecvBodyByte(conn[idx]) : conn' = [conn EXCEPT ![idx] = d]
  /\ client' = [client EXCEPT ![idx] = NextByte(@)]
  /\ segment' = "more"

(* Neither mode, and no recvHdl: "Unexpected data from client".            *)
UnexpectedData ==
  /\ NextUnit /\ ~ReadsHeader(conn[idx]) /\ ~ReadsBody(conn[idx])
  /\ segment' = "error"
  /\ UNCHANGED <<conn, client>>

(* The data is used up, or the loop broke off: flush, unlock, and close on *)
(* an error.                                                               *)
RecvReturns ==
  /\ pc = "recv" /\ segment # "first"
  /\ LET c == httpdFlushSendBuffer(conn[idx])
     IN conn' = [conn EXCEPT ![idx] = IF segment = "error"
                                      THEN closeConnection(c) ELSE c]
  /\ segment' = "first"
  /\ AfterRead
  /\ UNCHANGED <<client, readset, writeset, shutdown>>

(* The repeated SSL_read: more data, or (always, once closed) an error.    *)
SslReadAgain ==
  /\ pc = "pending"
  /\ \/ /\ conn[idx].fd = "open" /\ MoreToCome(idx)
        /\ conn' = [conn EXCEPT ![idx].out = 0]
        /\ pc' = "recv" /\ idx' = idx
     \/ /\ conn' = [conn EXCEPT ![idx] = closeConnection(@)]
        /\ AfterRead
  /\ UNCHANGED <<client, readset, writeset, segment, shutdown>>

-----------------------------------------------------------------------------
(* platHttpServerTaskDeinit, one slot at a time.                           *)
Deinit ==
  /\ pc = "deinit"
  /\ conn' = IF conn[idx].fd = "open"
             THEN [conn EXCEPT ![idx] = closeConnection(@)] ELSE conn
  /\ IF idx < MaxConn THEN idx' = idx + 1 /\ UNCHANGED <<pc, shutdown>>
     ELSE idx' = 1 /\ pc' = "exited" /\ shutdown' = "down"
  /\ UNCHANGED <<client, readset, writeset, segment>>

ServerTask ==
  \/ BuildFdSets \/ Select \/ Accept \/ SkipEmpty \/ Sent
  \/ NotReadable \/ ReadStale \/ ReadEnd \/ ReadData
  \/ RecvHeaderByte \/ HeaderEnd \/ HeaderTooLong \/ BodyByte
  \/ UnexpectedData \/ RecvReturns \/ SslReadAgain
  \/ Deinit

(* The application resumes a handler that has its whole request: with the  *)
(* lock free, and only while the handler has not been told of the close.   *)
Resume(s) ==
  /\ AppTask = 1
  /\ pc # "recv"
  /\ conn[s].fd = "open" /\ conn[s].cgi = "handler" /\ BodyComplete(conn[s])
  /\ \E d \in httpdContinue(conn[s]) : conn' = [conn EXCEPT ![s] = d]
  /\ UNCHANGED <<client, taskVars, shutdown>>

(* httpdPlatShutdown: the datagram is sent again until the server is down; *)
(* any of them may be lost.                                                *)
RequestShutdown ==
  /\ shutdown = "no"
  /\ shutdown' = "requested"
  /\ UNCHANGED <<conn, client, taskVars>>

SendShutdown ==
  /\ shutdown = "requested"
  /\ shutdown' = "sent"
  /\ UNCHANGED <<conn, client, taskVars>>

Next == ServerTask \/ \E s \in Slots : Resume(s)
ShutdownNext == Next \/ RequestShutdown \/ SendShutdown

Spec == Init /\ [][Next]_vars

(* The server task runs whenever select does not hold it; select returns   *)
(* for a socket that stays writable (a peer that acknowledges nothing is   *)
(* reset by the TCP keepalive), in a pass that no failing accept abandons, *)
(* and for the shutdown datagram, which is sent until the server is down.  *)
(* Nothing makes it return for a client that may stay silent for ever.     *)
Fairness ==
  /\ WF_vars(ServerTask /\ pc # "blocked")
  /\ \A s \in Slots : SF_vars(Select /\ s \in writeset' /\ pc' = "sent")
  /\ WF_vars(Select /\ shutdown = "sent")
  /\ WF_vars(SendShutdown)

FairSpec == Spec /\ Fairness
ShutdownSpec == Init /\ [][ShutdownNext]_vars /\ Fairness

-----------------------------------------------------------------------------
TypeOK ==
  /\ conn \in [Slots -> Conn]
  /\ client \in [Slots -> Client]
  /\ pc \in {"select", "blocked", "accept", "sent", "read", "recv", "pending",
             "deinit", "exited"}
  /\ idx \in Slots
  /\ readset \in [Slots -> Read] /\ writeset \subseteq Slots
  /\ segment \in {"first", "more", "error"}
  /\ shutdown \in {"no", "requested", "sent", "seen", "down"}

(* A handler that returned DONE for a request, or that was told of the     *)
(* close, is not called again for it, whatever arrives or is resumed later *)
(* (README.md:364 "if the CGI function returns HTTPD_CGI_DONE, it will not *)
(* be called again").                                                      *)
NotCalledAgain == \A s \in Slots : "called again" \notin conn[s].faults

(* The handler's state is freed at most once, by DONE or by the close.     *)
StateFreedOnce == \A s \in Slots : "freed twice" \notin conn[s].faults

(* A connection is disconnected (httpdDisconCb, close) a second time only  *)
(* in the rest of the turn that closed it, while its slot is empty: the    *)
(* stale descriptor of httpd-freertos.c:484 and the SSL loop of line 523   *)
(* never reach a client that is given the slot later.                      *)
ClosedOnce ==
  [][\A s \in Slots :
       "closed twice" \in conn'[s].faults /\ "closed twice" \notin conn[s].faults
         => idx = s /\ pc \in {"read", "pending"} /\ conn[s].fd = "none"]_vars

(* Every byte of a body is presented to the handler in one call only       *)
(* (README.md:389 "The next call will contain the next chunk of POST       *)
(* data").                                                                 *)
GivenOnce == \A s \in Slots : "given twice" \notin conn[s].faults

(* What a request allocated does not outlive it: the handler's state is    *)
(* freed once no handler is set or the slot is free, and so is the POST    *)
(* buffer; a buffer is lost only of a request with several Content-Length  *)
(* lines, each of which allocates one (httpd.c:738).                       *)
NothingLeaks ==
  \A s \in Slots :
    /\ conn[s].cgi = "NULL" \/ conn[s].fd = "none" => conn[s].cgiData # "live"
    /\ conn[s].fd = "none" => conn[s].buff = "NULL"
    /\ "buffer lost" \in conn[s].faults => "length twice" \in conn[s].faults

(* A connection that waits for a request carries nothing over from the one *)
(* before: all that httpdRecvCb adds to or tests while reading is reset.   *)
KeepAliveIsClean ==
  \A s \in Slots :
    conn[s].fd = "open" /\ conn[s].len < 0 =>
      /\ conn[s].flags = {} /\ conn[s].cgi = "NULL"
      /\ conn[s].buff = "NULL" /\ conn[s].buffLen = 0
      /\ conn[s].received = 0

(* The POST buffer is never written past its end: the next body byte and   *)
(* the terminator behind it fit in the buffSize + 1 bytes allocated.       *)
PostBufferBound ==
  \A s \in Slots :
    ReadsBody(conn[s]) => conn[s].buffLen < conn[s].buffSize

(* accept is only called when a slot is free when it returns, so the "all  *)
(* connections in use, closing fd" branch is dead code.                    *)
AcceptHasSlot == pc = "accept" => Free # {}

(* Each slot goes through the request cycle.                               *)
Phase(c) ==
  CASE c.fd = "none" -> "closed"
    [] c.fd = "open" /\ c.cgi # "NULL" -> "handling"
    [] c.fd = "open" /\ c.cgi = "NULL" /\ "DISCONAFTERSENT" \in c.flags -> "closing"
    [] OTHER -> "reading"
Cycle == INSTANCE RequestCycle WITH phase <- [s \in Slots |-> Phase(conn[s])]
CycleSpec == Cycle!CycleSpec

(* A connection marked to be closed after its response is closed (httpd.c: *)
(* "Mark to get it killed after all data is sent").                        *)
MarkedIsClosed ==
  \A s \in Slots :
    conn[s].fd = "open" /\ "DISCONAFTERSENT" \in conn[s].flags
      ~> conn[s].fd = "none"

(* httpdShutdown takes the server down, every connection disconnected.     *)
ShutdownCompletes ==
  shutdown = "requested" ~> shutdown = "down" /\ Open = {}
=============================================================================
