----------------------------- MODULE Websocket -----------------------------
(***************************************************************************)
(* Websockets (util/cgiwebsocket.c): the reference counted Websock objects *)
(* shared by the connection they belong to (cgiData), the list of active   *)
(* websockets and the tasks that use them.  The server task runs the       *)
(* callbacks under the httpd mutex; application tasks broadcast and close. *)
(* The connections are those of HttpdServer, reduced to what a websocket   *)
(* makes of them.                                                          *)
(***************************************************************************)
EXTENDS Integers, FiniteSets

CONSTANTS
  Slots,        \* connections
  Websocks,     \* blocks calloc can hand out
  Tasks,        \* application tasks that broadcast
  ListSize,     \* WEBSOCK_LIST_SIZE
  AppCloses,    \* 1: the application calls cgiWebsocketClose itself
  SendsOnClosed,\* 1: clients send more after the websocket is closed
  NULL

ASSUME NullAssumption == NULL \notin Slots \cup Websocks
ASSUME TasksAssumption == "free" \notin Tasks
ASSUME SizeAssumption == ListSize \in Nat \ {0}
ASSUME SwitchAssumption == AppCloses \in 0..1 /\ SendsOnClosed \in 0..1
ASSUME FiniteAssumption == IsFiniteSet(Slots) /\ IsFiniteSet(Tasks)

VARIABLES
  slot,         \* connData and rconn of each connection
  ref, conn,    \* ref_cnt and conn of each Websock
  allocated,    \* the Websocks that are allocated
  wsList,       \* wsList[]
  listMutex,    \* the task that holds wsListMutex, or "free"
  server,       \* the server task; it holds the httpd mutex unless "idle"
  task,         \* the application tasks, in cgiWebsockBroadcast
  told,         \* history: Websocks whose closeCb was called
  lost,         \* history: references that were dropped without a put
  faults        \* history: what must not happen

vars == <<slot, ref, conn, allocated, wsList, listMutex, server, task,
          told, lost, faults>>

Indices == 1..ListSize
Faults == {"ws is NULL", "ws->conn is NULL", "not told"}

Slot == [fd : {"none", "open"},
         cgi : {"NULL", "cgiWebsocket"},
         recvHdl : {"NULL", "cgiWebSocketRecv"},
         cgiData : Websocks \cup {NULL},
         marked : 0..1,                        \* HFL_DISCONAFTERSENT
         notif : 0..1]                         \* needWriteDoneNotif
Fresh == [fd |-> "open", cgi |-> "NULL", recvHdl |-> "NULL",
          cgiData |-> NULL, marked |-> 0, notif |-> 0]

Idle == [pc |-> "idle", slot |-> NULL, ws |-> NULL, r |-> "MORE", out |-> 0]
Resting == [pc |-> "rest", i |-> 1, ws |-> NULL, conn |-> NULL]

Init ==
  /\ slot = [s \in Slots |-> [Fresh EXCEPT !.fd = "none"]]
  /\ ref = [w \in Websocks |-> 0]
  /\ conn = [w \in Websocks |-> NULL]
  /\ allocated = {}
  /\ wsList = [i \in Indices |-> NULL]
  /\ listMutex = "free"
  /\ server = Idle
  /\ task = [t \in Tasks |-> Resting]
  /\ told = {} /\ lost = [w \in Websocks |-> 0] /\ faults = {}

httpdMuxFree == server.pc = "idle"

-----------------------------------------------------------------------------
(* put_websock(w), given the objects allocated before: the last reference  *)
(* frees it.                                                               *)
(* Mutant: freed with one reference left.                                  *)
PutEarly(w) ==
  /\ ref' = [ref EXCEPT ![w] = @ - 1]
  /\ allocated' = IF ref[w] = 2 THEN allocated \ {w} ELSE allocated
  /\ UNCHANGED faults

put_websock(w) ==
  /\ ref' = [ref EXCEPT ![w] = @ - 1]
  /\ allocated' = IF ref[w] = 1 THEN allocated \ {w} ELSE allocated
  /\ faults' = faults
       \cup (IF ref[w] = 1 /\ w \notin told THEN {"not told"} ELSE {})

(* check_websock_closed: a slot's isConnectionClosed is set by the close   *)
(* and cleared by the next connect.                                        *)
isConnectionClosed(s) == slot[s].fd = "none"
check_websock_closed(w) == conn[w] = NULL \/ isConnectionClosed(conn[w])

(* cgiWebsocketClose: sends the close frame and forgets the connection,    *)
(* which stays open.                                                       *)
(* Mutant: the close frame is not flushed.                                 *)
CloseWithoutFlush(w) ==
  IF conn[w] # NULL
  THEN /\ conn' = [conn EXCEPT ![w] = NULL]
       /\ told' = told \cup {w}
       /\ UNCHANGED slot
  ELSE UNCHANGED <<slot, conn, told>>

cgiWebsocketClose(w) ==
  IF conn[w] # NULL
  THEN /\ slot' = [slot EXCEPT ![conn[w]].notif = 1]
       /\ conn' = [conn EXCEPT ![w] = NULL]
       /\ told' = told \cup {w}
  ELSE UNCHANGED <<slot, conn, told>>

(* What an application callback does: nothing of interest, or it closes.   *)
Callback(w) ==
  \/ UNCHANGED <<slot, conn, told>>
  \/ AppCloses = 1 /\ cgiWebsocketClose(w)

-----------------------------------------------------------------------------
(* The server task.                                                        *)
taskVars == <<listMutex, task>>

Connect(s) ==
  /\ server.pc = "idle" /\ slot[s].fd = "none"
  /\ slot' = [slot EXCEPT ![s] = Fresh]
  /\ UNCHANGED <<ref, conn, allocated, wsList, server, taskVars,
                 told, lost, faults>>

(* A connection where a request may come in; the answer to the one before  *)
(* may not have been reported as sent.                                     *)
Waits(s) == slot[s] \in {Fresh, [Fresh EXCEPT !.notif = 1]}

(* cgiWebsocket's first call on an upgrade request: one reference for the  *)
(* call and one for cgiData.                                               *)
Upgrade(s) ==
  /\ server.pc = "idle"
  /\ Waits(s)
  /\ \E w \in Websocks \ allocated :
       /\ allocated' = allocated \cup {w}
       /\ ref' = [ref EXCEPT ![w] = 2]
       /\ \/ conn' = [conn EXCEPT ![w] = s] /\ told' = told \ {w}
          \/ /\ AppCloses = 1                        \* connCb closes it
             /\ conn' = [conn EXCEPT ![w] = NULL] /\ told' = told \cup {w}
       /\ slot' = [slot EXCEPT ![s].cgi = "cgiWebsocket",
                               ![s].recvHdl = "cgiWebSocketRecv",
                               ![s].cgiData = w]
       /\ server' = [Idle EXCEPT !.pc = "add", !.slot = s, !.ws = w]
  /\ UNCHANGED <<wsList, taskVars, lost, faults>>

(* ... wsListAddAndGC(ws) once the list's mutex is free, the put of the    *)
(* call's reference and the flush of the response.                         *)
DeadNever == {}                       \* mutant: no garbage collection
Dead == {i \in Indices : wsList[i] # NULL /\ check_websock_closed(wsList[i])}
DeadEntries(w) == Cardinality({i \in Dead : wsList[i] = w})
CollectedNot == wsList                \* mutant: dead entries stay listed
Collected == [i \in Indices |-> IF i \in Dead THEN NULL ELSE wsList[i]]
Empty == {i \in Indices : Collected[i] = NULL}
FirstEmpty == CHOOSE i \in Empty : \A j \in Empty : i <= j

wsListAddAndGC ==
  /\ server.pc = "add" /\ listMutex = "free"
  /\ LET ws == server.ws
         Drop(w) == DeadEntries(w)
                      + IF w = ws /\ Empty = {} THEN 1 ELSE 0
     IN /\ wsList' = IF Empty = {} THEN Collected
                     ELSE [Collected EXCEPT ![FirstEmpty] = ws]
        /\ ref' = [w \in Websocks |-> ref[w] - Drop(w)]
        /\ allocated' = {w \in allocated : ref'[w] > 0}
        /\ faults' = faults \cup
             (IF \E w \in allocated \ allocated' : w \notin told
              THEN {"not told"} ELSE {})
  /\ slot' = [slot EXCEPT ![server.slot].notif = 1]
  /\ server' = Idle
  /\ UNCHANGED <<conn, taskVars, told, lost>>

(* An upgrade that is refused is answered 500; one that cannot allocate is *)
(* done without sending anything.  Either way httpdCgiIsDone keeps the     *)
(* connection or marks it.                                                 *)
UpgradeRefused(s) ==
  /\ server.pc = "idle"
  /\ Waits(s)
  /\ \E marked \in 0 .. 1, notif \in slot[s].notif .. 1 :
       slot' = [slot EXCEPT ![s].marked = marked, ![s].notif = notif]
  /\ UNCHANGED <<ref, conn, allocated, wsList, server, taskVars,
                 told, lost, faults>>

(* cgiWebSocketRecv, on data that arrives for the websocket.               *)
RecvBegin(s) ==
  /\ server.pc = "idle"
  /\ slot[s].fd = "open" /\ slot[s].recvHdl = "cgiWebSocketRecv"
  /\ LET w == slot[s].cgiData
     IN IF w = NULL
        THEN /\ SendsOnClosed = 1
             /\ faults' = faults \cup {"ws is NULL"}
             /\ UNCHANGED <<ref, server>>
        ELSE /\ SendsOnClosed = 1 \/ conn[w] # NULL
             /\ ref' = [ref EXCEPT ![w] = @ + 1]
             /\ server' = [Idle EXCEPT !.pc = "recv", !.slot = s, !.ws = w]
             /\ UNCHANGED faults
  /\ UNCHANGED <<slot, conn, allocated, wsList, taskVars, told, lost>>

(* One frame of the data at a time.                                        *)
Ping ==
  /\ server.pc = "recv"
  /\ IF conn[server.ws] = NULL
     THEN faults' = faults \cup {"ws->conn is NULL"} /\ UNCHANGED server
     ELSE server' = [server EXCEPT !.out = 1] /\ UNCHANGED faults
  /\ UNCHANGED <<slot, ref, conn, allocated, wsList, taskVars, told, lost>>

Data ==
  /\ server.pc = "recv"
  /\ Callback(server.ws)          \* recvCb
  /\ UNCHANGED <<ref, allocated, wsList, server, taskVars, lost, faults>>

(* A CLOSE frame, or a violation of the protocol.                          *)
CloseFrame ==
  /\ server.pc = "recv"
  /\ cgiWebsocketClose(server.ws)
  /\ server' = [server EXCEPT !.pc = "done", !.r = "DONE"]
  /\ UNCHANGED <<ref, allocated, wsList, taskVars, lost, faults>>

(* The data is used up: the reference of the call is put.                  *)
RecvMore ==
  /\ server.pc = "recv"
  /\ put_websock(server.ws)
  /\ slot' = [slot EXCEPT ![server.slot].notif =
                IF server.out = 1 THEN 1 ELSE @]
  /\ server' = Idle
  /\ UNCHANGED <<conn, wsList, taskVars, told, lost>>

(* DONE: the reference of cgiData is put first, then that of the call, and *)
(* httpdRecvCb has httpdCgiIsDone mark the connection and flushes.         *)
RecvPutsData ==
  /\ server.pc = "done"
  /\ put_websock(slot[server.slot].cgiData)
  /\ slot' = [slot EXCEPT ![server.slot].cgiData = NULL]
  /\ server' = [server EXCEPT !.pc = "return"]
  /\ UNCHANGED <<conn, wsList, taskVars, told, lost>>

RecvDone ==
  /\ server.pc = "return"
  /\ put_websock(server.ws)
  /\ slot' = [slot EXCEPT ![server.slot].cgi = "NULL",
                          ![server.slot].marked = 1,
                          ![server.slot].notif =
                             IF server.out = 1 THEN 1 ELSE @]
  /\ server' = Idle
  /\ UNCHANGED <<conn, wsList, taskVars, told, lost>>

(* The platform reports the socket writable: a marked connection is        *)
(* closed, a websocket's sentCb is called.                                 *)
Sent(s) ==
  /\ server.pc = "idle"
  /\ slot[s].fd = "open" /\ slot[s].notif = 1
  /\ IF slot[s].marked = 1
     THEN /\ slot' = [slot EXCEPT ![s] = [Fresh EXCEPT !.fd = "none"]]
          /\ UNCHANGED <<conn, told>>
     ELSE \/ /\ slot' = [slot EXCEPT ![s].notif = 0]
             /\ UNCHANGED <<conn, told>>
          \/ /\ AppCloses = 1 /\ slot[s].cgiData # NULL    \* sentCb closes it
             /\ conn[slot[s].cgiData] # NULL
             /\ cgiWebsocketClose(slot[s].cgiData)
  /\ UNCHANGED <<ref, allocated, wsList, server, taskVars, lost, faults>>

(* The client is gone: closeConnection, with cgiWebsocket's last call.     *)
(* Mutant: "mark as closed for shared references" is forgotten.            *)
DisconnectKeepsConn(s) ==
  /\ server.pc = "idle" /\ slot[s].fd = "open"
  /\ IF slot[s].cgi = "cgiWebsocket" /\ slot[s].cgiData # NULL
     THEN put_websock(slot[s].cgiData)
     ELSE UNCHANGED <<ref, allocated, faults>>
  /\ slot' = [slot EXCEPT ![s] = [Fresh EXCEPT !.fd = "none"]]
  /\ UNCHANGED <<conn, wsList, server, taskVars, told, lost>>

Disconnect(s) ==
  /\ server.pc = "idle" /\ slot[s].fd = "open"
  /\ LET w == slot[s].cgiData
     IN IF slot[s].cgi = "cgiWebsocket" /\ w # NULL
        THEN conn' = [conn EXCEPT ![w] = NULL] /\ put_websock(w)
        ELSE UNCHANGED <<conn, ref, allocated, faults>>
  /\ slot' = [slot EXCEPT ![s] = [Fresh EXCEPT !.fd = "none"]]
  /\ UNCHANGED <<wsList, server, taskVars, told, lost>>

-----------------------------------------------------------------------------
(* An application task: cgiWebsockBroadcast over the list.                 *)
serverVars == <<slot, conn, server, told>>

NextIndex(t) ==
  task' = [task EXCEPT ![t] =
    IF task[t].i < ListSize
    THEN [Resting EXCEPT !.pc = "peek", !.i = task[t].i + 1] ELSE Resting]

Goto(t, label) == task' = [task EXCEPT ![t].pc = label]

BroadcastBegin(t) ==
  /\ task[t].pc = "rest"
  /\ Goto(t, "peek")
  /\ UNCHANGED <<ref, allocated, wsList, listMutex, serverVars, lost, faults>>

(* get_websock: a look without the mutex, then another with it.            *)
Peek(t) ==
  /\ task[t].pc = "peek"
  /\ IF wsList[task[t].i] = NULL THEN NextIndex(t) ELSE Goto(t, "lock")
  /\ UNCHANGED <<ref, allocated, wsList, listMutex, serverVars, lost, faults>>

LockList(t) ==
  /\ task[t].pc = "lock" /\ listMutex = "free"
  /\ IF wsList[task[t].i] = NULL
     THEN NextIndex(t) /\ UNCHANGED listMutex
     ELSE Goto(t, "check") /\ listMutex' = t
  /\ UNCHANGED <<ref, allocated, wsList, serverVars, lost, faults>>

RemoveEntry(t) ==
  /\ put_websock(wsList[task[t].i])
  /\ wsList' = [wsList EXCEPT ![task[t].i] = NULL]
  /\ listMutex' = "free"
  /\ NextIndex(t)

(* check_websock_closed without the httpd mutex: ws->conn is NULL ...      *)
CheckConn(t) ==
  /\ task[t].pc = "check"
  /\ LET w == wsList[task[t].i]
     IN IF conn[w] = NULL THEN RemoveEntry(t)
        ELSE /\ task' = [task EXCEPT ![t].pc = "check2", ![t].conn = conn[w]]
             /\ UNCHANGED <<ref, allocated, faults, wsList, listMutex>>
  /\ UNCHANGED <<serverVars, lost>>

(* ... or its isConnectionClosed is set: the build may load ws->conn again *)
(* or use the value it has.                                                *)
CheckClosed(t) ==
  /\ task[t].pc = "check2"
  /\ LET w == wsList[task[t].i]
     IN \/ /\ conn[w] = NULL
           /\ faults' = faults \cup {"ws->conn is NULL"}
           /\ listMutex' = "free"
           /\ NextIndex(t)
           /\ UNCHANGED <<ref, allocated, wsList>>
        \/ /\ isConnectionClosed(task[t].conn)
           /\ RemoveEntry(t)
        \/ /\ ~isConnectionClosed(task[t].conn)
           /\ ref' = [ref EXCEPT ![w] = @ + 1]
           /\ task' = [task EXCEPT ![t].pc = "match", ![t].ws = w,
                                   ![t].conn = NULL]
           /\ listMutex' = "free"
           /\ UNCHANGED <<allocated, faults, wsList>>
  /\ UNCHANGED <<serverVars, lost>>

(* Under the httpd mutex: closed since (the reference is forgotten), or of *)
(* another resource, or one to send to.                                    *)
Match(t) ==
  /\ task[t].pc = "match" /\ httpdMuxFree
  /\ LET w == task[t].ws
     IN IF check_websock_closed(w)
        THEN lost' = [lost EXCEPT ![w] = @ + 1] /\ NextIndex(t)
        ELSE (Goto(t, "send") \/ Goto(t, "put")) /\ UNCHANGED lost
  /\ UNCHANGED <<ref, allocated, wsList, listMutex, serverVars, faults>>

(* cgiWebsocketSend.                                                       *)
Send(t) ==
  /\ task[t].pc = "send" /\ httpdMuxFree
  /\ LET w == task[t].ws
     IN slot' = IF check_websock_closed(w) THEN slot
                ELSE [slot EXCEPT ![conn[w]].notif = 1]
  /\ Goto(t, "put")
  /\ UNCHANGED <<ref, allocated, wsList, listMutex, conn, server, told,
                 lost, faults>>

Put(t) ==
  /\ task[t].pc = "put"
  /\ put_websock(task[t].ws)
  /\ NextIndex(t)
  /\ UNCHANGED <<wsList, listMutex, serverVars, lost>>

(* The application closes a websocket it was given by connCb.              *)
AppClose(w) ==
  /\ AppCloses = 1 /\ httpdMuxFree
  /\ w \in allocated /\ conn[w] # NULL
  /\ cgiWebsocketClose(w)
  /\ UNCHANGED <<ref, allocated, wsList, server, taskVars, lost, faults>>

-----------------------------------------------------------------------------
ServerTask ==
  \/ \E s \in Slots : \/ Connect(s) \/ Upgrade(s) \/ UpgradeRefused(s)
                      \/ RecvBegin(s) \/ Sent(s) \/ Disconnect(s)
  \/ wsListAddAndGC
  \/ Ping \/ Data \/ CloseFrame \/ RecvMore \/ RecvPutsData \/ RecvDone

Broadcast(t) ==
  \/ BroadcastBegin(t) \/ Peek(t) \/ LockList(t) \/ CheckConn(t)
  \/ CheckClosed(t) \/ Match(t) \/ Send(t) \/ Put(t)

Next ==
  \/ ServerTask
  \/ \E t \in Tasks : Broadcast(t)
  \/ \E w \in Websocks : AppClose(w)

Spec == Init /\ [][Next]_vars

-----------------------------------------------------------------------------
TypeOK ==
  /\ slot \in [Slots -> Slot]
  /\ ref \in [Websocks -> Nat]
  /\ conn \in [Websocks -> Slots \cup {NULL}]
  /\ allocated \subseteq Websocks
  /\ wsList \in [Indices -> Websocks \cup {NULL}]
  /\ listMutex \in Tasks \cup {"free"}
  /\ server \in [pc : {"idle", "add", "recv", "done", "return"},
                 slot : Slots \cup {NULL}, ws : Websocks \cup {NULL},
                 r : {"MORE", "DONE"}, out : 0..1]
  /\ task \in [Tasks -> [pc : {"rest", "peek", "lock", "check", "check2",
                               "match", "send", "put"},
                         i : Indices, ws : Websocks \cup {NULL},
                         conn : Slots \cup {NULL}]]
  /\ told \subseteq Websocks
  /\ lost \in [Websocks -> Nat]
  /\ faults \subseteq Faults

(* Who refers to a websocket.                                              *)
Listed(w) == {i \in Indices : wsList[i] = w}
Owners(w) == {s \in Slots : slot[s].cgiData = w}
Users(w) == {t \in Tasks : task[t].ws = w}
Called(w) == IF server.ws = w THEN 1 ELSE 0

(* The reference count is the number of references there are: to the list, *)
(* cgiData, the running callback and the broadcasting tasks (and those     *)
(* that cgiWebsockBroadcast lost); with no reference it is freed.          *)
Accounted ==
  \A w \in Websocks :
    /\ ref[w] = Cardinality(Listed(w)) + Cardinality(Owners(w))
                  + Cardinality(Users(w)) + Called(w) + lost[w]
    /\ w \in allocated <=> ref[w] > 0

(* A websocket never speaks on a connection that is not its own: not on    *)
(* one that was closed, nor on that of the client that has the slot now.   *)
OwnConnection ==
  \A w \in Websocks :
    conn[w] # NULL => slot[conn[w]].cgiData = w /\ slot[conn[w]].fd = "open"

(* While the list is as long as there are connections, every websocket     *)
(* that is open is in it, so a broadcast passes by it: dead entries are    *)
(* always collected before they can fill the list.                         *)
OpenIsListed ==
  Cardinality(Slots) <= ListSize =>
    \A w \in Websocks :
      conn[w] # NULL /\ ~(server.pc = "add" /\ server.ws = w)
        => Listed(w) # {}

(* A websocket nobody refers to is freed (comment of get_websock: "Must be *)
(* released via put_websock()!").                                          *)
NothingLost == \A w \in Websocks : lost[w] = 0

(* cgiWebSocketRecv asserts ws # NULL.                                     *)
AssertHolds == "ws is NULL" \notin faults

(* ws->conn is not dereferenced when it is NULL (cgiWebsockBroadcast:      *)
(* "lock needed so we can access the connData").                           *)
ConnIsSet == "ws->conn is NULL" \notin faults

(* closeCb is called on websocket close (cgiwebsocket.h).                  *)
CloseIsTold == "not told" \notin faults

(* httpdRecvCb: "We assume the recvhdlr has sent something; we'll kill the *)
(* sock in the sent callback".                                             *)
RecvHdlHasSent ==
  \A s \in Slots : slot[s].marked = 1 => slot[s].notif = 1
=============================================================================
