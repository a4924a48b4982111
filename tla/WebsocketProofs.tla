-------------------------- MODULE WebsocketProofs --------------------------
(***************************************************************************)
(* Proofs about Websocket, for any number of connections, websockets and   *)
(* broadcasting tasks and a list of any size.                              *)
(***************************************************************************)
EXTENDS Websocket, FiniteSetTheorems, WellFoundedInduction, TLAPS

(* cgiData is set between the upgrade and the close, and a connection that *)
(* is marked has none.                                                     *)
SlotInv ==
  \A s \in Slots :
    slot[s].cgiData # NULL =>
      slot[s].fd = "open" /\ slot[s].cgi = "cgiWebsocket" /\ slot[s].marked = 0

(* What the running callback relies on.                                    *)
ServerInv ==
  /\ server.pc = "idle" => server.ws = NULL
  /\ server.pc # "idle" => server.ws \in Websocks /\ server.slot \in Slots
  /\ server.pc \in {"add", "recv", "done"} => slot[server.slot].cgiData = server.ws
  /\ server.pc = "add" => Listed(server.ws) = {}
  /\ server.pc \in {"done", "return"} => conn[server.ws] = NULL
  /\ server.pc = "return" => slot[server.slot].cgiData = NULL

(* A task looks at an entry while it holds the list's mutex, and has a     *)
(* reference of its own from then on.                                      *)
TaskInv ==
  \A t \in Tasks :
    /\ task[t].pc \in {"match", "send", "put"} <=> task[t].ws # NULL
    /\ task[t].pc \in {"check", "check2"} <=> listMutex = t
    /\ listMutex = t => wsList[task[t].i] # NULL
    /\ task[t].pc = "check2" =>
         task[t].conn # NULL /\ conn[wsList[task[t].i]] \in {task[t].conn, NULL}

(* A websocket is listed at most once.                                     *)
ListInv ==
  \A i, j \in Indices : i # j /\ wsList[i] = wsList[j] => wsList[i] = NULL

OpenListed ==
  \A w \in Websocks :
    conn[w] # NULL /\ ~(server.pc = "add" /\ server.ws = w) => Listed(w) # {}

WsInv ==
  /\ TypeOK /\ Accounted /\ OwnConnection
  /\ SlotInv /\ ServerInv /\ TaskInv /\ ListInv
  /\ OpenIsListed

ServerState ==
  [pc : {"idle", "add", "recv", "done", "return"},
   slot : Slots \cup {NULL}, ws : Websocks \cup {NULL},
   r : {"MORE", "DONE"}, out : 0..1]
TaskState ==
  [pc : {"rest", "peek", "lock", "check", "check2", "match", "send", "put"},
   i : Indices, ws : Websocks \cup {NULL}, conn : Slots \cup {NULL}]

-----------------------------------------------------------------------------
(* How many references of each kind there are.                             *)

NumListed(w) == Cardinality(Listed(w))
NumOwners(w) == Cardinality(Owners(w))
NumUsers(w) == Cardinality(Users(w))
Is(a, b) == IF a = b THEN 1 ELSE 0
In(x, S) == IF x \in S THEN 1 ELSE 0

LEMMA CountOne ==
  ASSUME NEW D, IsFiniteSet(D), NEW A \in SUBSET D, NEW B \in SUBSET D,
         NEW x, \A y \in D : y # x => (y \in A <=> y \in B), x \in D
  PROVE  /\ Cardinality(A) \in Nat /\ Cardinality(B) \in Nat
         /\ Cardinality(B) = Cardinality(A) - In(x, A) + In(x, B)
         /\ x \in A => Cardinality(A) > 0
<1>1. IsFiniteSet(A) /\ IsFiniteSet(B)
  BY FS_Subset
<1>2. IsFiniteSet(A \ {x})
  BY <1>1, FS_RemoveElement
<1> DEFINE C == A \ {x}
<1>3. /\ Cardinality(C) \in Nat /\ Cardinality(A) \in Nat /\ Cardinality(B) \in Nat
  BY <1>1, <1>2, FS_CardinalityType
<1>4. x \notin C
  OBVIOUS
<1>5. Cardinality(C \cup {x}) = Cardinality(C) + 1
  BY <1>2, <1>4, FS_AddElement
<1>6. A = (IF x \in A THEN C \cup {x} ELSE C)
  OBVIOUS
<1>7. B = (IF x \in B THEN C \cup {x} ELSE C)
  OBVIOUS
<1> HIDE DEF C
<1>8. Cardinality(A) = Cardinality(C) + In(x, A)
  <2>1. CASE x \in A
    BY <1>3, <1>5, <1>6, <2>1 DEF In
  <2>2. CASE x \notin A
    BY <1>3, <1>6, <2>2 DEF In
  <2> QED BY <2>1, <2>2
<1>9. Cardinality(B) = Cardinality(C) + In(x, B)
  <2>1. CASE x \in B
    BY <1>3, <1>5, <1>7, <2>1 DEF In
  <2>2. CASE x \notin B
    BY <1>3, <1>7, <2>2 DEF In
  <2> QED BY <2>1, <2>2
<1>10. In(x, A) \in {0, 1} /\ In(x, B) \in {0, 1} /\ (x \in A => In(x, A) = 1)
  BY DEF In
<1> QED BY <1>3, <1>8, <1>9, <1>10

LEMMA CountsAre ==
  ASSUME NEW w
  PROVE  /\ NumListed(w) \in Nat /\ NumOwners(w) \in Nat /\ NumUsers(w) \in Nat
         /\ Called(w) \in 0 .. 1
         /\ \A i \in Indices : wsList[i] = w => NumListed(w) > 0
         /\ \A s \in Slots : slot[s].cgiData = w => NumOwners(w) > 0
         /\ \A t \in Tasks : task[t].ws = w => NumUsers(w) > 0
         /\ NumListed(w) = 0 <=> Listed(w) = {}
<1>1. IsFiniteSet(Indices)
  BY SizeAssumption, FS_Interval DEF Indices
<1>2. IsFiniteSet(Slots) /\ IsFiniteSet(Tasks)
  BY FiniteAssumption
<1>3. /\ IsFiniteSet(Listed(w)) /\ IsFiniteSet(Owners(w)) /\ IsFiniteSet(Users(w))
  <2>1. /\ Listed(w) \in SUBSET Indices /\ Owners(w) \in SUBSET Slots
        /\ Users(w) \in SUBSET Tasks
    BY DEF Listed, Owners, Users
  <2> QED BY <1>1, <1>2, <2>1, FS_Subset
<1>4. /\ NumListed(w) \in Nat /\ NumOwners(w) \in Nat /\ NumUsers(w) \in Nat
  BY <1>3, FS_CardinalityType DEF NumListed, NumOwners, NumUsers
<1>5. /\ NumListed(w) = 0 <=> Listed(w) = {}
      /\ NumOwners(w) = 0 <=> Owners(w) = {}
      /\ NumUsers(w) = 0 <=> Users(w) = {}
  BY <1>3, FS_EmptySet DEF NumListed, NumOwners, NumUsers
<1>6. /\ \A i \in Indices : wsList[i] = w => Listed(w) # {}
      /\ \A s \in Slots : slot[s].cgiData = w => Owners(w) # {}
      /\ \A t \in Tasks : task[t].ws = w => Users(w) # {}
  BY DEF Listed, Owners, Users
<1>7. Called(w) \in 0 .. 1
  BY DEF Called
<1>8. \A n \in Nat : n # 0 => n > 0
  OBVIOUS
<1> QED BY <1>4, <1>5, <1>6, <1>7, <1>8

LEMMA ListedStep ==
  ASSUME NEW i \in Indices, \A j \in Indices \ {i} : wsList'[j] = wsList[j], NEW w
  PROVE  NumListed(w)' = NumListed(w) - Is(wsList[i], w) + Is(wsList'[i], w)
<1>1. IsFiniteSet(Indices)
  BY SizeAssumption, FS_Interval DEF Indices
<1> DEFINE A == {j \in Indices : wsList[j] = w}
           B == {j \in Indices : wsList'[j] = w}
<1>2. /\ A \in SUBSET Indices /\ B \in SUBSET Indices
      /\ \A j \in Indices : j # i => (j \in A <=> j \in B)
      /\ i \in A <=> wsList[i] = w
      /\ i \in B <=> wsList'[i] = w
  OBVIOUS
<1>3. NumListed(w) = Cardinality(A) /\ NumListed(w)' = Cardinality(B)
  BY DEF NumListed, Listed
<1> HIDE DEF A, B
<1>4. Cardinality(B) = Cardinality(A) - In(i, A) + In(i, B)
  BY <1>1, <1>2, CountOne
<1>5. In(i, A) = Is(wsList[i], w) /\ In(i, B) = Is(wsList'[i], w)
  BY <1>2 DEF In, Is
<1> QED BY <1>3, <1>4, <1>5

LEMMA OwnersStep ==
  ASSUME NEW s \in Slots, \A d \in Slots \ {s} : slot'[d].cgiData = slot[d].cgiData, NEW w
  PROVE  NumOwners(w)' = NumOwners(w) - Is(slot[s].cgiData, w) + Is(slot'[s].cgiData, w)
<1> DEFINE A == {d \in Slots : slot[d].cgiData = w}
           B == {d \in Slots : slot'[d].cgiData = w}
<1>2. /\ A \in SUBSET Slots /\ B \in SUBSET Slots
      /\ \A d \in Slots : d # s => (d \in A <=> d \in B)
      /\ s \in A <=> slot[s].cgiData = w
      /\ s \in B <=> slot'[s].cgiData = w
  OBVIOUS
<1>3. NumOwners(w) = Cardinality(A) /\ NumOwners(w)' = Cardinality(B)
  BY DEF NumOwners, Owners
<1> HIDE DEF A, B
<1>4. Cardinality(B) = Cardinality(A) - In(s, A) + In(s, B)
  BY <1>2, FiniteAssumption, CountOne
<1>5. In(s, A) = Is(slot[s].cgiData, w) /\ In(s, B) = Is(slot'[s].cgiData, w)
  BY <1>2 DEF In, Is
<1> QED BY <1>3, <1>4, <1>5

LEMMA UsersStep ==
  ASSUME NEW t \in Tasks, \A u \in Tasks \ {t} : task'[u] = task[u], NEW w
  PROVE  NumUsers(w)' = NumUsers(w) - Is(task[t].ws, w) + Is(task'[t].ws, w)
<1> DEFINE A == {u \in Tasks : task[u].ws = w}
           B == {u \in Tasks : task'[u].ws = w}
<1>2. /\ A \in SUBSET Tasks /\ B \in SUBSET Tasks
      /\ \A u \in Tasks : u # t => (u \in A <=> u \in B)
      /\ t \in A <=> task[t].ws = w
      /\ t \in B <=> task'[t].ws = w
  OBVIOUS
<1>3. NumUsers(w) = Cardinality(A) /\ NumUsers(w)' = Cardinality(B)
  BY DEF NumUsers, Users
<1> HIDE DEF A, B
<1>4. Cardinality(B) = Cardinality(A) - In(t, A) + In(t, B)
  BY <1>2, FiniteAssumption, CountOne
<1>5. In(t, A) = Is(task[t].ws, w) /\ In(t, B) = Is(task'[t].ws, w)
  BY <1>2 DEF In, Is
<1> QED BY <1>3, <1>4, <1>5

LEMMA SameCounts ==
  ASSUME NEW w
  PROVE  /\ wsList' = wsList => NumListed(w)' = NumListed(w)
         /\ (\A s \in Slots : slot'[s].cgiData = slot[s].cgiData) => NumOwners(w)' = NumOwners(w)
         /\ task' = task => NumUsers(w)' = NumUsers(w)
<1>1. wsList' = wsList => Listed(w)' = Listed(w)
  BY DEF Listed
<1>2. (\A s \in Slots : slot'[s].cgiData = slot[s].cgiData) => Owners(w)' = Owners(w)
  BY DEF Owners
<1>3. task' = task => Users(w)' = Users(w)
  BY DEF Users
<1> QED BY <1>1, <1>2, <1>3 DEF NumListed, NumOwners, NumUsers

(* Accounted, by the numbers.                                              *)
Sum(w) == NumListed(w) + NumOwners(w) + NumUsers(w) + Called(w) + lost[w]

LEMMA AccountedIs ==
  Accounted <=> \A w \in Websocks : ref[w] = Sum(w) /\ (w \in allocated <=> ref[w] > 0)
BY DEF Accounted, Sum, NumListed, NumOwners, NumUsers

(* Who is referred to is allocated.                                        *)
LEMMA ReferredTo ==
  ASSUME TypeOK, Accounted, NEW w \in Websocks
  PROVE  /\ ref[w] \in Nat /\ lost[w] \in Nat
         /\ \A i \in Indices : wsList[i] = w => ref[w] > 0
         /\ \A s \in Slots : slot[s].cgiData = w => ref[w] > 0
         /\ \A t \in Tasks : task[t].ws = w => ref[w] > 0
         /\ server.ws = w => ref[w] > 0
         /\ w \in allocated <=> ref[w] > 0
<1>1. ref[w] \in Nat /\ lost[w] \in Nat
  BY DEF TypeOK
<1>2. ref[w] = Sum(w) /\ (w \in allocated <=> ref[w] > 0)
  BY AccountedIs
<1>3. /\ NumListed(w) \in Nat /\ NumOwners(w) \in Nat /\ NumUsers(w) \in Nat
      /\ Called(w) \in 0 .. 1
  BY CountsAre
<1>4. server.ws = w => Called(w) = 1
  BY DEF Called
<1>5. /\ NumListed(w) > 0 => ref[w] > 0
      /\ NumOwners(w) > 0 => ref[w] > 0
      /\ NumUsers(w) > 0 => ref[w] > 0
      /\ Called(w) = 1 => ref[w] > 0
  BY <1>1, <1>2, <1>3 DEF Sum
<1> QED BY <1>1, <1>2, <1>4, <1>5, CountsAre

(* put_websock.                                                            *)
LEMMA PutCase ==
  ASSUME TypeOK, Accounted, NEW x \in Websocks, ref[x] > 0, put_websock(x)
  PROVE  /\ ref' \in [Websocks -> Nat]
         /\ \A w \in Websocks : ref'[w] = ref[w] - Is(w, x)
         /\ \A w \in Websocks : w \in allocated' <=> ref'[w] > 0
         /\ allocated' \subseteq Websocks /\ faults' \subseteq Faults
<1>1. /\ ref \in [Websocks -> Nat] /\ allocated \subseteq Websocks /\ faults \subseteq Faults
      /\ \A w \in Websocks : w \in allocated <=> ref[w] > 0
  BY DEF TypeOK, Accounted
<1>2. /\ ref' = [ref EXCEPT ![x] = @ - 1]
      /\ allocated' = IF ref[x] = 1 THEN allocated \ {x} ELSE allocated
      /\ faults' \subseteq faults \cup {"not told"}
  BY DEF put_websock
<1>3. /\ ref[x] \in Nat /\ ref[x] > 0 /\ ref'[x] = ref[x] - 1
      /\ \A w \in Websocks : w # x => ref'[w] = ref[w]
      /\ DOMAIN ref' = Websocks /\ ref' = [w \in Websocks |-> ref'[w]]
  BY <1>1, <1>2
<1>4. \A w \in Websocks : w \in allocated' <=> ref'[w] > 0
  <2>1. x \in allocated' <=> ref'[x] > 0
    <3>1. CASE ref[x] = 1
      <4>1. ~(ref'[x] > 0)
        BY <1>3, <3>1
      <4>2. x \notin allocated'
        BY <1>2, <3>1
      <4> QED BY <4>1, <4>2
    <3>2. CASE ref[x] # 1
      <4>1. ref'[x] > 0
        BY <1>3, <3>2
      <4>2. allocated' = allocated /\ x \in allocated
        BY <1>1, <1>2, <3>2
      <4> QED BY <4>1, <4>2
    <3> QED BY <3>1, <3>2
  <2>2. \A w \in Websocks : w # x => (w \in allocated' <=> w \in allocated)
    BY <1>2
  <2> QED BY <1>1, <1>3, <2>1, <2>2
<1>5. \A w \in Websocks : ref'[w] = ref[w] - Is(w, x)
  BY <1>1, <1>3 DEF Is
<1>6. ref' \in [Websocks -> Nat]
  <2>1. \A w \in Websocks : ref'[w] \in Nat
    BY <1>1, <1>3
  <2> QED BY <1>3, <2>1
<1> QED BY <1>1, <1>2, <1>4, <1>5, <1>6 DEF Faults

-----------------------------------------------------------------------------
(* What a step leaves alone.                                               *)

(* The connections are the same but for needWriteDoneNotif.                *)
SlotsKept ==
  /\ slot' \in [Slots -> Slot]
  /\ \A s \in Slots :
       /\ slot'[s].fd = slot[s].fd /\ slot'[s].cgi = slot[s].cgi
       /\ slot'[s].cgiData = slot[s].cgiData /\ slot'[s].marked = slot[s].marked

(* Websockets lose their connection.                                       *)
ConnsLost ==
  /\ conn' \in [Websocks -> Slots \cup {NULL}]
  /\ \A w \in Websocks : conn'[w] \in {conn[w], NULL}

(* Entries of websockets without a connection leave the list.              *)
ListLoses ==
  /\ wsList' \in [Indices -> Websocks \cup {NULL}]
  /\ \A i \in Indices :
       \/ wsList'[i] = wsList[i]
       \/ wsList'[i] = NULL /\ wsList[i] # NULL /\ conn[wsList[i]] = NULL

LEMMA WebsocksKept ==
  ASSUME WsInv, SlotsKept, ConnsLost, ListLoses,
         \A w \in Websocks :
           server.pc = "add" /\ server.ws = w => server'.pc = "add" /\ server'.ws = w
  PROVE  SlotInv' /\ OwnConnection' /\ ListInv' /\ OpenIsListed'
<1>1. SlotInv'
  BY DEF WsInv, SlotInv, SlotsKept
<1>2. \A w \in Websocks : conn'[w] # NULL => conn'[w] = conn[w] /\ conn[w] \in Slots
  BY DEF WsInv, TypeOK, ConnsLost
<1>3. OwnConnection'
  BY <1>2 DEF WsInv, OwnConnection, SlotsKept
<1>4. ListInv'
  BY DEF WsInv, ListInv, ListLoses
<1>5. ASSUME Cardinality(Slots) <= ListSize, NEW w \in Websocks, conn'[w] # NULL,
             ~(server'.pc = "add" /\ server'.ws = w)
      PROVE  Listed(w)' # {}
  <2>1. Listed(w) # {}
    BY <1>2, <1>5 DEF WsInv, OpenIsListed
  <2>2. PICK i \in Indices : wsList[i] = w
    BY <2>1 DEF Listed
  <2>3. wsList'[i] = w
    BY <1>2, <1>5, <2>2 DEF ListLoses
  <2> QED BY <2>3 DEF Listed
<1> QED BY <1>1, <1>3, <1>4, <1>5 DEF OpenIsListed

(* The broadcasting tasks while the server task runs.                      *)
LEMMA TasksKept ==
  ASSUME WsInv, task' = task, listMutex' = listMutex,
         wsList' = wsList \/ listMutex = "free",
         \A w \in Websocks : conn'[w] \in {conn[w], NULL} \/ w \notin allocated
  PROVE  TaskInv'
<1> SUFFICES ASSUME NEW t \in Tasks
    PROVE  /\ task[t].pc \in {"match", "send", "put"} <=> task[t].ws # NULL
           /\ task[t].pc \in {"check", "check2"} <=> listMutex = t
           /\ listMutex = t => wsList'[task[t].i] # NULL
           /\ task[t].pc = "check2" =>
                task[t].conn # NULL /\ conn'[wsList'[task[t].i]] \in {task[t].conn, NULL}
  BY DEF TaskInv
<1>1. TaskInv /\ TypeOK /\ Accounted /\ task[t].i \in Indices
  BY DEF WsInv, TypeOK
<1>2. listMutex = t => wsList' = wsList
  BY TasksAssumption
<1>3. ASSUME task[t].pc = "check2"
      PROVE  conn'[wsList'[task[t].i]] \in {task[t].conn, NULL}
  <2>1. listMutex = t /\ wsList' = wsList
    BY <1>1, <1>2, <1>3 DEF TaskInv
  <2>2. PICK w \in Websocks : w = wsList[task[t].i]
    BY <1>1, <2>1 DEF TaskInv, TypeOK
  <2>3. w \in allocated
    BY <1>1, <2>2, ReferredTo
  <2>4. conn[w] \in {task[t].conn, NULL}
    BY <1>1, <1>3, <2>2 DEF TaskInv
  <2> QED BY <2>1, <2>2, <2>3, <2>4
<1> QED BY <1>1, <1>2, <1>3 DEF TaskInv

(* A task leaves the others alone, as it changes the list only with its    *)
(* mutex.                                                                  *)
OthersFine(t) ==
  \A u \in Tasks \ {t} :
    /\ task'[u].pc \in {"match", "send", "put"} <=> task'[u].ws # NULL
    /\ task'[u].pc \in {"check", "check2"} <=> listMutex' = u
    /\ listMutex' = u => wsList'[task'[u].i] # NULL
    /\ task'[u].pc = "check2" =>
         task'[u].conn # NULL /\ conn'[wsList'[task'[u].i]] \in {task'[u].conn, NULL}

LEMMA OtherTasks ==
  ASSUME WsInv, NEW t \in Tasks, \A u \in Tasks \ {t} : task'[u] = task[u], conn' = conn,
         \/ listMutex' = listMutex /\ wsList' = wsList
         \/ listMutex = "free" /\ listMutex' = t /\ wsList' = wsList
         \/ listMutex = t /\ listMutex' = "free"
  PROVE  OthersFine(t)
<1> SUFFICES ASSUME NEW u \in Tasks \ {t}
    PROVE  /\ task[u].pc \in {"match", "send", "put"} <=> task[u].ws # NULL
           /\ task[u].pc \in {"check", "check2"} <=> listMutex' = u
           /\ listMutex' = u => wsList'[task[u].i] # NULL
           /\ task[u].pc = "check2" =>
                task[u].conn # NULL /\ conn[wsList'[task[u].i]] \in {task[u].conn, NULL}
  BY DEF OthersFine
<1>1. listMutex' = u <=> listMutex = u
  BY TasksAssumption
<1>2. listMutex = u => wsList' = wsList
  BY TasksAssumption
<1>3. TaskInv
  BY DEF WsInv
<1> QED BY <1>1, <1>2, <1>3 DEF TaskInv

LEMMA AllTasks ==
  ASSUME NEW t \in Tasks, OthersFine(t),
         task'[t].pc \in {"match", "send", "put"} <=> task'[t].ws # NULL,
         task'[t].pc \in {"check", "check2"} <=> listMutex' = t,
         listMutex' = t => wsList'[task'[t].i] # NULL,
         task'[t].pc = "check2" =>
           task'[t].conn # NULL /\ conn'[wsList'[task'[t].i]] \in {task'[t].conn, NULL}
  PROVE  TaskInv'
BY DEF OthersFine, TaskInv

(* Nothing refers to another websocket than before.                        *)
LEMMA CountsKept ==
  ASSUME WsInv, UNCHANGED <<ref, allocated, wsList, lost>>, server'.ws = server.ws,
         \A s \in Slots : slot'[s].cgiData = slot[s].cgiData,
         \A t \in Tasks : task'[t].ws = task[t].ws
  PROVE  Accounted'
<1> SUFFICES ASSUME NEW w \in Websocks
    PROVE ref[w] = Sum(w)' /\ (w \in allocated <=> ref[w] > 0)
  BY DEF Accounted, Sum, NumListed, NumOwners, NumUsers
<1>1. Listed(w)' = Listed(w) /\ Owners(w)' = Owners(w) /\ Users(w)' = Users(w)
  BY DEF Listed, Owners, Users
<1>2. Called(w)' = Called(w)
  BY DEF Called
<1> QED BY <1>1, <1>2, AccountedIs DEF WsInv, Sum, NumListed, NumOwners, NumUsers

(* cgiWebsocketClose.                                                      *)
LEMMA CloseCase ==
  ASSUME WsInv, NEW x \in Websocks, cgiWebsocketClose(x)
  PROVE  SlotsKept /\ ConnsLost /\ told' \subseteq Websocks /\ conn'[x] = NULL
<1>1. /\ slot \in [Slots -> Slot] /\ conn \in [Websocks -> Slots \cup {NULL}]
      /\ told \subseteq Websocks
  BY DEF WsInv, TypeOK
<1>2. CASE conn[x] # NULL
  <2>1. PICK s \in Slots : s = conn[x]
    BY <1>1, <1>2
  <2>2. /\ slot' = [slot EXCEPT ![s].notif = 1] /\ conn' = [conn EXCEPT ![x] = NULL]
        /\ told' = told \cup {x}
    BY <1>2, <2>1 DEF cgiWebsocketClose
  <2>3. slot[s] \in Slot
    BY <1>1
  <2>4. [slot[s] EXCEPT !.notif = 1] \in Slot
    BY <2>3 DEF Slot
  <2>5. slot' = [slot EXCEPT ![s] = [slot[s] EXCEPT !.notif = 1]]
    BY <2>2
  <2>6. slot' \in [Slots -> Slot]
    BY <1>1, <2>4, <2>5
  <2>7. SlotsKept
    BY <1>1, <2>3, <2>5, <2>6 DEF SlotsKept, Slot
  <2>8. ConnsLost
    BY <1>1, <2>2 DEF ConnsLost
  <2> QED BY <1>1, <2>2, <2>7, <2>8
<1>3. CASE conn[x] = NULL
  BY <1>1, <1>3 DEF cgiWebsocketClose, SlotsKept, ConnsLost
<1> QED BY <1>2, <1>3

-----------------------------------------------------------------------------
(* The steps of the server task and of the application in which nothing is *)
(* referred to anew.                                                       *)

ServerTypes ==
  /\ server \in ServerState /\ task \in [Tasks -> TaskState]
  /\ slot \in [Slots -> Slot] /\ conn \in [Websocks -> Slots \cup {NULL}]
  /\ wsList \in [Indices -> Websocks \cup {NULL}]

LEMMA Types ==
  ASSUME WsInv
  PROVE  /\ TypeOK /\ Accounted /\ ServerTypes
         /\ SlotInv /\ ServerInv /\ OwnConnection /\ TaskInv /\ ListInv
BY Zenon DEF WsInv, TypeOK, ServerTypes, ServerState, TaskState

LEMMA TypesAgain ==
  ASSUME WsInv, slot' \in [Slots -> Slot], conn' \in [Websocks -> Slots \cup {NULL}],
         ref' \in [Websocks -> Nat], allocated' \subseteq Websocks,
         wsList' \in [Indices -> Websocks \cup {NULL}],
         listMutex' \in Tasks \cup {"free"},
         server' \in ServerState, task' \in [Tasks -> TaskState],
         told' \subseteq Websocks, lost' \in [Websocks -> Nat], faults' \subseteq Faults
  PROVE  TypeOK'
BY Zenon DEF TypeOK, ServerState, TaskState

LEMMA WsInit == Init => WsInv
<1> SUFFICES ASSUME Init PROVE WsInv
  OBVIOUS
<1>1. /\ slot = [s \in Slots |-> [Fresh EXCEPT !.fd = "none"]]
      /\ ref = [w \in Websocks |-> 0] /\ conn = [w \in Websocks |-> NULL]
      /\ allocated = {} /\ wsList = [i \in Indices |-> NULL] /\ listMutex = "free"
      /\ server = Idle /\ task = [t \in Tasks |-> Resting]
      /\ told = {} /\ lost = [w \in Websocks |-> 0] /\ faults = {}
  BY DEF Init
<1>2. 1 \in Indices
  BY SizeAssumption DEF Indices
<1>3. TypeOK
  <2>1. [Fresh EXCEPT !.fd = "none"] \in Slot
    BY DEF Fresh, Slot
  <2>2. Idle \in ServerState
    BY DEF Idle, ServerState
  <2>3. Resting \in TaskState
    BY <1>2 DEF Resting, TaskState
  <2>4. slot \in [Slots -> Slot] /\ task \in [Tasks -> TaskState]
    BY <1>1, <2>1, <2>3
  <2>5. /\ ref \in [Websocks -> Nat] /\ lost \in [Websocks -> Nat]
        /\ conn \in [Websocks -> Slots \cup {NULL}]
        /\ wsList \in [Indices -> Websocks \cup {NULL}]
    BY <1>1
  <2>6. /\ allocated \subseteq Websocks /\ told \subseteq Websocks
        /\ faults \subseteq Faults /\ listMutex \in Tasks \cup {"free"}
    BY <1>1
  <2>7. server \in ServerState
    BY <1>1, <2>2
  <2> QED BY <2>4, <2>5, <2>6, <2>7, Zenon DEF TypeOK, ServerState, TaskState
<1>4. \A s \in Slots : slot[s].cgiData = NULL
  BY <1>1 DEF Fresh
<1>5. \A t \in Tasks : task[t].ws = NULL /\ task[t].pc = "rest"
  BY <1>1 DEF Resting
<1>6. server.pc = "idle" /\ server.ws = NULL
  BY <1>1 DEF Idle
<1>7. \A w \in Websocks : w # NULL
  BY NullAssumption
<1>8. Accounted
  <2> SUFFICES ASSUME NEW w \in Websocks
               PROVE  ref[w] = Sum(w) /\ (w \in allocated <=> ref[w] > 0)
    BY AccountedIs
  <2>1. Listed(w) = {} /\ Owners(w) = {} /\ Users(w) = {} /\ Called(w) = 0
    BY <1>1, <1>4, <1>5, <1>6, <1>7 DEF Listed, Owners, Users, Called
  <2>2. ref[w] = 0 /\ lost[w] = 0 /\ w \notin allocated
    BY <1>1
  <2> QED BY <2>1, <2>2, FS_EmptySet DEF Sum, NumListed, NumOwners, NumUsers
<1>9. \A w \in Websocks : conn[w] = NULL
  BY <1>1
<1>10. TaskInv
  BY <1>1, <1>5, TasksAssumption DEF TaskInv
<1> QED BY <1>1, <1>3, <1>4, <1>6, <1>8, <1>9, <1>10
        DEF WsInv, OwnConnection, SlotInv, ServerInv, ListInv, OpenIsListed

LEMMA SameConns ==
  ASSUME WsInv
  PROVE  /\ UNCHANGED slot => SlotsKept
         /\ UNCHANGED conn => ConnsLost
BY DEF WsInv, TypeOK, SlotsKept, ConnsLost

(* Websockets lose their connection at most.                               *)
LEMMA QuietStep ==
  ASSUME WsInv, SlotsKept, ConnsLost, told' \subseteq Websocks,
         UNCHANGED <<ref, allocated, wsList, listMutex, task, lost>>,
         faults' \subseteq Faults, server' \in ServerState,
         server'.ws = server.ws, server'.slot = server.slot,
         server'.pc = server.pc \/ (server.pc = "recv" /\ server'.pc = "done" /\ conn'[server.ws] = NULL)
  PROVE  WsInv'
<1>2. ListLoses
  BY Types DEF ListLoses, ServerTypes
<1>3. SlotInv' /\ OwnConnection' /\ ListInv' /\ OpenIsListed'
  BY <1>2, WebsocksKept
<1>4. TaskInv'
  BY TasksKept DEF ConnsLost
<1>5. Accounted'
  BY CountsKept DEF SlotsKept
<1>6. TypeOK'
  <2>1. /\ ref \in [Websocks -> Nat] /\ allocated \subseteq Websocks
        /\ wsList \in [Indices -> Websocks \cup {NULL}]
        /\ listMutex \in Tasks \cup {"free"}
        /\ task \in [Tasks -> TaskState] /\ lost \in [Websocks -> Nat]
    BY Types, Zenon DEF TypeOK, TaskState
  <2> QED BY <2>1, TypesAgain DEF SlotsKept, ConnsLost
<1>7. ServerInv'
  <2>1. ServerInv
    BY Types
  <2>2. server.ws \in Websocks => conn'[server.ws] \in {conn[server.ws], NULL}
    BY DEF ConnsLost
  <2>3. server.slot \in Slots => slot'[server.slot].cgiData = slot[server.slot].cgiData
    BY DEF SlotsKept
  <2>4. Listed(server.ws)' = Listed(server.ws)
    BY DEF Listed
  <2> QED BY <2>1, <2>2, <2>3, <2>4 DEF ServerInv
<1> QED BY <1>3, <1>4, <1>5, <1>6, <1>7 DEF WsInv

-----------------------------------------------------------------------------
(* The steps of the server task in which references come and go.           *)

(* A connection is left with no websocket.                                 *)
LEMMA SlotDrops ==
  ASSUME WsInv, NEW s \in Slots, NEW v \in Slot, v.cgiData = NULL,
         slot' = [slot EXCEPT ![s] = v], ConnsLost, \A w \in Websocks : conn'[w] # s,
         UNCHANGED wsList, server.pc # "add"
  PROVE  /\ SlotInv' /\ OwnConnection' /\ ListInv' /\ OpenIsListed'
         /\ slot' \in [Slots -> Slot] /\ conn' \in [Websocks -> Slots \cup {NULL}]
         /\ slot'[s] = v /\ \A d \in Slots \ {s} : slot'[d] = slot[d]
<1>1. /\ slot' \in [Slots -> Slot] /\ slot'[s] = v
      /\ \A d \in Slots \ {s} : slot'[d] = slot[d]
  BY Types DEF ServerTypes
<1>2. SlotInv'
  BY <1>1, Types DEF SlotInv
<1>3. \A w \in Websocks :
        conn'[w] # NULL => conn'[w] = conn[w] /\ conn[w] \in Slots \ {s}
  BY Types DEF ServerTypes, ConnsLost
<1>4. OwnConnection'
  BY <1>1, <1>3, Types DEF OwnConnection
<1>5. ListInv'
  BY Types DEF ListInv
<1>6. \A w \in Websocks : Listed(w)' = Listed(w)
  BY DEF Listed
<1>7. OpenIsListed'
  BY <1>3, <1>6 DEF WsInv, OpenIsListed
<1> QED BY <1>1, <1>2, <1>4, <1>5, <1>7 DEF ConnsLost

LEMMA SumType ==
  ASSUME WsInv, NEW w \in Websocks
  PROVE  /\ NumListed(w) \in Nat /\ NumOwners(w) \in Nat /\ NumUsers(w) \in Nat
         /\ Called(w) \in 0 .. 1 /\ lost[w] \in Nat /\ Sum(w) \in Nat
         /\ ref[w] = Sum(w) /\ (w \in allocated <=> ref[w] > 0)
<1>1. /\ NumListed(w) \in Nat /\ NumOwners(w) \in Nat /\ NumUsers(w) \in Nat
      /\ Called(w) \in 0 .. 1
  BY CountsAre
<1>2. ref[w] = Sum(w) /\ (w \in allocated <=> ref[w] > 0)
  BY Types, AccountedIs
<1>3. lost[w] \in Nat
  BY DEF WsInv, TypeOK
<1> QED BY <1>1, <1>2, <1>3 DEF Sum

LEMMA PutStep ==
  ASSUME WsInv, NEW x \in Websocks, ref[x] > 0, put_websock(x),
         \A w \in Websocks : Sum(w)' = Sum(w) - Is(w, x)
  PROVE  /\ Accounted' /\ ref' \in [Websocks -> Nat]
         /\ allocated' \subseteq Websocks /\ faults' \subseteq Faults
<1>1. /\ ref' \in [Websocks -> Nat]
      /\ \A w \in Websocks : ref'[w] = ref[w] - Is(w, x)
      /\ \A w \in Websocks : w \in allocated' <=> ref'[w] > 0
      /\ allocated' \subseteq Websocks /\ faults' \subseteq Faults
  BY Types, PutCase
<1>2. \A w \in Websocks : ref'[w] = Sum(w)'
  BY <1>1, SumType
<1>3. Accounted'
  BY <1>1, <1>2 DEF Accounted, Sum, NumListed, NumOwners, NumUsers
<1> QED BY <1>1, <1>3

(* The parts of the types that the server task leaves alone.               *)
LEMMA OtherTypes ==
  ASSUME WsInv
  PROVE  /\ wsList \in [Indices -> Websocks \cup {NULL}]
         /\ listMutex \in Tasks \cup {"free"} /\ task \in [Tasks -> TaskState]
         /\ lost \in [Websocks -> Nat] /\ told \subseteq Websocks
         /\ ref \in [Websocks -> Nat] /\ allocated \subseteq Websocks /\ faults \subseteq Faults
         /\ slot \in [Slots -> Slot] /\ conn \in [Websocks -> Slots \cup {NULL}]
         /\ server \in ServerState
BY Zenon DEF WsInv, TypeOK, TaskState, ServerState

LEMMA IdleIs == Idle \in ServerState /\ Idle.pc = "idle" /\ Idle.ws = NULL
BY DEF Idle, ServerState

LEMMA FreshIs ==
  /\ Fresh \in Slot /\ Fresh.cgiData = NULL
  /\ [Fresh EXCEPT !.fd = "none"] \in Slot
  /\ [Fresh EXCEPT !.fd = "none"].cgiData = NULL
BY DEF Fresh, Slot

(* A connection without a websocket is opened, refused or closed.          *)
LEMMA BareStep ==
  ASSUME WsInv, NEW s \in Slots, NEW v \in Slot, v.cgiData = NULL, slot[s].cgiData = NULL,
         slot' = [slot EXCEPT ![s] = v], server.pc = "idle",
         UNCHANGED <<ref, conn, allocated, wsList, listMutex, server, task, told, lost, faults>>
  PROVE  WsInv'
<1>1. \A w \in Websocks : conn[w] # s
  BY Types, NullAssumption DEF OwnConnection
<1>2. /\ SlotInv' /\ OwnConnection' /\ ListInv' /\ OpenIsListed'
      /\ slot' \in [Slots -> Slot] /\ conn' \in [Websocks -> Slots \cup {NULL}]
      /\ slot'[s] = v /\ \A d \in Slots \ {s} : slot'[d] = slot[d]
  BY <1>1, SameConns, SlotDrops
<1>3. TaskInv'
  BY TasksKept
<1>4. Accounted'
  BY <1>2, CountsKept
<1>5. ServerInv'
  BY Types DEF ServerInv
<1>6. TypeOK'
  BY <1>2, OtherTypes, TypesAgain
<1> QED BY <1>2, <1>3, <1>4, <1>5, <1>6 DEF WsInv

LEMMA WaitsIs ==
  ASSUME NEW s, Waits(s)
  PROVE  /\ slot[s] \in Slot /\ slot[s].cgiData = NULL /\ slot[s].fd = "open"
         /\ slot[s].marked = 0 /\ slot[s].notif \in 0 .. 1
BY DEF Waits, Fresh, Slot

LEMMA ConnectStep ==
  ASSUME WsInv, NEW s \in Slots, Connect(s) \/ UpgradeRefused(s)
  PROVE  WsInv'
<1>1. CASE Connect(s)
  <2>1. slot[s].cgiData = NULL
    BY <1>1, Types DEF Connect, SlotInv
  <2> QED BY <1>1, <2>1, FreshIs, BareStep DEF Connect, taskVars
<1>2. CASE UpgradeRefused(s)
  <2>0. PICK marked \in 0 .. 1, notif \in 0 .. 1 : slot' = [slot EXCEPT ![s].marked = marked, ![s].notif = notif]
    <3>1. slot[s].notif \in 0 .. 1
      BY <1>2, WaitsIs DEF UpgradeRefused
    <3>2. slot[s].notif .. 1 \subseteq 0 .. 1
      BY <3>1
    <3>3. PICK marked \in 0 .. 1, notif \in slot[s].notif .. 1 :
            slot' = [slot EXCEPT ![s].marked = marked, ![s].notif = notif]
      BY <1>2, Zenon DEF UpgradeRefused
    <3> QED BY <3>2, <3>3
  <2> DEFINE v == [slot[s] EXCEPT !.marked = marked, !.notif = notif]
  <2>1. Waits(s) /\ server.pc = "idle" /\ slot \in [Slots -> Slot]
    BY <1>2, OtherTypes DEF UpgradeRefused
  <2>2. v \in Slot /\ v.cgiData = NULL
    <3>1. slot[s] \in Slot /\ slot[s].cgiData = NULL
      BY <2>1, WaitsIs
    <3>2. [slot[s] EXCEPT !.marked = marked] \in Slot /\ [slot[s] EXCEPT !.marked = marked].cgiData = NULL
      BY <3>1 DEF Slot
    <3> DEFINE m == [slot[s] EXCEPT !.marked = marked]
    <3>3. v = [m EXCEPT !.notif = notif]
      OBVIOUS
    <3> HIDE DEF m
    <3>4. [m EXCEPT !.notif = notif] \in Slot /\ [m EXCEPT !.notif = notif].cgiData = NULL
      BY <3>2 DEF Slot, m
    <3> QED BY <3>3, <3>4
  <2>3. slot' = [slot EXCEPT ![s] = v]
    BY <2>1, <2>0
  <2> HIDE DEF v
  <2>5. slot[s].cgiData = NULL
    BY <2>1, WaitsIs
  <2> QED BY <1>2, <2>1, <2>2, <2>3, <2>5, BareStep DEF UpgradeRefused, taskVars
<1> QED BY <1>1, <1>2

LEMMA UpgradeStep ==
  ASSUME WsInv, NEW s \in Slots, Upgrade(s)
  PROVE  WsInv'
<1>1. PICK w \in Websocks \ allocated :
       /\ allocated' = allocated \cup {w}
       /\ ref' = [ref EXCEPT ![w] = 2]
       /\ \/ conn' = [conn EXCEPT ![w] = s] /\ told' = told \ {w}
          \/ conn' = [conn EXCEPT ![w] = NULL] /\ told' = told \cup {w}
       /\ slot' = [slot EXCEPT ![s].cgi = "cgiWebsocket",
                               ![s].recvHdl = "cgiWebSocketRecv",
                               ![s].cgiData = w]
       /\ server' = [Idle EXCEPT !.pc = "add", !.slot = s, !.ws = w]
  BY DEF Upgrade
<1>2. /\ server.pc = "idle" /\ Waits(s)
      /\ UNCHANGED <<wsList, listMutex, task, lost, faults>>
  BY DEF Upgrade, taskVars
<1> DEFINE v == [slot[s] EXCEPT !.cgi = "cgiWebsocket", !.recvHdl = "cgiWebSocketRecv", !.cgiData = w]
           u == [Idle EXCEPT !.pc = "add", !.slot = s, !.ws = w]
<1>3. /\ v \in Slot /\ v.cgiData = w /\ v.cgi = "cgiWebsocket" /\ v.fd = "open" /\ v.marked = 0
      /\ u \in ServerState /\ u.pc = "add" /\ u.slot = s /\ u.ws = w
  <2>1. slot[s] \in Slot /\ slot[s].fd = "open" /\ slot[s].marked = 0
    BY <1>2, WaitsIs
  <2>2. /\ v \in Slot /\ v.cgiData = w /\ v.cgi = "cgiWebsocket"
        /\ v.fd = "open" /\ v.marked = 0
    BY <2>1 DEF Slot
  <2>3. u \in ServerState /\ u.pc = "add" /\ u.slot = s /\ u.ws = w
    BY IdleIs DEF ServerState
  <2> QED BY <2>2, <2>3
<1>4. slot' = [slot EXCEPT ![s] = v] /\ server' = u
  BY <1>1
<1> HIDE DEF v, u
<1>5. /\ slot' \in [Slots -> Slot] /\ slot'[s] = v
      /\ \A d \in Slots \ {s} : slot'[d] = slot[d]
  BY <1>3, <1>4, OtherTypes
<1>6. /\ conn' \in [Websocks -> Slots \cup {NULL}] /\ conn'[w] \in {s, NULL}
      /\ \A x \in Websocks \ {w} : conn'[x] = conn[x]
  BY <1>1, OtherTypes
<1>7. slot[s].cgiData = NULL /\ server.ws = NULL /\ w # NULL
  BY <1>2, WaitsIs, Types, NullAssumption DEF ServerInv
<1>8. SlotInv'
  BY <1>3, <1>5, Types DEF SlotInv
<1>9. OwnConnection'
  <2>1. \A x \in Websocks : conn[x] # NULL => conn[x] # s
    BY <1>7, Types, NullAssumption DEF OwnConnection
  <2> QED BY <1>3, <1>5, <1>6, <2>1, Types DEF OwnConnection, ServerTypes
<1>10. Listed(w) = {}
  <2>1. ref[w] = 0
    BY <1>1, SumType
  <2>2. NumListed(w) = 0
    BY <2>1, SumType DEF Sum
  <2> QED BY <2>2, CountsAre
<1>11. \A x \in Websocks : Listed(x)' = Listed(x)
  BY <1>2 DEF Listed
<1>12. ServerInv'
  BY <1>3, <1>4, <1>5, <1>10, <1>11 DEF ServerInv
<1>13. TaskInv'
  BY <1>1, <1>2, <1>6, TasksKept
<1>14. OpenIsListed'
  BY <1>2, <1>3, <1>4, <1>6, <1>11 DEF WsInv, OpenIsListed
<1>15. Accounted'
  <2> SUFFICES ASSUME NEW x \in Websocks
               PROVE  ref'[x] = Sum(x)' /\ (x \in allocated' <=> ref'[x] > 0)
    BY DEF Accounted, Sum, NumListed, NumOwners, NumUsers
  <2>1. NumOwners(x)' = NumOwners(x) - Is(NULL, x) + Is(w, x)
    BY <1>3, <1>5, <1>7, OwnersStep
  <2>2. NumListed(x)' = NumListed(x) /\ NumUsers(x)' = NumUsers(x) /\ lost'[x] = lost[x]
    BY <1>2, SameCounts
  <2>3. Called(x) = 0 /\ Called(x)' = Is(w, x)
    BY <1>3, <1>4, <1>7, NullAssumption DEF Called, Is
  <2>4. Is(NULL, x) = 0 /\ Is(w, x) = IF x = w THEN 1 ELSE 0
    BY NullAssumption DEF Is
  <2>5. ref'[x] = IF x = w THEN 2 ELSE ref[x]
    BY <1>1, OtherTypes
  <2>6. x = w => ref[x] = 0
    BY <1>1, SumType
  <2>7. ref'[x] = Sum(x)'
    BY <2>1, <2>2, <2>3, <2>4, <2>5, <2>6, SumType DEF Sum
  <2>8. x \in allocated' <=> ref'[x] > 0
    BY <1>1, <2>5, SumType
  <2> QED BY <2>7, <2>8
<1>16. TypeOK'
  <2>1. ref' \in [Websocks -> Nat]
    BY <1>1, OtherTypes
  <2>2. allocated' \subseteq Websocks /\ told' \subseteq Websocks
    BY <1>1, OtherTypes
  <2> QED BY <1>2, <1>3, <1>4, <1>5, <1>6, <2>1, <2>2, OtherTypes, TypesAgain
<1>17. ListInv'
  BY <1>2, Types DEF ListInv
<1> QED BY <1>8, <1>9, <1>12, <1>13, <1>14, <1>15, <1>16, <1>17 DEF WsInv

LEMMA RecvBeginStep ==
  ASSUME WsInv, NEW s \in Slots, RecvBegin(s)
  PROVE  WsInv'
<1> DEFINE w == slot[s].cgiData
<1>1. /\ server.pc = "idle" /\ server.ws = NULL
      /\ UNCHANGED <<slot, conn, allocated, wsList, listMutex, task, told, lost>>
  BY Types DEF RecvBegin, taskVars, ServerInv
<1>2. CASE w = NULL
  <2>1. faults' \subseteq Faults /\ UNCHANGED <<ref, server>>
    BY <1>2, OtherTypes DEF RecvBegin, Faults
  <2> QED BY <1>1, <2>1, OtherTypes, SameConns, QuietStep
<1>3. CASE w # NULL
  <2>1. w \in Websocks
    BY <1>3, OtherTypes DEF Slot
  <2> DEFINE u == [Idle EXCEPT !.pc = "recv", !.slot = s, !.ws = w]
  <2>2. ref' = [ref EXCEPT ![w] = @ + 1] /\ server' = u /\ UNCHANGED faults
    BY <1>3 DEF RecvBegin
  <2>3. ref[w] > 0
    BY <2>1, Types, ReferredTo
  <2> HIDE DEF w
  <2>4. u \in ServerState /\ u.pc = "recv" /\ u.slot = s /\ u.ws = w
    BY <2>1, IdleIs DEF ServerState
  <2> HIDE DEF u
  <2>5. SlotsKept /\ ConnsLost /\ ListLoses
    BY <1>1, SameConns, OtherTypes DEF ListLoses
  <2>6. SlotInv' /\ OwnConnection' /\ ListInv' /\ OpenIsListed'
    BY <1>1, <2>5, WebsocksKept
  <2>7. TaskInv'
    BY <1>1, TasksKept
  <2>8. ServerInv'
    BY <1>1, <2>1, <2>2, <2>4 DEF ServerInv, w
  <2>9. Accounted'
    <3> SUFFICES ASSUME NEW x \in Websocks
                 PROVE  ref'[x] = Sum(x)' /\ (x \in allocated' <=> ref'[x] > 0)
      BY DEF Accounted, Sum, NumListed, NumOwners, NumUsers
    <3>1. /\ NumListed(x)' = NumListed(x) /\ NumUsers(x)' = NumUsers(x)
          /\ NumOwners(x)' = NumOwners(x) /\ lost'[x] = lost[x]
      BY <1>1, SameCounts
    <3>2. Called(x) = 0 /\ Called(x)' = IF x = w THEN 1 ELSE 0
      BY <1>1, <2>2, <2>4, NullAssumption DEF Called
    <3>3. ref'[x] = IF x = w THEN ref[x] + 1 ELSE ref[x]
      BY <2>1, <2>2, OtherTypes
    <3>4. ref'[x] = Sum(x)'
      BY <3>1, <3>2, <3>3, SumType DEF Sum
    <3>5. x \in allocated' <=> ref'[x] > 0
      <4>1. ref'[x] > 0 <=> ref[x] > 0
        BY <2>3, <3>3, SumType
      <4> QED BY <1>1, <4>1, SumType
    <3> QED BY <3>4, <3>5
  <2>10. TypeOK'
    <3>1. ref' \in [Websocks -> Nat]
      BY <2>1, <2>2, OtherTypes
    <3> QED BY <1>1, <2>2, <2>4, <3>1, OtherTypes, TypesAgain
  <2> QED BY <2>6, <2>7, <2>8, <2>9, <2>10 DEF WsInv
<1> QED BY <1>2, <1>3

LEMMA FramesStep ==
  ASSUME WsInv, Ping \/ Data \/ CloseFrame
  PROVE  WsInv'
<1>1. server.pc = "recv" /\ server \in ServerState /\ server.ws \in Websocks
  BY Types, OtherTypes DEF Ping, Data, CloseFrame, ServerInv
<1>2. CASE Ping
  <2>1. UNCHANGED <<slot, ref, conn, allocated, wsList, listMutex, task, told, lost>>
    BY <1>2 DEF Ping, taskVars
  <2>2. /\ server' \in ServerState /\ server'.ws = server.ws /\ server'.slot = server.slot
        /\ server'.pc = server.pc /\ faults' \subseteq Faults
    <3>1. /\ server' = server \/ server' = [server EXCEPT !.out = 1]
          /\ faults' = faults \/ faults' = faults \cup {"ws->conn is NULL"}
      BY <1>2 DEF Ping
    <3>2. faults' \subseteq Faults
      BY <3>1, OtherTypes DEF Faults
    <3>3. CASE server' = server
      BY <1>1, <3>2, <3>3
    <3>4. CASE server' = [server EXCEPT !.out = 1]
      BY <1>1, <3>2, <3>4 DEF ServerState
    <3> QED BY <3>1, <3>3, <3>4
  <2> QED BY <2>1, <2>2, OtherTypes, SameConns, QuietStep
<1>3. CASE Data
  <2>1. UNCHANGED <<ref, allocated, wsList, server, listMutex, task, lost, faults>>
    BY <1>3 DEF Data, taskVars
  <2>2. SlotsKept /\ ConnsLost /\ told' \subseteq Websocks
    <3>1. CASE UNCHANGED <<slot, conn, told>>
      BY <3>1, SameConns, OtherTypes
    <3>2. CASE cgiWebsocketClose(server.ws)
      BY <1>1, <3>2, CloseCase
    <3> QED BY <1>3, <3>1, <3>2 DEF Data, Callback
  <2> QED BY <2>1, <2>2, OtherTypes, QuietStep
<1>4. CASE CloseFrame
  <2>1. UNCHANGED <<ref, allocated, wsList, listMutex, task, lost, faults>>
    BY <1>4 DEF CloseFrame, taskVars
  <2>2. SlotsKept /\ ConnsLost /\ told' \subseteq Websocks /\ conn'[server.ws] = NULL
    BY <1>1, <1>4, CloseCase DEF CloseFrame
  <2>3. /\ server' \in ServerState /\ server'.ws = server.ws /\ server'.slot = server.slot
        /\ server'.pc = "done"
    <3>1. server' = [server EXCEPT !.pc = "done", !.r = "DONE"]
      BY <1>4 DEF CloseFrame
    <3> QED BY <1>1, <3>1 DEF ServerState
  <2> QED BY <1>1, <2>1, <2>2, <2>3, OtherTypes, QuietStep
<1> QED BY <1>2, <1>3, <1>4

(* The reference of the callback is put.                                   *)
LEMMA CallPut ==
  ASSUME WsInv, server.pc # "idle", server'.ws = NULL, UNCHANGED <<wsList, task, lost>>,
         \A s \in Slots : slot'[s].cgiData = slot[s].cgiData
  PROVE  /\ server.ws \in Websocks /\ ref[server.ws] > 0
         /\ \A w \in Websocks : Sum(w)' = Sum(w) - Is(w, server.ws)
<1>1. server.ws \in Websocks /\ server.ws # NULL
  BY Types, NullAssumption DEF ServerInv
<1>2. ref[server.ws] > 0
  BY <1>1, Types, ReferredTo
<1>3. ASSUME NEW w \in Websocks PROVE Sum(w)' = Sum(w) - Is(w, server.ws)
  <2>1. /\ NumListed(w)' = NumListed(w) /\ NumUsers(w)' = NumUsers(w)
        /\ NumOwners(w)' = NumOwners(w) /\ lost'[w] = lost[w]
    BY SameCounts
  <2>2. Called(w) = Is(w, server.ws) /\ Called(w)' = 0
    BY NullAssumption DEF Called, Is
  <2> QED BY <2>1, <2>2, SumType DEF Sum
<1> QED BY <1>1, <1>2, <1>3

LEMMA RecvMoreStep ==
  ASSUME WsInv, RecvMore
  PROVE  WsInv'
<1>1. /\ server.pc = "recv" /\ server.slot \in Slots /\ put_websock(server.ws)
      /\ server' = Idle /\ UNCHANGED <<conn, wsList, listMutex, task, told, lost>>
      /\ slot' = [slot EXCEPT ![server.slot].notif = IF server.out = 1 THEN 1 ELSE @]
  BY Types DEF RecvMore, taskVars, ServerInv
<1>2. SlotsKept
  <2>1. PICK s \in Slots : s = server.slot
    BY <1>1
  <2> DEFINE n == IF server.out = 1 THEN 1 ELSE slot[s].notif
             v == [slot[s] EXCEPT !.notif = n]
  <2>2. slot[s] \in Slot /\ n \in 0 .. 1
    BY OtherTypes DEF Slot
  <2>3. slot' = [slot EXCEPT ![s] = v]
    BY <1>1, <2>1
  <2> HIDE DEF n
  <2>4. /\ v \in Slot /\ v.fd = slot[s].fd /\ v.cgi = slot[s].cgi
        /\ v.cgiData = slot[s].cgiData /\ v.marked = slot[s].marked
    BY <2>2 DEF Slot
  <2> HIDE DEF v
  <2> QED BY <2>3, <2>4, OtherTypes DEF SlotsKept
<1>3. ConnsLost /\ ListLoses
  BY <1>1, SameConns, OtherTypes DEF ListLoses
<1>4. SlotInv' /\ OwnConnection' /\ ListInv' /\ OpenIsListed'
  BY <1>1, <1>2, <1>3, WebsocksKept
<1>5. TaskInv'
  BY <1>1, TasksKept
<1>6. ServerInv'
  BY <1>1, IdleIs DEF ServerInv
<1>7. /\ server.ws \in Websocks /\ ref[server.ws] > 0
      /\ \A w \in Websocks : Sum(w)' = Sum(w) - Is(w, server.ws)
  BY <1>1, <1>2, IdleIs, CallPut DEF SlotsKept
<1>8. PICK x \in Websocks : x = server.ws
  BY <1>7
<1>9. /\ Accounted' /\ ref' \in [Websocks -> Nat]
      /\ allocated' \subseteq Websocks /\ faults' \subseteq Faults
  BY <1>1, <1>7, <1>8, PutStep
<1>10. TypeOK'
  BY <1>1, <1>2, <1>9, IdleIs, OtherTypes, TypesAgain DEF SlotsKept
<1> QED BY <1>4, <1>5, <1>6, <1>9, <1>10 DEF WsInv

LEMMA RecvPutsDataStep ==
  ASSUME WsInv, RecvPutsData
  PROVE  WsInv'
<1>1. PICK s \in Slots : s = server.slot
  BY Types DEF RecvPutsData, ServerInv
<1>2. PICK x \in Websocks : x = server.ws
  BY Types DEF RecvPutsData, ServerInv
<1>3. /\ server.pc = "done" /\ slot[s].cgiData = x /\ put_websock(x) /\ conn[x] = NULL
      /\ slot' = [slot EXCEPT ![s].cgiData = NULL]
      /\ server' = [server EXCEPT !.pc = "return"]
      /\ UNCHANGED <<conn, wsList, listMutex, task, told, lost>>
  BY <1>1, <1>2, Types DEF RecvPutsData, taskVars, ServerInv
<1> DEFINE v == [slot[s] EXCEPT !.cgiData = NULL]
<1>4. v \in Slot /\ v.cgiData = NULL
  <2>1. slot[s] \in Slot
    BY OtherTypes
  <2> QED BY <2>1 DEF Slot
<1>5. slot' = [slot EXCEPT ![s] = v]
  BY <1>3
<1> HIDE DEF v
<1>6. \A w \in Websocks : conn'[w] # s
  BY <1>3, Types, NullAssumption DEF OwnConnection
<1>7. /\ SlotInv' /\ OwnConnection' /\ ListInv' /\ OpenIsListed'
      /\ slot' \in [Slots -> Slot] /\ conn' \in [Websocks -> Slots \cup {NULL}]
      /\ slot'[s] = v /\ \A d \in Slots \ {s} : slot'[d] = slot[d]
  BY <1>3, <1>4, <1>5, <1>6, SameConns, SlotDrops
<1>8. /\ server' \in ServerState /\ server'.pc = "return"
      /\ server'.ws = server.ws /\ server'.slot = server.slot
  BY <1>3, OtherTypes DEF ServerState
<1>9. TaskInv'
  BY <1>3, TasksKept
<1>10. ServerInv'
  BY <1>1, <1>2, <1>3, <1>4, <1>7, <1>8 DEF ServerInv
<1>11. ref[x] > 0
  BY <1>2, Types, ReferredTo
<1>12. ASSUME NEW w \in Websocks PROVE Sum(w)' = Sum(w) - Is(w, x)
  <2>1. NumOwners(w)' = NumOwners(w) - Is(x, w) + Is(NULL, w)
    BY <1>3, <1>4, <1>7, OwnersStep
  <2>2. NumListed(w)' = NumListed(w) /\ NumUsers(w)' = NumUsers(w) /\ lost'[w] = lost[w]
    BY <1>3, SameCounts
  <2>3. Called(w)' = Called(w)
    BY <1>8 DEF Called
  <2>4. Is(NULL, w) = 0 /\ Is(x, w) = Is(w, x) /\ Is(w, x) \in 0 .. 1
    BY NullAssumption DEF Is
  <2> QED BY <2>1, <2>2, <2>3, <2>4, SumType DEF Sum
<1>13. /\ Accounted' /\ ref' \in [Websocks -> Nat]
       /\ allocated' \subseteq Websocks /\ faults' \subseteq Faults
  BY <1>3, <1>11, <1>12, PutStep
<1>14. TypeOK'
  BY <1>3, <1>7, <1>8, <1>13, OtherTypes, TypesAgain
<1> QED BY <1>7, <1>9, <1>10, <1>13, <1>14 DEF WsInv

LEMMA RecvDoneStep ==
  ASSUME WsInv, RecvDone
  PROVE  WsInv'
<1>1. PICK s \in Slots : s = server.slot
  BY Types DEF RecvDone, ServerInv
<1>2. PICK x \in Websocks : x = server.ws
  BY Types DEF RecvDone, ServerInv
<1> DEFINE n == IF server.out = 1 THEN 1 ELSE slot[s].notif
           v == [slot[s] EXCEPT !.cgi = "NULL", !.marked = 1, !.notif = n]
<1>3. /\ server.pc = "return" /\ slot[s].cgiData = NULL /\ put_websock(x)
      /\ slot' = [slot EXCEPT ![s] = v]
      /\ server' = Idle
      /\ UNCHANGED <<conn, wsList, listMutex, task, told, lost>>
  BY <1>1, <1>2, Types DEF RecvDone, taskVars, ServerInv
<1>4. slot[s] \in Slot /\ n \in 0 .. 1
  BY OtherTypes DEF Slot
<1> HIDE DEF n
<1>5. v \in Slot /\ v.cgiData = NULL
  <2> DEFINE m == [slot[s] EXCEPT !.cgi = "NULL"]
             k == [m EXCEPT !.marked = 1]
  <2>1. m \in Slot /\ m.cgiData = NULL
    BY <1>3, <1>4 DEF Slot
  <2>2. v = [k EXCEPT !.notif = n]
    OBVIOUS
  <2> HIDE DEF m, v
  <2>3. k \in Slot /\ k.cgiData = NULL
    BY <2>1 DEF Slot
  <2> HIDE DEF k
  <2> QED BY <1>4, <2>2, <2>3 DEF Slot
<1> HIDE DEF v
<1>6. \A w \in Websocks : conn'[w] # s
  BY <1>3, Types, NullAssumption DEF OwnConnection
<1>7. /\ SlotInv' /\ OwnConnection' /\ ListInv' /\ OpenIsListed'
      /\ slot' \in [Slots -> Slot] /\ conn' \in [Websocks -> Slots \cup {NULL}]
      /\ slot'[s] = v /\ \A d \in Slots \ {s} : slot'[d] = slot[d]
  BY <1>3, <1>5, <1>6, SameConns, SlotDrops
<1>8. TaskInv'
  BY <1>3, TasksKept
<1>9. ServerInv'
  BY <1>3, IdleIs DEF ServerInv
<1>10. /\ ref[x] > 0 /\ \A w \in Websocks : Sum(w)' = Sum(w) - Is(w, x)
  <2>1. \A d \in Slots : slot'[d].cgiData = slot[d].cgiData
    BY <1>3, <1>5, <1>7
  <2> QED BY <1>2, <1>3, <2>1, IdleIs, CallPut
<1>11. /\ Accounted' /\ ref' \in [Websocks -> Nat]
       /\ allocated' \subseteq Websocks /\ faults' \subseteq Faults
  BY <1>3, <1>10, PutStep
<1>12. TypeOK'
  BY <1>3, <1>7, <1>11, IdleIs, OtherTypes, TypesAgain
<1> QED BY <1>7, <1>8, <1>9, <1>11, <1>12 DEF WsInv

LEMMA SentStep ==
  ASSUME WsInv, NEW s \in Slots, Sent(s)
  PROVE  WsInv'
<1>1. /\ server.pc = "idle"
      /\ UNCHANGED <<ref, allocated, wsList, server, listMutex, task, lost, faults>>
  BY DEF Sent, taskVars
<1>2. CASE slot[s].marked = 1
  <2>1. /\ slot' = [slot EXCEPT ![s] = [Fresh EXCEPT !.fd = "none"]]
        /\ UNCHANGED <<conn, told>>
    BY <1>2 DEF Sent
  <2>2. slot[s].cgiData = NULL
    BY <1>2, Types DEF SlotInv
  <2> QED BY <1>1, <2>1, <2>2, FreshIs, BareStep
<1>3. CASE slot[s].marked # 1
  <2>1. CASE slot' = [slot EXCEPT ![s].notif = 0] /\ UNCHANGED <<conn, told>>
    <3> DEFINE v == [slot[s] EXCEPT !.notif = 0]
    <3>1. slot' = [slot EXCEPT ![s] = v] /\ slot[s] \in Slot
      BY <2>1, OtherTypes
    <3>2. /\ v \in Slot /\ v.fd = slot[s].fd /\ v.cgi = slot[s].cgi
          /\ v.cgiData = slot[s].cgiData /\ v.marked = slot[s].marked
      BY <3>1 DEF Slot
    <3> HIDE DEF v
    <3>3. SlotsKept
      BY <3>1, <3>2, OtherTypes DEF SlotsKept
    <3> QED BY <1>1, <2>1, <3>3, OtherTypes, SameConns, QuietStep
  <2>2. CASE slot[s].cgiData # NULL /\ cgiWebsocketClose(slot[s].cgiData)
    <3>1. PICK x \in Websocks : x = slot[s].cgiData
      BY <2>2, OtherTypes DEF Slot
    <3>2. SlotsKept /\ ConnsLost /\ told' \subseteq Websocks
      BY <2>2, <3>1, CloseCase
    <3> QED BY <1>1, <3>2, OtherTypes, QuietStep
  <2> QED BY <1>3, <2>1, <2>2 DEF Sent
<1> QED BY <1>2, <1>3

LEMMA DisconnectStep ==
  ASSUME WsInv, NEW s \in Slots, Disconnect(s)
  PROVE  WsInv'
<1> DEFINE v == [Fresh EXCEPT !.fd = "none"]
<1>1. /\ server.pc = "idle" /\ slot' = [slot EXCEPT ![s] = v]
      /\ UNCHANGED <<wsList, server, listMutex, task, told, lost>>
  BY DEF Disconnect, taskVars
<1>2. v \in Slot /\ v.cgiData = NULL
  BY FreshIs
<1> HIDE DEF v
<1>3. CASE slot[s].cgiData = NULL
  <2>1. UNCHANGED <<conn, ref, allocated, faults>>
    BY <1>3 DEF Disconnect
  <2> QED BY <1>1, <1>2, <1>3, <2>1, BareStep
<1>4. CASE slot[s].cgiData # NULL
  <2>1. PICK x \in Websocks : x = slot[s].cgiData
    BY <1>4, OtherTypes DEF Slot
  <2>2. conn' = [conn EXCEPT ![x] = NULL] /\ put_websock(x)
    BY <1>4, <2>1, Types DEF Disconnect, SlotInv
  <2>3. ConnsLost
    BY <2>2, OtherTypes DEF ConnsLost
  <2>4. \A w \in Websocks : conn'[w] # s
    BY <2>1, <2>2, OtherTypes, Types, NullAssumption DEF OwnConnection
  <2>5. /\ SlotInv' /\ OwnConnection' /\ ListInv' /\ OpenIsListed'
        /\ slot' \in [Slots -> Slot] /\ conn' \in [Websocks -> Slots \cup {NULL}]
        /\ slot'[s] = v /\ \A d \in Slots \ {s} : slot'[d] = slot[d]
    BY <1>1, <1>2, <2>3, <2>4, SlotDrops
  <2>6. TaskInv'
    BY <1>1, <2>3, TasksKept DEF ConnsLost
  <2>7. ServerInv'
    BY <1>1, Types DEF ServerInv
  <2>8. ref[x] > 0
    BY <2>1, Types, ReferredTo
  <2>9. ASSUME NEW w \in Websocks PROVE Sum(w)' = Sum(w) - Is(w, x)
    <3>1. NumOwners(w)' = NumOwners(w) - Is(x, w) + Is(NULL, w)
      BY <1>2, <2>1, <2>5, OwnersStep
    <3>2. NumListed(w)' = NumListed(w) /\ NumUsers(w)' = NumUsers(w) /\ lost'[w] = lost[w]
      BY <1>1, SameCounts
    <3>3. Called(w)' = Called(w)
      BY <1>1 DEF Called
    <3>4. Is(NULL, w) = 0 /\ Is(x, w) = Is(w, x) /\ Is(w, x) \in 0 .. 1
      BY NullAssumption DEF Is
    <3> QED BY <3>1, <3>2, <3>3, <3>4, SumType DEF Sum
  <2>10. /\ Accounted' /\ ref' \in [Websocks -> Nat]
         /\ allocated' \subseteq Websocks /\ faults' \subseteq Faults
    BY <2>2, <2>8, <2>9, PutStep
  <2>11. TypeOK'
    BY <1>1, <2>5, <2>10, OtherTypes, TypesAgain
  <2> QED BY <2>5, <2>6, <2>7, <2>10, <2>11 DEF WsInv
<1> QED BY <1>3, <1>4

LEMMA AppCloseStep ==
  ASSUME WsInv, NEW w \in Websocks, AppClose(w)
  PROVE  WsInv'
<1>1. UNCHANGED <<ref, allocated, wsList, server, listMutex, task, lost, faults>>
  BY DEF AppClose, taskVars
<1>2. SlotsKept /\ ConnsLost /\ told' \subseteq Websocks
  BY CloseCase DEF AppClose
<1> QED BY <1>1, <1>2, OtherTypes, QuietStep

-----------------------------------------------------------------------------
(* The list is cleaned and the new websocket put on it.                    *)

(* No connection speaks for two websockets, so the list of a server with   *)
(* no more connections than entries has room for every open one.           *)
LEMMA Pigeons ==
  ASSUME NEW S, NEW T, IsFiniteSet(S), IsFiniteSet(T), Cardinality(T) < Cardinality(S),
         NEW g, g \in [S -> T]
  PROVE  \E x, y \in S : x # y /\ g[x] = g[y]
BY FS_PigeonHole

LEMMA ListHasRoom ==
  ASSUME WsInv, Cardinality(Slots) <= ListSize, NEW w \in Websocks,
         conn[w] # NULL, Listed(w) = {}
  PROVE  Empty # {}
<1> SUFFICES ASSUME Empty = {} PROVE FALSE
  OBVIOUS
<1>1. \A i \in Indices : wsList[i] \in Websocks /\ ~check_websock_closed(wsList[i])
  BY OtherTypes DEF Empty, Collected, Dead
<1>2. \A i \in Indices : conn[wsList[i]] \in Slots
  BY <1>1, OtherTypes DEF check_websock_closed
<1>3. conn[w] \in Slots
  BY OtherTypes
<1> DEFINE f == [k \in 1 .. ListSize + 1 |->
                   IF k = ListSize + 1 THEN conn[w] ELSE conn[wsList[k]]]
<1>4. ListSize \in Nat /\ Indices = 1 .. ListSize
  BY SizeAssumption DEF Indices
<1>5. \A k \in 1 .. ListSize + 1 : k = ListSize + 1 \/ k \in Indices
  BY <1>4
<1>6. f \in [1 .. ListSize + 1 -> Slots]
  BY <1>2, <1>3, <1>5
<1>7. IsFiniteSet(1 .. ListSize + 1) /\ Cardinality(1 .. ListSize + 1) = ListSize + 1
  BY <1>4, FS_Interval
<1>8. Cardinality(Slots) \in Nat
  BY FiniteAssumption, FS_CardinalityType
<1>9. Cardinality(Slots) < Cardinality(1 .. ListSize + 1)
  BY <1>4, <1>7, <1>8
<1>10. /\ f[ListSize + 1] = conn[w]
       /\ \A k \in Indices : f[k] = conn[wsList[k]]
  BY <1>4
<1> HIDE DEF f
<1>11. PICK j \in 1 .. ListSize + 1, k \in 1 .. ListSize + 1 : j # k /\ f[j] = f[k]
  <2> DEFINE D == 1 .. ListSize + 1
  <2>1. /\ IsFiniteSet(D) /\ IsFiniteSet(Slots) /\ Cardinality(Slots) < Cardinality(D)
        /\ f \in [D -> Slots]
    BY <1>6, <1>7, <1>9, FiniteAssumption
  <2> HIDE DEF D
  <2>2. \E j, k \in D : j # k /\ f[j] = f[k]
    BY <2>1, Pigeons
  <2> QED BY <2>2, Zenon DEF D
<1>12. \A x, y \in Websocks : conn[x] # NULL /\ conn[x] = conn[y] => x = y
  BY Types DEF OwnConnection
<1>13. \A i \in Indices : wsList[i] # w
  BY DEF Listed
<1>14. \A i \in Indices : conn[wsList[i]] # conn[w]
  BY <1>1, <1>12, <1>13
<1>15. j \in Indices /\ k \in Indices
  BY <1>4, <1>5, <1>10, <1>11, <1>14
<1>16. wsList[j] = wsList[k] /\ wsList[j] # NULL
  <2>1. conn[wsList[j]] = conn[wsList[k]] /\ conn[wsList[j]] # NULL
    BY <1>2, <1>10, <1>11, <1>15, NullAssumption
  <2> QED BY <1>1, <1>12, <1>15, <2>1, NullAssumption
<1> QED BY <1>11, <1>15, <1>16, Types DEF ListInv

LEMMA FirstEmptyIsEmpty == Empty # {} => FirstEmpty \in Empty
<1> SUFFICES ASSUME Empty # {} PROVE FirstEmpty \in Empty
  OBVIOUS
<1>1. Empty \subseteq Nat
  BY DEF Empty, Indices
<1>2. PICK i \in Empty : \A j \in Empty : ~ (<<j, i>> \in OpToRel(<, Nat))
  BY <1>1, NatLessThanWellFounded, WFMin, Zenon
<1>3. ASSUME NEW j \in Empty
      PROVE  ~ (j < i)
  <2>1. <<j, i>> \in Nat \X Nat
    BY <1>1
  <2>2. <<j, i>>[1] = j /\ <<j, i>>[2] = i
    OBVIOUS
  <2> QED BY <1>2, <2>1, <2>2, Zenon DEF OpToRel
<1>4. \A j \in Empty : i <= j
  BY <1>1, <1>3
<1> QED BY <1>4, Zenon DEF FirstEmpty

(* How often websocket w is listed once the dead entries are gone and ws   *)
(* has been put where there is room.                                       *)
LEMMA Recounted ==
  ASSUME WsInv, NEW ws \in Websocks, NEW w \in Websocks,
         wsList' = IF Empty = {} THEN Collected ELSE [Collected EXCEPT ![FirstEmpty] = ws]
  PROVE  /\ NumListed(w)' \in Nat /\ DeadEntries(w) \in Nat
         /\ NumListed(w)' = NumListed(w) - DeadEntries(w)
                              + (IF Empty # {} THEN Is(ws, w) ELSE 0)
<1>1. IsFiniteSet(Indices) /\ w # NULL
  BY SizeAssumption, FS_Interval, NullAssumption DEF Indices
<1> DEFINE A == {i \in Indices : wsList[i] = w}
           D == {i \in Dead : wsList[i] = w}
           B == {i \in Indices : Collected[i] = w}
           C == {i \in Indices : wsList'[i] = w}
<1>2. D \in SUBSET A /\ B = A \ D /\ A \in SUBSET Indices /\ A \cap D = D
  <2>1. Dead \subseteq Indices
    BY DEF Dead
  <2>2. \A i \in Indices : Collected[i] = IF i \in Dead THEN NULL ELSE wsList[i]
    BY DEF Collected
  <2> QED BY <1>1, <2>1, <2>2
<1>3. IsFiniteSet(A)
  BY <1>1, <1>2, FS_Subset
<1>4. IsFiniteSet(D) /\ IsFiniteSet(B)
  BY <1>2, <1>3, FS_Subset
<1>5. Cardinality(B) = Cardinality(A) - Cardinality(D)
  BY <1>2, <1>3, FS_Difference
<1>6. /\ NumListed(w) = Cardinality(A) /\ NumListed(w)' = Cardinality(C)
      /\ DeadEntries(w) = Cardinality(D)
  BY DEF NumListed, Listed, DeadEntries
<1>7. C \in SUBSET Indices /\ B \in SUBSET Indices
  OBVIOUS
<1>8. IsFiniteSet(C)
  BY <1>1, <1>7, FS_Subset
<1>9. CASE Empty = {}
  <2>1. C = B
    BY <1>9
  <2> HIDE DEF A, B, C, D
  <2>2. Cardinality(C) = Cardinality(B)
    BY <2>1
  <2> QED BY <1>3, <1>4, <1>5, <1>6, <1>8, <1>9, <2>2, FS_CardinalityType
<1>10. CASE Empty # {}
  <2>1. PICK k \in Empty : k = FirstEmpty
    BY <1>10, FirstEmptyIsEmpty
  <2>2. k \in Indices /\ Collected[k] = NULL
    BY DEF Empty
  <2>3. wsList' = [Collected EXCEPT ![k] = ws]
    BY <1>10, <2>1
  <2>4. DOMAIN Collected = Indices
    BY DEF Collected
  <2>5. wsList'[k] = ws /\ \A i \in Indices : i # k => wsList'[i] = Collected[i]
    BY <2>2, <2>3, <2>4
  <2>6. \A i \in Indices : i # k => (i \in B <=> i \in C)
    BY <2>5
  <2>7. k \notin B /\ (k \in C <=> ws = w)
    BY <1>1, <2>2, <2>5
  <2> HIDE DEF A, B, C, D
  <2>8. Cardinality(C) = Cardinality(B) - In(k, B) + In(k, C)
    BY <1>1, <1>7, <2>2, <2>6, CountOne
  <2>9. In(k, B) = 0 /\ In(k, C) = Is(ws, w)
    BY <2>7 DEF In, Is
  <2>10. Is(ws, w) \in 0 .. 1
    BY DEF Is
  <2> QED BY <1>3, <1>4, <1>5, <1>6, <1>8, <1>10, <2>8, <2>9, <2>10, FS_CardinalityType
<1> QED BY <1>9, <1>10

LEMMA AddStep ==
  ASSUME WsInv, wsListAddAndGC
  PROVE  WsInv'
<1>1. PICK ws \in Websocks : ws = server.ws
  BY Types DEF wsListAddAndGC, ServerInv
<1>2. PICK s \in Slots : s = server.slot
  BY Types DEF wsListAddAndGC, ServerInv
<1> DEFINE Drop(w) == DeadEntries(w) + IF w = ws /\ Empty = {} THEN 1 ELSE 0
<1>3. /\ server.pc = "add" /\ listMutex = "free"
      /\ wsList' = IF Empty = {} THEN Collected ELSE [Collected EXCEPT ![FirstEmpty] = ws]
      /\ ref' = [w \in Websocks |-> ref[w] - Drop(w)]
      /\ allocated' = {w \in allocated : ref'[w] > 0}
      /\ faults' \subseteq faults \cup {"not told"}
      /\ slot' = [slot EXCEPT ![s].notif = 1]
      /\ server' = Idle
      /\ UNCHANGED <<conn, listMutex, task, told, lost>>
  BY <1>1, <1>2 DEF wsListAddAndGC, taskVars
<1> HIDE DEF Drop
<1>4. SlotsKept
  <2> DEFINE v == [slot[s] EXCEPT !.notif = 1]
  <2>1. slot' = [slot EXCEPT ![s] = v] /\ slot[s] \in Slot
    BY <1>3, OtherTypes
  <2>2. /\ v \in Slot /\ v.fd = slot[s].fd /\ v.cgi = slot[s].cgi
        /\ v.cgiData = slot[s].cgiData /\ v.marked = slot[s].marked
    BY <2>1 DEF Slot
  <2> HIDE DEF v
  <2> QED BY <2>1, <2>2, OtherTypes DEF SlotsKept
<1>5. ConnsLost
  BY <1>3, SameConns
<1>6. /\ \A i \in Indices :
           /\ Collected[i] \in {wsList[i], NULL}
           /\ wsList[i] # NULL /\ Collected[i] = NULL <=> i \in Dead
      /\ DOMAIN Collected = Indices /\ Dead \subseteq Indices
  BY DEF Collected, Dead
<1>7. \A i \in Dead : wsList[i] \in Websocks /\ conn[wsList[i]] = NULL
  BY OtherTypes, Types DEF Dead, check_websock_closed, isConnectionClosed, OwnConnection
<1>8. Collected \in [Indices -> Websocks \cup {NULL}]
  BY OtherTypes DEF Collected
<1>9. \A i \in Indices : wsList[i] # ws
  BY <1>1, <1>3, Types DEF ServerInv, Listed
<1>10. /\ wsList' \in [Indices -> Websocks \cup {NULL}]
       /\ \A i \in Indices :
            wsList'[i] = Collected[i] \/ (wsList'[i] = ws /\ i = FirstEmpty /\ i \in Empty)
  <2>1. CASE Empty = {}
    BY <1>3, <1>8, <2>1
  <2>2. CASE Empty # {}
    <3>1. PICK k \in Empty : k = FirstEmpty
      BY <2>2, FirstEmptyIsEmpty
    <3>2. wsList' = [Collected EXCEPT ![k] = ws] /\ k \in Indices
      BY <1>3, <2>2, <3>1 DEF Empty
    <3>3. wsList' \in [Indices -> Websocks \cup {NULL}]
      BY <1>8, <3>2
    <3>4. \A i \in Indices : wsList'[i] = IF i = k THEN ws ELSE Collected[i]
      BY <1>8, <3>2
    <3> QED BY <3>1, <3>3, <3>4
  <2> QED BY <2>1, <2>2
<1>11. \A i \in Empty : i \in Indices /\ Collected[i] = NULL
  BY DEF Empty
<1>12. SlotInv' /\ OwnConnection'
  <2>1. SlotInv'
    BY <1>4, Types DEF SlotInv, SlotsKept
  <2>2. \A w \in Websocks : conn'[w] = conn[w] /\ (conn[w] # NULL => conn[w] \in Slots)
    BY <1>3, OtherTypes
  <2>3. OwnConnection'
    BY <1>4, <2>2, Types DEF OwnConnection, SlotsKept
  <2> QED BY <2>1, <2>3
<1>13. ListInv'
  BY <1>6, <1>9, <1>10, Types DEF ListInv
<1>14. OpenIsListed'
  <2> SUFFICES ASSUME Cardinality(Slots) <= ListSize, NEW w \in Websocks, conn[w] # NULL
               PROVE  Listed(w)' # {}
    BY <1>3 DEF OpenIsListed
  <2>1. CASE w = ws
    <3>1. Listed(ws) = {}
      BY <1>1, <1>3, Types DEF ServerInv
    <3>2. Empty # {}
      BY <2>1, <3>1, ListHasRoom
    <3>3. PICK k \in Empty : k = FirstEmpty
      BY <3>2, FirstEmptyIsEmpty
    <3>4. wsList'[k] = ws
      BY <1>3, <1>8, <1>11, <3>2, <3>3
    <3> QED BY <1>11, <2>1, <3>4 DEF Listed
  <2>2. CASE w # ws
    <3>1. Listed(w) # {}
      BY <1>1, <2>2 DEF WsInv, OpenIsListed
    <3>2. PICK i \in Indices : wsList[i] = w
      BY <3>1 DEF Listed
    <3>3. i \notin Dead /\ w # NULL
      BY <1>7, <3>2, NullAssumption
    <3>4. Collected[i] = w
      BY <1>6, <3>2, <3>3
    <3>5. wsList'[i] = w
      BY <1>10, <1>11, <3>3, <3>4
    <3> QED BY <3>5 DEF Listed
  <2> QED BY <2>1, <2>2
<1>15. TaskInv'
  BY <1>3, TasksKept
<1>16. ServerInv'
  BY <1>3, IdleIs DEF ServerInv
<1>17. ASSUME NEW w \in Websocks
       PROVE  ref'[w] = Sum(w)' /\ ref'[w] \in Nat /\ ref'[w] <= ref[w]
  <2>1. /\ NumListed(w)' \in Nat /\ DeadEntries(w) \in Nat
        /\ NumListed(w)' = NumListed(w) - DeadEntries(w)
                             + (IF Empty # {} THEN Is(ws, w) ELSE 0)
    BY <1>3, Recounted
  <2>2. NumOwners(w)' = NumOwners(w) /\ NumUsers(w)' = NumUsers(w) /\ lost'[w] = lost[w]
    BY <1>3, <1>4, SameCounts DEF SlotsKept
  <2>3. Called(w) = Is(ws, w) /\ Called(w)' = 0
    BY <1>1, <1>3, IdleIs, NullAssumption DEF Called, Is
  <2>4. ref'[w] = ref[w] - Drop(w)
    BY <1>3
  <2>5. Drop(w) = DeadEntries(w) + (IF Empty # {} THEN 0 ELSE Is(ws, w))
    BY DEF Drop, Is
  <2>6. Is(ws, w) \in 0 .. 1
    BY DEF Is
  <2> QED BY <2>1, <2>2, <2>3, <2>4, <2>5, <2>6, SumType DEF Sum
<1>18. Accounted'
  <2>1. ASSUME NEW w \in Websocks PROVE w \in allocated' <=> ref'[w] > 0
    <3>1. /\ ref[w] \in Nat /\ ref'[w] \in Nat /\ ref'[w] <= ref[w]
          /\ w \in allocated <=> ref[w] > 0
      BY <1>17, SumType
    <3>2. ref'[w] > 0 => ref[w] > 0
      BY <3>1
    <3>3. w \in allocated' <=> w \in allocated /\ ref'[w] > 0
      BY <1>3, Zenon
    <3> QED BY <3>1, <3>2, <3>3
  <2> QED BY <1>17, <2>1 DEF Accounted, Sum, NumListed, NumOwners, NumUsers
<1>19. TypeOK'
  <2>1. ref' \in [Websocks -> Nat]
    BY <1>3, <1>17
  <2>2. allocated' \subseteq Websocks /\ faults' \subseteq Faults
    BY <1>3, OtherTypes DEF Faults
  <2> QED BY <1>3, <1>4, <1>10, <2>1, <2>2, IdleIs, OtherTypes, TypesAgain DEF SlotsKept
<1> QED BY <1>12, <1>13, <1>14, <1>15, <1>16, <1>18, <1>19 DEF WsInv

-----------------------------------------------------------------------------
(* The steps of a task that broadcasts.                                    *)

LEMMA TaskKeeps ==
  ASSUME WsInv, SlotsKept, UNCHANGED <<conn, server>>, ListLoses
  PROVE  SlotInv' /\ OwnConnection' /\ ListInv' /\ OpenIsListed' /\ ServerInv'
<1>1. SlotInv' /\ OwnConnection' /\ ListInv' /\ OpenIsListed'
  BY SameConns, WebsocksKept
<1>2. \A w \in Websocks : Listed(w) = {} => Listed(w)' = {}
  BY NullAssumption DEF Listed, ListLoses
<1>3. ServerInv'
  BY <1>2, Types DEF ServerInv, SlotsKept
<1> QED BY <1>1, <1>3

LEMMA GotoCase ==
  ASSUME WsInv, NEW t \in Tasks,
         NEW l \in {"rest", "peek", "lock", "check", "check2", "match", "send", "put"},
         Goto(t, l)
  PROVE  LET v == [task[t] EXCEPT !.pc = l]
         IN  /\ task' = [task EXCEPT ![t] = v]
             /\ v \in TaskState /\ v.pc = l /\ v.i = task[t].i
             /\ v.ws = task[t].ws /\ v.conn = task[t].conn
<1>1. task[t] \in TaskState
  BY OtherTypes
<1> QED BY <1>1 DEF Goto, TaskState

LEMMA NextCase ==
  ASSUME WsInv, NEW t \in Tasks, NextIndex(t)
  PROVE  \E v \in TaskState : task' = [task EXCEPT ![t] = v] /\ v.pc \in {"peek", "rest"} /\ v.ws = NULL
<1> DEFINE v == IF task[t].i < ListSize
                THEN [Resting EXCEPT !.pc = "peek", !.i = task[t].i + 1] ELSE Resting
<1>1. task[t].i \in 1 .. ListSize /\ ListSize \in Nat \ {0}
  BY OtherTypes, SizeAssumption DEF TaskState, Indices
<1>2. task[t].i < ListSize => task[t].i + 1 \in Indices
  BY <1>1 DEF Indices
<1>3. Resting \in TaskState /\ Resting.pc = "rest" /\ Resting.ws = NULL
  BY <1>1 DEF Resting, TaskState, Indices
<1>4. v \in TaskState /\ v.pc \in {"peek", "rest"} /\ v.ws = NULL
  <2>1. CASE task[t].i < ListSize
    BY <1>2, <1>3, <2>1 DEF TaskState
  <2>2. CASE ~(task[t].i < ListSize)
    BY <1>3, <2>2
  <2> QED BY <2>1, <2>2
<1>5. task' = [task EXCEPT ![t] = v]
  BY DEF NextIndex
<1> QED BY <1>4, <1>5

(* The task moves on and refers to what it referred to before.             *)
LEMMA TaskQuiet ==
  ASSUME WsInv, NEW t \in Tasks, NEW v \in TaskState, task' = [task EXCEPT ![t] = v],
         v.ws = task[t].ws, SlotsKept,
         UNCHANGED <<ref, conn, allocated, wsList, server, told, lost>>,
         faults' \subseteq Faults,
         \/ listMutex' = listMutex
         \/ listMutex = "free" /\ listMutex' = t
         \/ listMutex = t /\ listMutex' = "free",
         v.pc \in {"match", "send", "put"} <=> v.ws # NULL,
         v.pc \in {"check", "check2"} <=> listMutex' = t,
         listMutex' = t => wsList[v.i] # NULL,
         v.pc = "check2" => v.conn # NULL /\ conn[wsList[v.i]] \in {v.conn, NULL}
  PROVE  WsInv'
<1>1. /\ task' \in [Tasks -> TaskState] /\ task'[t] = v
      /\ \A u \in Tasks \ {t} : task'[u] = task[u]
  BY OtherTypes
<1>2. ListLoses
  BY OtherTypes DEF ListLoses
<1>3. SlotInv' /\ OwnConnection' /\ ListInv' /\ OpenIsListed' /\ ServerInv'
  BY <1>2, TaskKeeps
<1>4. TaskInv'
  <2>1. OthersFine(t)
    BY <1>1, OtherTasks
  <2> QED BY <1>1, <2>1, AllTasks
<1>5. Accounted'
  BY <1>1, CountsKept DEF SlotsKept
<1>6. TypeOK'
  BY <1>1, OtherTypes, TypesAgain DEF SlotsKept
<1> QED BY <1>3, <1>4, <1>5, <1>6 DEF WsInv

LEMMA LookStep ==
  ASSUME WsInv, NEW t \in Tasks, BroadcastBegin(t) \/ Peek(t) \/ LockList(t)
  PROVE  WsInv'
<1>1. /\ task[t].pc \in {"rest", "peek", "lock"} /\ task[t].ws = NULL /\ listMutex # t
  BY Types DEF BroadcastBegin, Peek, LockList, TaskInv
<1>2. /\ UNCHANGED <<slot, ref, conn, allocated, wsList, server, told, lost, faults>>
      /\ SlotsKept /\ faults' \subseteq Faults
  BY SameConns, OtherTypes DEF BroadcastBegin, Peek, LockList, serverVars
<1>3. ASSUME NextIndex(t), listMutex' = listMutex PROVE WsInv'
  <2>1. PICK v \in TaskState :
          task' = [task EXCEPT ![t] = v] /\ v.pc \in {"peek", "rest"} /\ v.ws = NULL
    BY <1>3, NextCase
  <2> QED BY <1>1, <1>2, <1>3, <2>1, TaskQuiet
<1>4. ASSUME NEW l \in {"peek", "lock"}, Goto(t, l), listMutex' = listMutex PROVE WsInv'
  <2> DEFINE v == [task[t] EXCEPT !.pc = l]
  <2>1. task' = [task EXCEPT ![t] = v] /\ v \in TaskState /\ v.pc = l /\ v.ws = task[t].ws
    <3>1. l \in {"rest", "peek", "lock", "check", "check2", "match", "send", "put"}
      OBVIOUS
    <3> QED BY <1>4, <3>1, GotoCase, Zenon
  <2> HIDE DEF v
  <2> QED BY <1>1, <1>2, <1>4, <2>1, TaskQuiet
<1>5. ASSUME Goto(t, "check"), listMutex = "free", listMutex' = t, wsList[task[t].i] # NULL
      PROVE  WsInv'
  <2> DEFINE v == [task[t] EXCEPT !.pc = "check"]
  <2>1. /\ task' = [task EXCEPT ![t] = v] /\ v \in TaskState /\ v.pc = "check"
        /\ v.i = task[t].i /\ v.ws = task[t].ws
    BY <1>5, GotoCase
  <2> HIDE DEF v
  <2> QED BY <1>1, <1>2, <1>5, <2>1, TaskQuiet
<1> QED BY <1>3, <1>4, <1>5 DEF BroadcastBegin, Peek, LockList

(* An entry whose websocket has no connection any more is removed.         *)
LEMMA RemoveStep ==
  ASSUME WsInv, NEW t \in Tasks, RemoveEntry(t), listMutex = t, task[t].ws = NULL,
         conn[wsList[task[t].i]] = NULL, UNCHANGED <<slot, conn, server, told, lost>>
  PROVE  WsInv'
<1>1. PICK i \in Indices : i = task[t].i
  BY OtherTypes DEF TaskState
<1>2. PICK x \in Websocks : x = wsList[i]
  BY <1>1, OtherTypes, Types DEF TaskInv
<1>3. /\ put_websock(x) /\ wsList' = [wsList EXCEPT ![i] = NULL]
      /\ listMutex' = "free" /\ NextIndex(t)
  BY <1>1, <1>2 DEF RemoveEntry
<1>4. PICK v \in TaskState :
        task' = [task EXCEPT ![t] = v] /\ v.pc \in {"peek", "rest"} /\ v.ws = NULL
  BY <1>3, NextCase
<1>5. /\ task' \in [Tasks -> TaskState] /\ task'[t] = v
      /\ \A u \in Tasks \ {t} : task'[u] = task[u]
  BY <1>4, OtherTypes
<1>6. /\ wsList' \in [Indices -> Websocks \cup {NULL}] /\ wsList'[i] = NULL
      /\ \A j \in Indices \ {i} : wsList'[j] = wsList[j]
  BY <1>3, OtherTypes
<1>7. ListLoses
  BY <1>1, <1>2, <1>6, NullAssumption DEF ListLoses
<1>8. SlotInv' /\ OwnConnection' /\ ListInv' /\ OpenIsListed' /\ ServerInv'
  BY <1>7, SameConns, TaskKeeps
<1>9. TaskInv'
  <2>1. OthersFine(t)
    BY <1>3, <1>5, OtherTasks
  <2> QED BY <1>3, <1>4, <1>5, <2>1, AllTasks, TasksAssumption
<1>10. ref[x] > 0
  BY <1>2, Types, ReferredTo
<1>11. ASSUME NEW w \in Websocks PROVE Sum(w)' = Sum(w) - Is(w, x)
  <2>1. NumListed(w)' = NumListed(w) - Is(x, w) + Is(NULL, w)
    BY <1>2, <1>6, ListedStep
  <2>2. NumUsers(w)' = NumUsers(w)
    <3>1. NumUsers(w)' = NumUsers(w) - Is(NULL, w) + Is(NULL, w)
      BY <1>4, <1>5, UsersStep
    <3>2. Is(NULL, w) = 0
      BY NullAssumption DEF Is
    <3> QED BY <3>1, <3>2, SumType
  <2>3. NumOwners(w)' = NumOwners(w) /\ lost'[w] = lost[w] /\ Called(w)' = Called(w)
    BY SameCounts DEF Called
  <2>4. Is(NULL, w) = 0 /\ Is(x, w) = Is(w, x) /\ Is(w, x) \in 0 .. 1
    BY NullAssumption DEF Is
  <2> QED BY <2>1, <2>2, <2>3, <2>4, SumType DEF Sum
<1>12. /\ Accounted' /\ ref' \in [Websocks -> Nat]
       /\ allocated' \subseteq Websocks /\ faults' \subseteq Faults
  BY <1>3, <1>10, <1>11, PutStep
<1>13. TypeOK'
  BY <1>3, <1>5, <1>6, <1>12, OtherTypes, TypesAgain
<1> QED BY <1>8, <1>9, <1>12, <1>13 DEF WsInv

LEMMA CheckStep ==
  ASSUME WsInv, NEW t \in Tasks, CheckConn(t)
  PROVE  WsInv'
<1>1. /\ task[t].pc = "check" /\ listMutex = t /\ task[t].ws = NULL
      /\ wsList[task[t].i] # NULL
      /\ UNCHANGED <<slot, conn, server, told, lost>>
  BY Types DEF CheckConn, TaskInv, serverVars
<1>2. CASE conn[wsList[task[t].i]] = NULL
  BY <1>1, <1>2, RemoveStep DEF CheckConn
<1>3. CASE conn[wsList[task[t].i]] # NULL
  <2> DEFINE c == conn[wsList[task[t].i]]
             v == [task[t] EXCEPT !.pc = "check2", !.conn = c]
  <2>1. /\ task' = [task EXCEPT ![t] = v]
        /\ UNCHANGED <<ref, allocated, faults, wsList, listMutex>>
    BY <1>3 DEF CheckConn
  <2>2. task[t] \in TaskState /\ task[t].i \in Indices
    BY OtherTypes DEF TaskState
  <2>3. c \in Slots \cup {NULL}
    BY <1>1, <2>2, OtherTypes
  <2> HIDE DEF c
  <2>4. /\ v \in TaskState /\ v.pc = "check2" /\ v.conn = c
        /\ v.i = task[t].i /\ v.ws = task[t].ws
    BY <2>2, <2>3 DEF TaskState
  <2> HIDE DEF v
  <2>5. v.pc \in {"match", "send", "put"} <=> v.ws # NULL
    BY <1>1, <2>4
  <2>6. v.conn # NULL /\ conn[wsList[v.i]] \in {v.conn, NULL}
    BY <1>3, <2>4 DEF c
  <2> QED BY <1>1, <2>1, <2>4, <2>5, <2>6, SameConns, OtherTypes, TaskQuiet
<1> QED BY <1>2, <1>3

LEMMA TakeStep ==
  ASSUME WsInv, NEW t \in Tasks, CheckClosed(t)
  PROVE  WsInv'
<1>1. /\ task[t].pc = "check2" /\ listMutex = t /\ task[t].ws = NULL
      /\ wsList[task[t].i] # NULL
      /\ task[t].conn # NULL /\ conn[wsList[task[t].i]] \in {task[t].conn, NULL}
      /\ UNCHANGED <<slot, conn, server, told, lost>>
  BY Types DEF CheckClosed, TaskInv, serverVars
<1>2. PICK i \in Indices : i = task[t].i
  BY OtherTypes DEF TaskState
<1>3. PICK x \in Websocks : x = wsList[i]
  BY <1>1, <1>2, OtherTypes
<1>4. CASE /\ faults' = faults \cup {"ws->conn is NULL"} /\ listMutex' = "free"
           /\ NextIndex(t) /\ UNCHANGED <<ref, allocated, wsList>>
  <2>1. PICK v \in TaskState :
          task' = [task EXCEPT ![t] = v] /\ v.pc \in {"peek", "rest"} /\ v.ws = NULL
    BY <1>4, NextCase
  <2>2. faults' \subseteq Faults
    BY <1>4, OtherTypes DEF Faults
  <2>3. listMutex' # t
    BY <1>4, TasksAssumption
  <2> QED BY <1>1, <1>4, <2>1, <2>2, <2>3, SameConns, TaskQuiet
<1>5. CASE isConnectionClosed(task[t].conn) /\ RemoveEntry(t)
  <2>1. conn[x] = NULL
    BY <1>1, <1>2, <1>3, <1>5, Types DEF OwnConnection, isConnectionClosed
  <2> QED BY <1>1, <1>2, <1>3, <1>5, <2>1, RemoveStep
<1>6. CASE /\ ref' = [ref EXCEPT ![x] = @ + 1]
           /\ task' = [task EXCEPT ![t].pc = "match", ![t].ws = x, ![t].conn = NULL]
           /\ listMutex' = "free"
           /\ UNCHANGED <<allocated, faults, wsList>>
  <2> DEFINE v == [task[t] EXCEPT !.pc = "match", !.ws = x, !.conn = NULL]
  <2>1. task' = [task EXCEPT ![t] = v] /\ task[t] \in TaskState
    BY <1>6, OtherTypes
  <2>2. v \in TaskState /\ v.pc = "match" /\ v.ws = x
    BY <2>1 DEF TaskState
  <2> HIDE DEF v
  <2>3. /\ task' \in [Tasks -> TaskState] /\ task'[t] = v
        /\ \A u \in Tasks \ {t} : task'[u] = task[u]
    BY <2>1, <2>2, OtherTypes
  <2>4. ListLoses /\ SlotsKept
    BY <1>1, <1>6, SameConns, OtherTypes DEF ListLoses
  <2>5. SlotInv' /\ OwnConnection' /\ ListInv' /\ OpenIsListed' /\ ServerInv'
    BY <1>1, <2>4, TaskKeeps
  <2>6. TaskInv'
    <3>1. OthersFine(t)
      BY <1>1, <1>6, <2>3, OtherTasks
    <3>2. listMutex' # t /\ x # NULL
      BY <1>6, TasksAssumption, NullAssumption
    <3> QED BY <2>2, <2>3, <3>1, <3>2, AllTasks
  <2>7. Accounted'
    <3> SUFFICES ASSUME NEW w \in Websocks
                 PROVE  ref'[w] = Sum(w)' /\ (w \in allocated' <=> ref'[w] > 0)
      BY DEF Accounted, Sum, NumListed, NumOwners, NumUsers
    <3>1. NumUsers(w)' = NumUsers(w) - Is(NULL, w) + Is(x, w)
      BY <1>1, <2>2, <2>3, UsersStep
    <3>2. /\ NumListed(w)' = NumListed(w) /\ NumOwners(w)' = NumOwners(w)
          /\ lost'[w] = lost[w] /\ Called(w)' = Called(w)
      BY <1>1, <1>6, SameCounts DEF Called
    <3>3. ref'[w] = IF w = x THEN ref[w] + 1 ELSE ref[w]
      BY <1>6, OtherTypes
    <3>4. Is(NULL, w) = 0 /\ Is(x, w) = IF w = x THEN 1 ELSE 0
      BY NullAssumption DEF Is
    <3>5. ref'[w] = Sum(w)'
      BY <3>1, <3>2, <3>3, <3>4, SumType DEF Sum
    <3>6. w \in allocated' <=> ref'[w] > 0
      <4>1. ref[x] > 0
        BY <1>3, Types, ReferredTo
      <4>2. ref'[w] > 0 <=> ref[w] > 0
        BY <3>3, <4>1, SumType
      <4> QED BY <1>6, <4>2, SumType
    <3> QED BY <3>5, <3>6
  <2>8. TypeOK'
    <3>1. ref' \in [Websocks -> Nat]
      BY <1>6, OtherTypes
    <3> QED BY <1>1, <1>6, <2>3, <2>4, <3>1, OtherTypes, TypesAgain DEF SlotsKept
  <2> QED BY <2>5, <2>6, <2>7, <2>8 DEF WsInv
<1> QED BY <1>2, <1>3, <1>4, <1>5, <1>6 DEF CheckClosed

(* The task's reference is dropped: its put, or lost without one.          *)
LEMMA TaskDrops ==
  ASSUME WsInv, NEW t \in Tasks, NextIndex(t), task[t].pc \in {"match", "put"},
         NEW x \in Websocks, x = task[t].ws,
         UNCHANGED <<wsList, listMutex, slot, conn, server, told>>
  PROVE  /\ SlotInv' /\ OwnConnection' /\ ListInv' /\ OpenIsListed' /\ ServerInv'
         /\ TaskInv' /\ task' \in [Tasks -> TaskState]
         /\ \A w \in Websocks :
              /\ NumUsers(w)' = NumUsers(w) - Is(w, x) /\ Is(w, x) \in 0 .. 1
              /\ NumListed(w)' = NumListed(w) /\ NumOwners(w)' = NumOwners(w)
              /\ Called(w)' = Called(w)
<1>1. PICK v \in TaskState :
        task' = [task EXCEPT ![t] = v] /\ v.pc \in {"peek", "rest"} /\ v.ws = NULL
  BY NextCase
<1>2. /\ task' \in [Tasks -> TaskState] /\ task'[t] = v
      /\ \A u \in Tasks \ {t} : task'[u] = task[u]
  BY <1>1, OtherTypes
<1>3. SlotInv' /\ OwnConnection' /\ ListInv' /\ OpenIsListed' /\ ServerInv'
  BY SameConns, OtherTypes, TaskKeeps DEF ListLoses
<1>4. TaskInv'
  <2>1. OthersFine(t)
    BY <1>2, OtherTasks
  <2>2. listMutex # t
    BY Types DEF TaskInv
  <2> QED BY <1>1, <1>2, <2>1, <2>2, AllTasks
<1>5. ASSUME NEW w \in Websocks
      PROVE  /\ NumUsers(w)' = NumUsers(w) - Is(w, x) /\ Is(w, x) \in 0 .. 1
             /\ NumListed(w)' = NumListed(w) /\ NumOwners(w)' = NumOwners(w)
             /\ Called(w)' = Called(w)
  <2>1. NumUsers(w)' = NumUsers(w) - Is(x, w) + Is(NULL, w)
    BY <1>1, <1>2, UsersStep
  <2>2. Is(NULL, w) = 0 /\ Is(x, w) = Is(w, x) /\ Is(w, x) \in 0 .. 1
    BY NullAssumption DEF Is
  <2>3. /\ NumListed(w)' = NumListed(w) /\ NumOwners(w)' = NumOwners(w)
        /\ Called(w)' = Called(w)
    BY SameCounts DEF Called
  <2> QED BY <2>1, <2>2, <2>3, SumType
<1> QED BY <1>2, <1>3, <1>4, <1>5

LEMMA MatchStep ==
  ASSUME WsInv, NEW t \in Tasks, Match(t) \/ Send(t) \/ Put(t)
  PROVE  WsInv'
<1>1. task[t].pc \in {"match", "send", "put"} /\ task[t].ws # NULL /\ listMutex # t
  BY Types DEF Match, Send, Put, TaskInv
<1>2. PICK x \in Websocks : x = task[t].ws
  BY <1>1, OtherTypes DEF TaskState
<1>3. ASSUME NEW l \in {"send", "put"}, Goto(t, l), SlotsKept,
             UNCHANGED <<ref, conn, allocated, wsList, listMutex, server, told, lost, faults>>
      PROVE  WsInv'
  <2> DEFINE v == [task[t] EXCEPT !.pc = l]
  <2>1. task' = [task EXCEPT ![t] = v] /\ v \in TaskState /\ v.pc = l /\ v.ws = task[t].ws
    <3>1. l \in {"rest", "peek", "lock", "check", "check2", "match", "send", "put"}
      OBVIOUS
    <3> QED BY <1>3, <3>1, GotoCase, Zenon
  <2> HIDE DEF v
  <2> QED BY <1>1, <1>3, <2>1, OtherTypes, TaskQuiet
<1>4. CASE Match(t)
  <2>1. /\ task[t].pc = "match"
        /\ UNCHANGED <<ref, allocated, wsList, listMutex, slot, conn, server, told, faults>>
    BY <1>4 DEF Match, serverVars
  <2>2. CASE lost' = [lost EXCEPT ![x] = @ + 1] /\ NextIndex(t)
    <3>1. /\ SlotInv' /\ OwnConnection' /\ ListInv' /\ OpenIsListed' /\ ServerInv'
          /\ TaskInv' /\ task' \in [Tasks -> TaskState]
          /\ \A w \in Websocks :
               /\ NumUsers(w)' = NumUsers(w) - Is(w, x) /\ Is(w, x) \in 0 .. 1
               /\ NumListed(w)' = NumListed(w) /\ NumOwners(w)' = NumOwners(w)
               /\ Called(w)' = Called(w)
      BY <1>2, <2>1, <2>2, TaskDrops
    <3>2. \A w \in Websocks : lost'[w] = lost[w] + Is(w, x)
      BY <2>2, OtherTypes DEF Is
    <3>3. ASSUME NEW w \in Websocks PROVE Sum(w)' = Sum(w)
      <4>1. /\ NumUsers(w)' = NumUsers(w) - Is(w, x) /\ Is(w, x) \in 0 .. 1
            /\ NumListed(w)' = NumListed(w) /\ NumOwners(w)' = NumOwners(w)
            /\ Called(w)' = Called(w) /\ lost'[w] = lost[w] + Is(w, x)
        BY <3>1, <3>2
      <4> QED BY <4>1, SumType DEF Sum
    <3>4. Accounted'
      BY <2>1, <3>3, SumType DEF Accounted, Sum, NumListed, NumOwners, NumUsers
    <3>5. lost' \in [Websocks -> Nat]
      BY <2>2, OtherTypes
    <3>6. TypeOK'
      BY <2>1, <3>1, <3>5, OtherTypes, TypesAgain
    <3> QED BY <3>1, <3>4, <3>6 DEF WsInv
  <2>3. CASE (Goto(t, "send") \/ Goto(t, "put")) /\ UNCHANGED lost
    BY <1>3, <2>1, <2>3, SameConns
  <2> QED BY <1>2, <1>4, <2>2, <2>3 DEF Match
<1>5. CASE Send(t)
  <2>1. /\ Goto(t, "put")
        /\ UNCHANGED <<ref, conn, allocated, wsList, listMutex, server, told, lost, faults>>
        /\ slot' = IF check_websock_closed(x) THEN slot ELSE [slot EXCEPT ![conn[x]].notif = 1]
    BY <1>2, <1>5 DEF Send
  <2>2. SlotsKept
    <3>1. CASE check_websock_closed(x)
      BY <2>1, <3>1, SameConns
    <3>2. CASE ~check_websock_closed(x)
      <4>1. PICK s \in Slots : s = conn[x]
        BY <3>2, OtherTypes DEF check_websock_closed
      <4> DEFINE v == [slot[s] EXCEPT !.notif = 1]
      <4>2. slot' = [slot EXCEPT ![s] = v] /\ slot[s] \in Slot
        BY <2>1, <3>2, <4>1, OtherTypes
      <4>3. /\ v \in Slot /\ v.fd = slot[s].fd /\ v.cgi = slot[s].cgi
            /\ v.cgiData = slot[s].cgiData /\ v.marked = slot[s].marked
        BY <4>2 DEF Slot
      <4> HIDE DEF v
      <4> QED BY <4>2, <4>3, OtherTypes DEF SlotsKept
    <3> QED BY <3>1, <3>2
  <2> QED BY <1>3, <2>1, <2>2
<1>6. CASE Put(t)
  <2>1. /\ task[t].pc = "put" /\ put_websock(x) /\ NextIndex(t)
        /\ UNCHANGED <<wsList, listMutex, slot, conn, server, told, lost>>
    BY <1>2, <1>6 DEF Put, serverVars
  <2>2. /\ SlotInv' /\ OwnConnection' /\ ListInv' /\ OpenIsListed' /\ ServerInv'
        /\ TaskInv' /\ task' \in [Tasks -> TaskState]
        /\ \A w \in Websocks :
             /\ NumUsers(w)' = NumUsers(w) - Is(w, x) /\ Is(w, x) \in 0 .. 1
             /\ NumListed(w)' = NumListed(w) /\ NumOwners(w)' = NumOwners(w)
             /\ Called(w)' = Called(w)
    BY <1>2, <2>1, TaskDrops
  <2>3. \A w \in Websocks : Sum(w)' = Sum(w) - Is(w, x)
    BY <2>1, <2>2, SumType DEF Sum
  <2>4. ref[x] > 0
    BY <1>2, Types, ReferredTo
  <2>5. /\ Accounted' /\ ref' \in [Websocks -> Nat]
        /\ allocated' \subseteq Websocks /\ faults' \subseteq Faults
    BY <2>1, <2>3, <2>4, PutStep
  <2>6. TypeOK'
    BY <2>1, <2>2, <2>5, OtherTypes, TypesAgain
  <2> QED BY <2>2, <2>5, <2>6 DEF WsInv
<1> QED BY <1>4, <1>5, <1>6

-----------------------------------------------------------------------------

LEMMA WsNext == WsInv /\ [Next]_vars => WsInv'
<1> SUFFICES ASSUME WsInv, [Next]_vars PROVE WsInv'
  OBVIOUS
<1>1. CASE ServerTask
  BY <1>1, ConnectStep, UpgradeStep, RecvBeginStep, SentStep, DisconnectStep, AddStep,
     FramesStep, RecvMoreStep, RecvPutsDataStep, RecvDoneStep DEF ServerTask
<1>2. CASE \E t \in Tasks : Broadcast(t)
  BY <1>2, LookStep, CheckStep, TakeStep, MatchStep DEF Broadcast
<1>3. CASE \E w \in Websocks : AppClose(w)
  BY <1>3, AppCloseStep
<1>4. CASE UNCHANGED vars
  <2>1. UNCHANGED <<slot, ref, conn, allocated, wsList, listMutex, server, task, told, lost, faults>>
    BY <1>4 DEF vars
  <2> QED BY <2>1, SameConns, OtherTypes, QuietStep
<1> QED BY <1>1, <1>2, <1>3, <1>4 DEF Next

LEMMA WsInvariant == Spec => []WsInv
BY WsInit, WsNext, PTL DEF Spec

(* Every variable keeps its type, so no reference count falls below zero.  *)
THEOREM WebsocketTypes == Spec => []TypeOK
<1>1. WsInv => TypeOK
  BY DEF WsInv
<1> QED BY WsInvariant, <1>1, PTL

(* ref_cnt is the number of references there are, from the list, cgiData,  *)
(* the running callback and the broadcasting tasks, and those lost; a      *)
(* websocket is freed by the put of the last and not before.               *)
THEOREM CountsReferences == Spec => []Accounted
<1>1. WsInv => Accounted
  BY DEF WsInv
<1> QED BY WsInvariant, <1>1, PTL

(* A websocket never speaks on a connection that is not its own: what a    *)
(* task sends reaches neither a closed connection nor the next client.     *)
THEOREM SpeaksOnItsOwn == Spec => []OwnConnection
<1>1. WsInv => OwnConnection
  BY DEF WsInv
<1> QED BY WsInvariant, <1>1, PTL

(* With no more connections than list entries, a broadcast passes by every *)
(* open websocket.                                                         *)
THEOREM BroadcastReaches == Spec => []OpenIsListed
<1>1. WsInv => OpenIsListed
  BY DEF WsInv
<1> QED BY WsInvariant, <1>1, PTL
=============================================================================
