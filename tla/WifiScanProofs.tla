---------------------------- MODULE WifiScanProofs ----------------------------
(***************************************************************************)
(* Proofs about WifiScan, for any number of scans, whatever fails and      *)
(* however the steps of the tasks interleave.                              *)
(***************************************************************************)
EXTENDS WifiScan, TLAPS

Made == 1 .. made

\* The references to a data set.  last_scan has none to a set that was caught.
Referrers(d) ==
    (IF last = d /\ d \notin caught THEN 1 ELSE 0)
  + (IF server.pc = "read" /\ server.data = d THEN 1 ELSE 0)
  + (IF event.pc \in {"publish", "put"} /\ event.data = d THEN 1 ELSE 0)

Sound == \A d \in alive : ref[d] >= Referrers(d)

\* No reference is lost as long as last_scan points to the set.
Exact == last # None => last \in alive /\ ref[last] = Referrers(last)

KnownSets == alive \subseteq Made /\ caught \subseteq Made

\* What is not allocated counts nothing.
Zeroed == \A d \in Data \ alive : ref[d] = 0

ServerHolds ==
  /\ server.pc = "read" => server.data \in alive
  /\ server.pc = "free" => server.data \in Made /\ ref[server.data] = 0

EventHolds ==
  /\ event.pc = "publish" =>
       /\ event.data \in alive /\ event.data \notin caught /\ ref[event.data] = 1
       /\ last # event.data
       /\ server.pc = "read" => server.data # event.data
  /\ event.pc = "put" => event.data \in alive \cup caught
  /\ event.pc = "free" => event.data \in Made /\ ref[event.data] = 0

\* A caught set leaves last_scan before the event task publishes another: until
\* then the event task has it, or a reader that keeps the next scan from starting.
CaughtSoon ==
  last \in caught =>
    \/ event.pc \in {"put", "free"} /\ event.data = last
    \/ /\ server.pc \in {"read", "free"} /\ server.data = last
       /\ \/ event.pc = "store"
          \/ event.pc \in {"idle", "stop"} /\ flag = 0

PanicsCaught == Panics => caught # {}

ScanInv ==
  /\ TypeOK /\ Sound /\ Exact /\ KnownSets /\ Zeroed
  /\ ServerHolds /\ EventHolds /\ CaughtSoon /\ PanicsCaught

ServerType == [pc : {"idle", "clear", "start", "scan", "get", "read", "free", "panic"},
               start : 0 .. 1, data : Data \cup {None}]
EventType == [pc : {"idle", "publish", "put", "free", "store", "stop", "panic"},
              data : Data \cup {None}]

LEMMA Facts ==
  ASSUME ScanInv
  PROVE  /\ made \in Nat /\ Made \subseteq Data /\ None \notin Data
         /\ last \in Data \cup {None} /\ ref \in [Data -> Nat]
         /\ alive \subseteq Data /\ caught \subseteq Data
         /\ server \in ServerType /\ event \in EventType
         /\ flag \in 0 .. 1
BY ScanAssumption DEF ScanInv, TypeOK, KnownSets, Made, Data, ServerType, EventType

LEMMA ReferrersNat == \A d : Referrers(d) \in 0 .. 3
BY DEF Referrers

-----------------------------------------------------------------------------
(* What the operations on the data sets do to each variable.               *)

LEMMA DecIs ==
  ASSUME NEW d \in Data, StoreIs(Dec(Store, d))
  PROVE  /\ last' = last
         /\ alive' = alive
         /\ ref' = [ref EXCEPT ![d] = @ - 1]
  BY DEF StoreIs, Dec, Store

LEMMA FreeIs ==
  ASSUME NEW d \in Data, StoreIs(Free(Store, d))
  PROVE  /\ last' = None
         /\ alive' = alive \ {d}
         /\ ref' = ref
  BY DEF StoreIs, Free, Store

LEMMA PutIs ==
  ASSUME NEW d \in Data, StoreIs(Put(Store, d))
  PROVE  /\ ref' = [ref EXCEPT ![d] = @ - 1]
         /\ \/ ref[d] = 1 /\ last' = None /\ alive' = alive \ {d}
            \/ ref[d] # 1 /\ last' = last /\ alive' = alive
  BY DEF StoreIs, Put, Dec, Free, Store

\* The data set that is published is not the one it replaces.
LEMMA PublishedIs ==
  ASSUME NEW d \in Data, d # last, last \in Data \cup {None}, ref \in [Data -> Nat],
         StoreIs(Published(Store, d))
  PROVE  \/ /\ last = None
            /\ last' = d /\ alive' = alive
            /\ ref' = [ref EXCEPT ![d] = @ + 1]
         \/ /\ last # None
            /\ ref' = [ref EXCEPT ![d] = @ + 1, ![last] = @ - 1]
            /\ \/ ref[last] = 1 /\ last' = None /\ alive' = alive \ {last}
               \/ ref[last] # 1 /\ last' = d /\ alive' = alive
<1>1. CASE last = None
  BY <1>1 DEF Published, StoreIs, Store
<1>2. CASE last # None
  <2> DEFINE new == [Store EXCEPT !.ref[d] = @ + 1, !.last = d]
  <2>1. last \in Data /\ Store.last = last
    BY <1>2 DEF Store
  <2>5. StoreIs(Put(new, last))
    BY <1>2, <2>1, Zenon DEF Published
  <2>2. new.ref[last] = ref[last]
    BY <2>1 DEF Store
  <2>3. CASE ref[last] = 1
    <3>1. StoreIs(Free(Dec(new, last), last))
      BY <2>5, <2>2, <2>3 DEF Put
    <3> QED
      BY <1>2, <2>1, <2>3, <3>1 DEF StoreIs, Dec, Free, Store
  <2>4. CASE ref[last] # 1
    <3>1. StoreIs(Dec(new, last))
      BY <2>5, <2>2, <2>4 DEF Put
    <3> QED
      BY <1>2, <2>1, <2>4, <3>1 DEF StoreIs, Dec, Store
  <2> QED
    BY <2>3, <2>4
<1> QED
  BY <1>1, <1>2

-----------------------------------------------------------------------------
(* Steps that leave the data sets alone.                                   *)

LEMMA InitKept == Init => ScanInv
BY ScanAssumption DEF Init, ScanInv, TypeOK, Sound, Exact, KnownSets, Zeroed, ServerHolds, EventHolds,
   CaughtSoon, PanicsCaught, Panics, Referrers, Idle, Data, Made

\* The parts of the invariant survive a step that changes neither the data sets
\* nor who holds them.
LEMMA Undisturbed ==
  ASSUME ScanInv, TypeOK', UNCHANGED <<store, made, caught>>,
         \/ server' = server
         \/ server.pc \notin {"read", "free", "panic"} /\ server'.pc \notin {"read", "free", "panic"},
         \/ event' = event
         \/ /\ event.pc \in {"idle", "store", "stop"}
            /\ event'.pc \in {"idle", "store", "stop"},
         CaughtSoon'
  PROVE  ScanInv'
<1>1. Sound' /\ Exact'
  <2>1. \A d : Referrers(d)' = Referrers(d)
    BY DEF Referrers, store
  <2> QED BY <2>1 DEF Sound, Exact, ScanInv, store
<1>2. KnownSets' /\ Zeroed' /\ ServerHolds' /\ EventHolds' /\ PanicsCaught'
  BY DEF ScanInv, KnownSets, Zeroed, Made, ServerHolds, EventHolds, PanicsCaught, Panics, store
<1> QED BY <1>1, <1>2 DEF ScanInv

\* The driver and the timer.
LEMMA TimersKeep ==
  ASSUME ScanInv, DriverDone \/ Unsolicited \/ Expire \/ TimerStop \/ TimerStore
  PROVE  ScanInv'
<1>1. /\ UNCHANGED <<store, made, server, event, history>>
      /\ flag' \in {flag, 0}
  BY DEF DriverDone, Unsolicited, Expire, TimerStop, TimerStore
<1>2. TypeOK'
  BY ScanAssumption DEF ScanInv, DriverDone, Unsolicited, Expire, TimerStop, TimerStore, TypeOK,
     store, history, Data
<1>3. CaughtSoon'
  BY <1>1 DEF ScanInv, CaughtSoon, store, history
<1> QED BY <1>1, <1>2, <1>3, Undisturbed DEF history

LEMMA EventEndKeeps ==
  ASSUME ScanInv, NoResults \/ EventStore \/ EventStop
  PROVE  ScanInv'
<1>1. /\ UNCHANGED <<store, made, server, newest, caught>>
      /\ event.pc \in {"idle", "store", "stop"} /\ event'.pc \in {"idle", "store", "stop"}
  BY DEF NoResults, EventStore, EventStop, Idle, history
<1>2. TypeOK'
  BY ScanAssumption DEF ScanInv, NoResults, EventStore, EventStop, TypeOK, Idle, store, history,
     Data
<1>3. CaughtSoon'
  BY <1>1 DEF ScanInv, CaughtSoon, store, NoResults, EventStore, EventStop, Idle
<1> QED BY <1>1, <1>2, <1>3, Undisturbed

LEMMA GotoIs ==
  ASSUME TypeOK, NEW p \in {"start", "scan", "get", "panic"}, Goto(p)
  PROVE  server' \in ServerType /\ server'.pc = p
BY DEF TypeOK, Goto, ServerType

LEMMA DoneIs ==
  ASSUME Done
  PROVE  server' \in ServerType /\ server'.pc = "idle"
BY DEF Done, ServerType

\* The httpd task up to the data sets.
LEMMA RequestKeeps ==
  ASSUME ScanInv, Request \/ Start \/ ScanStart
  PROVE  ScanInv'
<1>1. /\ UNCHANGED <<store, made, event, newest, caught>>
      /\ server.pc \in {"idle", "start", "scan"}
      /\ server' \in ServerType
      /\ server'.pc \notin {"read", "free", "panic"}
  <2>1. CASE Request
    BY <2>1 DEF Request, history, AfterClear, ServerType
  <2>2. CASE Start
    BY <2>2, GotoIs, DoneIs DEF Start, ScanInv
  <2>3. CASE ScanStart
    BY <2>3, GotoIs, DoneIs DEF ScanStart, ScanInv
  <2> QED BY <2>1, <2>2, <2>3
<1>2. /\ flag' \in 0 .. 1 /\ timer' \in 0 .. 1 /\ callback' = callback
      /\ untimed' \in 0 .. 1
      /\ driver' \in [scan : {"idle", "running"}, posted : {"none", "ok", "failed"}]
  BY DEF Request, Start, ScanStart, ScanInv, TypeOK, history
<1>3. TypeOK'
  BY <1>1, <1>2 DEF ScanInv, TypeOK, ServerType, store, Data
<1>4. CaughtSoon'
  BY <1>1 DEF ScanInv, CaughtSoon, store
<1> QED BY <1>1, <1>3, <1>4, Undisturbed

-----------------------------------------------------------------------------
(* The httpd task and the data sets.                                       *)

LEMMA GetKeeps ==
  ASSUME ScanInv, Get
  PROVE  ScanInv'
<1>0. /\ UNCHANGED <<flag, timer, callback, last, alive, made, driver, event, history>>
      /\ server.pc = "get"
  BY DEF Get
<1>1. CASE last # None /\ ref[last] > 0 /\ ref' = [ref EXCEPT ![last] = @ + 1]
             /\ server' = [server EXCEPT !.pc = "read", !.data = last]
  <2>1. last \in Data /\ last \in alive /\ ref[last] \in Nat
        /\ ref[last] = Referrers(last) /\ ref' \in [Data -> Nat]
    BY <1>1, Facts DEF ScanInv, Exact
  <2>2. server' \in ServerType /\ server'.pc = "read" /\ server'.data = last
    BY <1>1, <2>1, Facts DEF ServerType
  <2>3. TypeOK'
    BY <1>0, <2>1, <2>2 DEF ScanInv, TypeOK, ServerType, history, Data
  <2>4. Referrers(last)' = Referrers(last) + 1
    BY <1>0, <2>2 DEF Referrers, history
  <2>5. \A d : d # last => Referrers(d)' = Referrers(d)
    BY <1>0, <2>2 DEF Referrers, history
  <2>6. Sound' /\ Exact'
    BY <1>0, <1>1, <2>1, <2>4, <2>5, Facts, ReferrersNat DEF ScanInv, Sound, Exact
  <2>7. KnownSets' /\ ServerHolds' /\ PanicsCaught'
    BY <1>0, <2>1, <2>2 DEF ScanInv, KnownSets, Made, ServerHolds, PanicsCaught, Panics, history
  <2>8. EventHolds'
    <3>1. event.pc \in {"free", "publish"} => event.data # last /\ event.data \in Data
      BY <1>1, Facts DEF ScanInv, EventHolds
    <3>2. event.pc \in {"free", "publish"} => ref'[event.data] = ref[event.data]
      BY <1>1, <3>1, Facts
    <3> QED BY <1>0, <2>2, <3>1, <3>2 DEF ScanInv, EventHolds, Made, history
  <2>9. CaughtSoon'
    BY <1>0, <2>2 DEF ScanInv, CaughtSoon, history
  <2>10. Zeroed'
    BY <1>0, <1>1, <2>1, Facts DEF ScanInv, Zeroed
  <2> QED BY <2>3, <2>6, <2>7, <2>8, <2>9, <2>10 DEF ScanInv
<1>2. CASE last # None /\ ref[last] = 0 /\ Goto("panic") /\ UNCHANGED ref
  <2>1. server' \in ServerType /\ server'.pc = "panic"
    BY <1>2, GotoIs DEF ScanInv
  <2>2. last \in caught
    BY <1>2, Facts DEF ScanInv, Exact, Referrers
  <2>3. TypeOK'
    BY <1>0, <1>2, <2>1 DEF ScanInv, TypeOK, ServerType, history, Data
  <2>4. \A d : Referrers(d)' = Referrers(d)
    BY <1>0, <2>1 DEF Referrers, history
  <2>5. Sound' /\ Exact'
    BY <1>0, <1>2, <2>4 DEF ScanInv, Sound, Exact
  <2>6. KnownSets' /\ Zeroed' /\ ServerHolds' /\ EventHolds' /\ CaughtSoon' /\ PanicsCaught'
    BY <1>0, <1>2, <2>1, <2>2 DEF ScanInv, KnownSets, Zeroed, Made, ServerHolds, EventHolds, CaughtSoon,
       PanicsCaught, history
  <2> QED BY <2>3, <2>5, <2>6 DEF ScanInv
<1>3. CASE Done /\ UNCHANGED ref
  <2>1. server' \in ServerType /\ server'.pc = "idle"
    BY <1>3, DoneIs
  <2>2. TypeOK'
    BY <1>0, <1>3, <2>1 DEF ScanInv, TypeOK, ServerType, history, Data
  <2>3. CaughtSoon'
    BY <1>0, <2>1 DEF ScanInv, CaughtSoon, history
  <2> QED BY <1>0, <1>3, <2>1, <2>2, <2>3, Undisturbed DEF store, history
<1> QED BY <1>1, <1>2, <1>3 DEF Get

\* Clear drops the reference of last_scan: either the set goes, or it is caught.
LEMMA ClearKeeps ==
  ASSUME ScanInv, Clear
  PROVE  ScanInv'
<1>0. /\ UNCHANGED <<flag, timer, callback, made, driver, event, untimed>>
      /\ server.pc = "clear"
      /\ server' \in ServerType /\ server'.pc \in {"start", "get", "panic"}
      /\ newest' \in {newest, None}
  BY GotoIs DEF Clear, AfterClear, ScanInv
<1>1. CASE /\ last # None /\ ref[last] > 0
           /\ StoreIs(Put(Store, last))
           /\ caught' = IF last' = last THEN caught \cup {last} ELSE caught
           /\ server'.pc # "panic"
  <2>1. last \in Data /\ last \in alive /\ last \in Made /\ ref[last] \in Nat
        /\ ref[last] = Referrers(last)
    BY <1>1, Facts DEF ScanInv, Exact, KnownSets
  <2>2. /\ ref' = [ref EXCEPT ![last] = @ - 1]
        /\ \/ ref[last] = 1 /\ last' = None /\ alive' = alive \ {last}
           \/ ref[last] # 1 /\ last' = last /\ alive' = alive
    BY <1>1, <2>1, PutIs
  <2>3. ref'[last] = ref[last] - 1 /\ ref' \in [Data -> Nat]
        /\ \A d \in Data : d # last => ref'[d] = ref[d]
    BY <1>1, <2>1, <2>2, Facts
  <2>4. caught' \subseteq Made /\ caught \subseteq caught'
    BY <1>1, <2>1 DEF ScanInv, KnownSets
  <2>5. TypeOK'
    BY <1>0, <2>2, <2>3, <2>4, Facts DEF ScanInv, TypeOK, ServerType, Data
  <2>6. \A d \in Data : d # last => Referrers(d)' = Referrers(d)
    BY <1>0, <1>1, <2>1, <2>2, Facts DEF Referrers
  <2>7. CASE ref[last] = 1
    <3>1. last' = None /\ alive' = alive \ {last} /\ caught' = caught
      BY <1>1, <2>1, <2>2, <2>7, Facts
    <3>2. Sound' /\ Exact' /\ CaughtSoon'
      BY <2>3, <2>6, <3>1, Facts DEF ScanInv, Sound, Exact, CaughtSoon
    <3>3. KnownSets' /\ Zeroed' /\ ServerHolds' /\ PanicsCaught'
      BY <1>0, <1>1, <2>1, <2>3, <2>7, <3>1 DEF ScanInv, KnownSets, Zeroed, Made, ServerHolds,
         PanicsCaught, Panics
    <3>4. EventHolds'
      <4>1. event.pc = "put" /\ event.data = last => last \in caught
        BY <2>1, <2>7 DEF Referrers
      <4>2. event.pc \in {"free", "publish"} => event.data # last /\ event.data \in Data
        BY <2>7, Facts DEF ScanInv, EventHolds
      <4> QED BY <1>0, <2>3, <3>1, <4>1, <4>2, Facts DEF ScanInv, EventHolds, Made
    <3> QED BY <2>5, <3>2, <3>3, <3>4 DEF ScanInv
  <2>8. CASE ref[last] # 1
    <3>1. last' = last /\ alive' = alive /\ caught' = caught \cup {last}
      BY <1>1, <2>2, <2>8
    \* More than one reference: the event task has the other one.
    <3>2. event.pc = "put" /\ event.data = last /\ Referrers(last) = 2
      BY <1>0, <1>1, <2>1, <2>8 DEF Referrers, ScanInv, EventHolds
    <3>3. Referrers(last)' = 1
      BY <1>0, <3>1, <3>2 DEF Referrers
    <3>4. Sound' /\ Exact'
      BY <2>1, <2>3, <2>6, <3>1, <3>2, <3>3, Facts DEF ScanInv, Sound, Exact
    <3>5. KnownSets' /\ Zeroed' /\ ServerHolds' /\ PanicsCaught'
      BY <1>0, <1>1, <2>1, <2>3, <2>4, <3>1, <3>2 DEF ScanInv, KnownSets, Zeroed, Made,
         ServerHolds, PanicsCaught, Panics
    <3>6. EventHolds' /\ CaughtSoon'
      BY <1>0, <2>3, <3>1, <3>2 DEF ScanInv, EventHolds, CaughtSoon
    <3> QED BY <2>5, <3>4, <3>5, <3>6 DEF ScanInv
  <2> QED BY <2>7, <2>8
<1>2. CASE last # None /\ ref[last] = 0 /\ server'.pc = "panic" /\ UNCHANGED <<store, newest, caught>>
  <2>1. last \in caught
    BY <1>2, Facts DEF ScanInv, Exact, Referrers
  <2>2. TypeOK'
    BY <1>0, <1>2 DEF ScanInv, TypeOK, ServerType, store, Data
  <2>3. \A d : Referrers(d)' = Referrers(d)
    BY <1>0, <1>2 DEF Referrers, store
  <2>4. Sound' /\ Exact'
    BY <1>2, <2>3 DEF ScanInv, Sound, Exact, store
  <2>5. KnownSets' /\ Zeroed' /\ ServerHolds' /\ EventHolds' /\ CaughtSoon' /\ PanicsCaught'
    BY <1>0, <1>2, <2>1 DEF ScanInv, KnownSets, Zeroed, Made, ServerHolds, EventHolds, CaughtSoon,
       PanicsCaught, store
  <2> QED BY <2>2, <2>4, <2>5 DEF ScanInv
<1>3. CASE server'.pc # "panic" /\ UNCHANGED <<store, caught>>
  <2>1. TypeOK'
    BY <1>0, <1>3 DEF ScanInv, TypeOK, ServerType, store, Data
  <2>2. CaughtSoon'
    BY <1>0, <1>3 DEF ScanInv, CaughtSoon, store
  <2> QED BY <1>0, <1>3, <2>1, <2>2, Undisturbed
<1>4. Goto("panic") => server'.pc = "panic"
  BY GotoIs DEF ScanInv
<1>5. Goto(AfterClear(server.start)) => server'.pc # "panic"
  BY GotoIs DEF ScanInv, AfterClear
<1> QED BY <1>1, <1>2, <1>3, <1>4, <1>5 DEF Clear

LEMMA ReadAndPutKeeps ==
  ASSUME ScanInv, ReadAndPut
  PROVE  ScanInv'
<1> PICK d : d = server.data
  OBVIOUS
<1>0. /\ UNCHANGED <<flag, timer, callback, made, driver, event, history>>
      /\ server.pc = "read" /\ d \in alive /\ d \in Data /\ ref[d] \in Nat
  BY Facts DEF ReadAndPut, ScanInv, ServerHolds
<1>1. last' = last /\ alive' = alive /\ ref' = [ref EXCEPT ![d] = @ - 1]
  BY <1>0, DecIs DEF ReadAndPut
<1>2. ref[d] >= Referrers(d) /\ Referrers(d) >= 1
  BY <1>0 DEF ScanInv, Sound, Referrers
<1>3. ref'[d] = ref[d] - 1 /\ ref' \in [Data -> Nat] /\ \A x \in Data : x # d => ref'[x] = ref[x]
  BY <1>0, <1>1, <1>2, Facts, ReferrersNat
<1>4. /\ server' \in ServerType
      /\ \/ server'.pc = "free" /\ server'.data = d /\ ref'[d] = 0
         \/ server'.pc = "idle" /\ ref'[d] # 0
  BY DoneIs, Facts DEF ReadAndPut, ServerType
<1>5. TypeOK'
  BY <1>0, <1>1, <1>3, <1>4 DEF ScanInv, TypeOK, ServerType, history, Data
<1>6. /\ Referrers(d)' = Referrers(d) - 1
      /\ \A x \in Data : x # d => Referrers(x)' = Referrers(x)
  <2>1. /\ last' = last /\ caught' = caught /\ event' = event
        /\ server.pc = "read" /\ server'.pc # "read"
    BY <1>0, <1>1, <1>4 DEF history
  <2> QED BY <2>1 DEF Referrers
<1>7. Sound' /\ Exact'
  BY <1>0, <1>1, <1>2, <1>3, <1>6, Facts, ReferrersNat DEF ScanInv, Sound, Exact
<1>8. KnownSets' /\ Zeroed' /\ ServerHolds' /\ PanicsCaught'
  <2>1. d \in Made
    BY <1>0 DEF ScanInv, KnownSets
  <2> QED BY <1>0, <1>1, <1>3, <1>4, <2>1 DEF ScanInv, KnownSets, Zeroed, Made, ServerHolds,
          PanicsCaught, Panics, history
<1>9. EventHolds'
  <2>1. event.pc \in {"free", "publish"} => event.data # d /\ event.data \in Data
    BY <1>0, <1>2, ReferrersNat, Facts DEF ScanInv, EventHolds
  <2> QED BY <1>0, <1>1, <1>3, <1>4, <2>1 DEF ScanInv, EventHolds, Made, history
<1>10. CaughtSoon'
  <2> SUFFICES ASSUME last \in caught PROVE CaughtSoon'
    BY <1>0, <1>1 DEF CaughtSoon, history
  <2>1. CASE event.pc \in {"put", "free"} /\ event.data = last
    BY <1>0, <1>1, <2>1 DEF CaughtSoon, history
  <2>2. CASE ~(event.pc \in {"put", "free"} /\ event.data = last)
    <3>1. /\ d = last
          /\ \/ event.pc = "store"
             \/ event.pc \in {"idle", "stop"} /\ flag = 0
      BY <2>2 DEF ScanInv, CaughtSoon
    <3>2. last # None /\ ref[d] = 1
      BY <1>0, <3>1, Facts DEF ScanInv, Exact, Referrers
    <3> QED BY <1>0, <1>1, <1>3, <1>4, <3>1, <3>2 DEF CaughtSoon, history
  <2> QED BY <2>1, <2>2
<1> QED BY <1>5, <1>7, <1>8, <1>9, <1>10 DEF ScanInv

\* Nobody refers to a set that is about to be freed.
LEMMA UnreferredIfZero ==
  ASSUME ScanInv, NEW d \in alive, ref[d] = 0
  PROVE  /\ last = d => d \in caught
         /\ server.pc = "read" => server.data # d
         /\ event.pc \in {"publish", "put"} => event.data # d
BY DEF ScanInv, Sound, Referrers

\* Freeing a set clears last_scan.
LEMMA FreedKeeps ==
  ASSUME ScanInv, NEW d \in Data, ref[d] = 0,
         last' = None, alive' = alive \ {d}, UNCHANGED <<ref, made, caught>>, TypeOK',
         \/ server' = server
         \/ server.pc \notin {"read", "panic"} /\ server'.pc \notin {"read", "free", "panic"},
         \/ event' = event
         \/ /\ event.pc \in {"free", "idle", "store", "stop"}
            /\ event'.pc \in {"idle", "store", "stop"}
  PROVE  ScanInv'
<1>1. \A x \in Data : Referrers(x)' \in Nat /\ Referrers(x)' <= Referrers(x)
  BY Facts DEF Referrers
<1>2. Sound' /\ Exact'
  BY <1>1, Facts, ReferrersNat DEF ScanInv, Sound, Exact
<1>3. KnownSets' /\ Zeroed' /\ PanicsCaught'
  BY DEF ScanInv, KnownSets, Zeroed, Made, PanicsCaught, Panics
<1>4. ServerHolds'
  BY UnreferredIfZero DEF ScanInv, ServerHolds, Made
<1>5. EventHolds'
  <2>1. event.pc = "put" /\ event.data = d => d \in caught
    BY UnreferredIfZero DEF ScanInv, EventHolds
  <2>2. event.pc = "publish" => event.data # d
    BY DEF ScanInv, EventHolds
  <2> QED BY <2>1, <2>2, Facts DEF ScanInv, EventHolds, Made
<1>6. CaughtSoon'
  BY Facts DEF CaughtSoon
<1> QED BY <1>2, <1>3, <1>4, <1>5, <1>6 DEF ScanInv

LEMMA ServerFreeKeeps ==
  ASSUME ScanInv, ServerFree
  PROVE  ScanInv'
<1>1. /\ UNCHANGED <<flag, timer, callback, made, driver, event, history>>
      /\ server.pc = "free" /\ server.data \in Data /\ ref[server.data] = 0
  BY Facts DEF ServerFree, ScanInv, ServerHolds
<1>2. last' = None /\ alive' = alive \ {server.data} /\ ref' = ref
  BY <1>1, FreeIs DEF ServerFree
<1>3. server' \in ServerType /\ server'.pc = "idle"
  BY DoneIs DEF ServerFree
<1>4. TypeOK'
  BY <1>1, <1>2, <1>3 DEF ScanInv, TypeOK, ServerType, history, Data
<1> QED BY <1>1, <1>2, <1>3, <1>4, FreedKeeps DEF history

-----------------------------------------------------------------------------
(* The event task and the data sets.                                       *)

\* What is true of the data set that is fetched: nobody holds it.
LEMMA FetchKeeps ==
  ASSUME ScanInv, Fetch
  PROVE  ScanInv'
<1>1. /\ UNCHANGED <<flag, timer, callback, server, history>>
      /\ event.pc = "idle" /\ flag = 1
      /\ made' = made + 1 /\ made' \in Data /\ made' \notin Made /\ made' # None
      /\ Made \subseteq Made'
  BY ScanAssumption DEF Fetch, ScanInv, TypeOK, Data, Made
<1>2. /\ last' = last /\ ref' = [ref EXCEPT ![made'] = 1]
      /\ alive' = alive \cup {made'}
  BY DEF Fetch, StoreIs, Store
<1>3. /\ event' \in EventType /\ event'.pc \in {"publish", "put"}
      /\ event'.data = made'
  BY <1>1 DEF Fetch, EventType
<1>4. driver' \in [scan : {"idle", "running"}, posted : {"none", "ok", "failed"}]
  BY DEF Fetch, ScanInv, TypeOK
<1>5. ref' \in [Data -> Nat] /\ ref'[made'] = 1 /\ \A x \in Data : x # made' => ref'[x] = ref[x]
  BY <1>1, <1>2, Facts
<1>6. TypeOK'
  BY <1>1, <1>2, <1>3, <1>4, <1>5, ScanAssumption DEF ScanInv, TypeOK, EventType, Data, history
<1>7. /\ made' \notin alive /\ made' \notin caught
      /\ last # made'
      /\ server.pc = "read" => server.data # made'
  BY <1>1 DEF ScanInv, KnownSets, Exact, ServerHolds
<1>8. \A x : Referrers(x)' = Referrers(x) + (IF x = made' THEN 1 ELSE 0)
  BY <1>1, <1>2, <1>3 DEF Referrers, history
<1>9. Referrers(made') = 0
  BY <1>1, <1>7 DEF Referrers
<1>10. Sound'
  <2> SUFFICES ASSUME NEW x \in alive' PROVE ref'[x] >= Referrers(x)'
    BY DEF Sound
  <2>1. CASE x = made'
    BY <1>5, <1>8, <1>9, <2>1
  <2>2. CASE x # made'
    BY <1>2, <1>5, <1>8, <2>2, Facts, ReferrersNat DEF ScanInv, Sound
  <2> QED BY <2>1, <2>2
<1>11. Exact'
  BY <1>1, <1>2, <1>5, <1>7, <1>8, Facts, ReferrersNat DEF ScanInv, Exact
<1>15. KnownSets' /\ Zeroed'
  <2>1. made' \in Made'
    BY <1>1, Facts DEF Made
  <2> QED BY <1>1, <1>2, <1>5, <2>1 DEF ScanInv, KnownSets, Zeroed, history
<1>12. ServerHolds'
  <2> SUFFICES ASSUME server.pc = "free" PROVE server.data \in Made' /\ ref'[server.data] = 0
    BY <1>1, <1>2 DEF ScanInv, ServerHolds
  <2>1. server.data # made' /\ server.data \in Made /\ server.data \in Data
    BY <1>1, Facts DEF ScanInv, ServerHolds
  <2> QED BY <1>1, <1>5, <2>1 DEF ScanInv, ServerHolds
<1>13. EventHolds' /\ PanicsCaught'
  BY <1>1, <1>2, <1>3, <1>5, <1>7 DEF ScanInv, EventHolds, PanicsCaught, Panics, history
<1>14. CaughtSoon'
  BY <1>1, <1>2 DEF ScanInv, CaughtSoon, history
<1> QED BY <1>6, <1>10, <1>11, <1>12, <1>13, <1>14, <1>15 DEF ScanInv


LEMMA PublishKeeps ==
  ASSUME ScanInv, Publish
  PROVE  ScanInv'
<1> PICK d : d = event.data
  OBVIOUS
<1>0. /\ UNCHANGED <<flag, timer, callback, made, driver, server, caught, untimed>>
      /\ event.pc = "publish"
      /\ event' \in EventType /\ event'.pc = "put" /\ event'.data = d
      /\ newest' \in {newest, d}
  BY Facts DEF Publish, EventType
<1>1. /\ d \in alive /\ d \in Data /\ d \notin caught /\ ref[d] = 1
      /\ last # d /\ last \notin caught
      /\ server.pc = "read" => server.data # d
  BY <1>0, Facts DEF ScanInv, EventHolds, CaughtSoon
<1>2. CASE UNCHANGED store
  <2>1. \A x : Referrers(x)' = Referrers(x)
    BY <1>0, <1>2 DEF Referrers, store
  <2>2. TypeOK'
    BY <1>0, <1>1, <1>2 DEF ScanInv, TypeOK, EventType, store, Data
  <2>3. Sound' /\ Exact' /\ KnownSets' /\ Zeroed' /\ ServerHolds' /\ PanicsCaught'
    BY <1>0, <1>2, <2>1 DEF ScanInv, Sound, Exact, KnownSets, Zeroed, Made, ServerHolds, PanicsCaught,
       Panics, store
  <2>4. EventHolds' /\ CaughtSoon'
    BY <1>0, <1>1, <1>2 DEF EventHolds, CaughtSoon, store
  <2> QED BY <2>2, <2>3, <2>4 DEF ScanInv
<1>3. CASE StoreIs(Published(Store, d))
  <2>1. \/ /\ last = None
           /\ last' = d /\ alive' = alive
           /\ ref' = [ref EXCEPT ![d] = @ + 1]
        \/ /\ last # None
           /\ ref' = [ref EXCEPT ![d] = @ + 1, ![last] = @ - 1]
           /\ \/ ref[last] = 1 /\ last' = None /\ alive' = alive \ {last}
              \/ ref[last] # 1 /\ last' = d /\ alive' = alive
    BY <1>1, <1>3, Facts, PublishedIs
  \* The set that is replaced has the reference of last_scan, and of a reader.
  <2>2. last # None => /\ last \in Data /\ last \in alive
                       /\ ref[last] = 1 + (IF server.pc = "read" /\ server.data = last THEN 1 ELSE 0)
    BY <1>0, <1>1, Facts DEF ScanInv, Exact, Referrers
  <2>3. /\ ref' \in [Data -> Nat] /\ ref'[d] = 2
        /\ last # None => ref'[last] = ref[last] - 1
        /\ \A x \in Data : x # d /\ x # last => ref'[x] = ref[x]
    <3>1. CASE last = None
      BY <1>1, <2>1, <3>1, Facts
    <3>2. CASE last # None
      BY <1>1, <2>1, <2>2, <3>2, Facts
    <3> QED BY <3>1, <3>2
  <2>4. /\ last' \in {None, d}
        /\ last' = None => last # None /\ ref[last] = 1
        /\ alive' \subseteq alive
        /\ \A x \in alive : x \notin alive' => x = last /\ ref[last] = 1
        /\ last \in alive' => ref[last] = 2
    <3>1. CASE last = None
      BY <1>1, <2>1, <3>1, Facts
    <3>2. CASE last # None
      BY <1>1, <2>1, <2>2, <3>2, Facts
    <3> QED BY <3>1, <3>2
  <2>5. TypeOK'
    BY <1>0, <1>1, <2>3, <2>4 DEF ScanInv, TypeOK, EventType, Data
  <2>6. /\ Referrers(d)' = (IF last' = d THEN 2 ELSE 1)
        /\ \A x \in Data : x # d /\ x # last => Referrers(x)' = Referrers(x)
        /\ \A x \in Data : x = last => Referrers(x)' = ref[x] - 1
    <3>1. Referrers(d)' = (IF last' = d THEN 2 ELSE 1)
      BY <1>0, <1>1 DEF Referrers
    <3>2. \A x \in Data : x # d /\ x # last => Referrers(x)' = Referrers(x)
      BY <1>0, <1>1, <2>4, Facts DEF Referrers
    <3>3. ASSUME NEW x \in Data, x = last PROVE Referrers(x)' = ref[x] - 1
      <4>1. x # d /\ last' # x /\ ref[x] = 1 + (IF server.pc = "read" /\ server.data = x THEN 1 ELSE 0)
        BY <1>1, <2>2, <2>4, <3>3, Facts
      <4> QED BY <1>0, <4>1 DEF Referrers
    <3> QED BY <3>1, <3>2, <3>3
  <2>7. Sound' /\ Exact'
    <3>1. Sound'
      <4> SUFFICES ASSUME NEW x \in alive' PROVE ref'[x] >= Referrers(x)'
        BY DEF Sound
      <4>1. x \in alive /\ x \in Data
        BY <2>4, Facts
      <4>2. CASE x = d
        BY <2>3, <2>6, <4>2
      <4>3. CASE x = last
        BY <2>2, <2>3, <2>6, <4>1, <4>3, Facts
      <4>4. CASE x # d /\ x # last
        BY <2>3, <2>6, <4>1, <4>4 DEF ScanInv, Sound
      <4> QED BY <4>2, <4>3, <4>4
    <3>2. Exact'
      <4> SUFFICES ASSUME last' # None PROVE (last \in alive /\ ref[last] = Referrers(last))'
        BY DEF Exact
      <4>1. last' = d /\ d \in alive'
        BY <1>1, <2>4
      <4>2. Referrers(d)' = 2
        BY <2>6, <4>1
      <4> QED BY <2>3, <4>1, <4>2
    <3> QED BY <3>1, <3>2
  <2>8. KnownSets' /\ Zeroed'
    <3>1. Zeroed'
      BY <1>1, <2>2, <2>3, <2>4, Facts DEF ScanInv, Zeroed
    <3> QED BY <1>0, <2>4, <3>1 DEF ScanInv, KnownSets, Made
  <2>9. ServerHolds' /\ PanicsCaught'
    <3>1. server.pc = "read" => server.data \in alive'
      BY <1>1, <2>2, <2>4, Facts DEF ScanInv, ServerHolds
    <3>2. server.pc = "free" => ref'[server.data] = 0
      <4> SUFFICES ASSUME server.pc = "free" PROVE ref'[server.data] = 0
        OBVIOUS
      <4>1. server.data \in Data /\ ref[server.data] = 0
        BY Facts DEF ScanInv, ServerHolds
      <4>2. server.data # d /\ (last # None => server.data # last)
        BY <1>1, <2>2, <4>1
      <4> QED BY <2>3, <4>1, <4>2, Facts
    <3> QED BY <1>0, <1>1, <3>1, <3>2 DEF ScanInv, ServerHolds, Made, PanicsCaught, Panics
  <2>10. EventHolds' /\ CaughtSoon'
    <3>1. d \in alive'
      BY <1>1, <2>4
    <3> QED BY <1>0, <1>1, <2>4, <3>1, Facts DEF EventHolds, CaughtSoon
  <2> QED BY <2>5, <2>7, <2>8, <2>9, <2>10 DEF ScanInv
<1> QED BY <1>2, <1>3 DEF Publish

LEMMA EventPutKeeps ==
  ASSUME ScanInv, EventPut
  PROVE  ScanInv'
<1> PICK d : d = event.data
  OBVIOUS
<1>0. /\ UNCHANGED <<flag, timer, callback, made, driver, server, history>>
      /\ event.pc = "put" /\ d \in alive \cup caught /\ d \in Data /\ d \in Made
      /\ ref[d] \in Nat
      /\ event' \in EventType
  BY Facts DEF EventPut, ScanInv, EventHolds, KnownSets, EventType, Idle
<1>1. CASE /\ d \in alive
           /\ StoreIs(Dec(Store, d))
           /\ event' = IF ref'[d] = 0 THEN [event EXCEPT !.pc = "free"]
                       ELSE [Idle EXCEPT !.pc = "store"]
  <2>1. last' = last /\ alive' = alive /\ ref' = [ref EXCEPT ![d] = @ - 1]
    BY <1>0, <1>1, DecIs
  <2>2. ref[d] >= Referrers(d) /\ Referrers(d) >= 1
    BY <1>0, <1>1 DEF ScanInv, Sound, Referrers
  <2>3. ref'[d] = ref[d] - 1 /\ ref' \in [Data -> Nat] /\ \A x \in Data : x # d => ref'[x] = ref[x]
    BY <1>0, <2>1, <2>2, Facts, ReferrersNat
  <2>4. \/ event'.pc = "free" /\ event'.data = d /\ ref'[d] = 0
        \/ event'.pc = "store" /\ ref'[d] # 0
    BY <1>1, Facts DEF Idle, EventType
  <2>5. TypeOK'
    BY <1>0, <2>1, <2>3 DEF ScanInv, TypeOK, EventType, history, Data
  <2>6. /\ Referrers(d)' = Referrers(d) - 1
        /\ \A x \in Data : x # d => Referrers(x)' = Referrers(x)
    <3>1. /\ last' = last /\ caught' = caught /\ server' = server
          /\ event.pc = "put" /\ event'.pc \notin {"publish", "put"}
      BY <1>0, <2>1, <2>4 DEF history
    <3> QED BY <3>1 DEF Referrers
  <2>7. Sound' /\ Exact'
    BY <1>0, <1>1, <2>1, <2>2, <2>3, <2>6, Facts, ReferrersNat DEF ScanInv, Sound, Exact
  <2>8. KnownSets' /\ Zeroed' /\ PanicsCaught'
    BY <1>0, <1>1, <2>1, <2>3, <2>4 DEF ScanInv, KnownSets, Zeroed, Made, PanicsCaught, Panics, history
  <2>9. ServerHolds'
    <3>1. server.pc = "free" => server.data # d
      BY <1>0, <2>2, ReferrersNat DEF ScanInv, ServerHolds
    <3> QED BY <1>0, <2>1, <2>3, <3>1, Facts DEF ScanInv, ServerHolds, Made
  <2>10. EventHolds'
    BY <1>0, <2>1, <2>3, <2>4 DEF EventHolds, Made
  <2>11. CaughtSoon'
    <3> SUFFICES ASSUME last \in caught PROVE CaughtSoon'
      BY <1>0, <2>1 DEF CaughtSoon, history
    <3>1. d = last
      BY <1>0 DEF ScanInv, CaughtSoon
    <3>2. CASE event'.pc = "free"
      BY <1>0, <2>1, <2>4, <3>1, <3>2 DEF CaughtSoon, history
    <3>3. CASE event'.pc = "store"
      <4>1. ref[d] = Referrers(d) /\ ref[d] # 1
        BY <1>0, <1>1, <2>2, <2>3, <2>4, <3>1, <3>3, Facts, ReferrersNat DEF ScanInv, Exact
      <4>2. Referrers(d) # 1 /\ last \in caught /\ event.pc = "put"
        BY <1>0, <4>1
      <4>3. server.pc = "read" /\ server.data = d
        BY <3>1, <4>2 DEF Referrers
      <4> QED BY <1>0, <2>1, <3>1, <3>3, <4>3 DEF CaughtSoon, history
    <3> QED BY <2>4, <3>2, <3>3
  <2> QED BY <2>5, <2>7, <2>8, <2>9, <2>10, <2>11 DEF ScanInv
\* Two clears have freed the set before the event task puts it.
<1>2. CASE /\ d \notin alive
           /\ \E pc \in {"free", "store", "panic"} : event' = [event EXCEPT !.pc = pc]
           /\ UNCHANGED store
  <2>1. event'.pc \in {"free", "store", "panic"} /\ event'.data = d /\ d \in caught
    BY <1>0, <1>2, Facts DEF EventType
  <2>2. TypeOK'
    BY <1>0, <1>2 DEF ScanInv, TypeOK, EventType, store, history, Data
  <2>3. \A x \in Data : Referrers(x)' <= Referrers(x) /\ (x # d => Referrers(x)' = Referrers(x))
    BY <1>0, <1>2, <2>1 DEF Referrers, store, history
  <2>4. Sound'
    BY <1>2, <2>3, Facts, ReferrersNat DEF ScanInv, Sound, store
  <2>5. last # d
    BY <1>0, <1>2, Facts DEF ScanInv, Exact
  <2>6. Exact'
    BY <1>2, <2>3, <2>5, Facts DEF ScanInv, Exact, store
  <2>7. KnownSets' /\ Zeroed' /\ ServerHolds' /\ PanicsCaught'
    BY <1>0, <1>2, <2>1 DEF ScanInv, KnownSets, Zeroed, Made, ServerHolds, PanicsCaught, Panics,
       store, history
  <2>8. EventHolds'
    BY <1>0, <1>2, <2>1 DEF EventHolds, ScanInv, Zeroed, Made, store
  <2>9. CaughtSoon'
    BY <1>0, <1>2, <2>5 DEF ScanInv, CaughtSoon, store, history
  <2> QED BY <2>2, <2>4, <2>6, <2>7, <2>8, <2>9 DEF ScanInv
<1> QED BY <1>1, <1>2 DEF EventPut

LEMMA EventFreeKeeps ==
  ASSUME ScanInv, EventFree
  PROVE  ScanInv'
<1>1. /\ UNCHANGED <<flag, timer, callback, made, driver, server, history>>
      /\ event.pc = "free" /\ event.data \in Data /\ ref[event.data] = 0
      /\ event' \in EventType /\ event'.pc = "store"
  BY Facts DEF EventFree, ScanInv, EventHolds, EventType, Idle
<1>2. last' = None /\ alive' = alive \ {event.data} /\ ref' = ref
  BY <1>1, FreeIs DEF EventFree
<1>3. TypeOK'
  BY <1>1, <1>2 DEF ScanInv, TypeOK, EventType, history, Data
<1> QED BY <1>1, <1>2, <1>3, FreedKeeps DEF history

LEMMA RestartKeeps ==
  ASSUME ScanInv, Restart
  PROVE  ScanInv'
<1>1. TypeOK'
  BY DEF ScanInv, Restart, TypeOK, Idle, Data
<1>2. Sound' /\ Exact' /\ KnownSets' /\ Zeroed' /\ ServerHolds' /\ EventHolds' /\ CaughtSoon'
      /\ PanicsCaught'
  BY DEF Restart, Sound, Exact, KnownSets, Zeroed, ServerHolds, EventHolds, CaughtSoon, PanicsCaught,
     Panics, Idle
<1> QED BY <1>1, <1>2 DEF ScanInv

LEMMA NextKeeps == ScanInv /\ [Next]_vars => ScanInv'
<1> SUFFICES ASSUME ScanInv, [Next]_vars PROVE ScanInv'
  OBVIOUS
<1>1. CASE DriverDone \/ Unsolicited \/ Expire \/ TimerStop \/ TimerStore
  BY <1>1, TimersKeep
<1>2. CASE NoResults \/ EventStore \/ EventStop
  BY <1>2, EventEndKeeps
<1>3. CASE Request \/ Start \/ ScanStart
  BY <1>3, RequestKeeps
<1>4. CASE Get
  BY <1>4, GetKeeps
<1>5. CASE Clear
  BY <1>5, ClearKeeps
<1>6. CASE ReadAndPut
  BY <1>6, ReadAndPutKeeps
<1>7. CASE ServerFree
  BY <1>7, ServerFreeKeeps
<1>8. CASE Fetch
  BY <1>8, FetchKeeps
<1>9. CASE Publish
  BY <1>9, PublishKeeps
<1>10. CASE EventPut
  BY <1>10, EventPutKeeps
<1>11. CASE EventFree
  BY <1>11, EventFreeKeeps
<1>12. CASE Restart
  BY <1>12, RestartKeeps
<1>13. CASE UNCHANGED vars
  <2>1. UNCHANGED <<store, made, server, event, history, flag, timer, callback, driver>>
    BY <1>13 DEF vars
  <2>2. TypeOK' /\ CaughtSoon'
    BY <2>1 DEF ScanInv, TypeOK, CaughtSoon, store, history, Data
  <2> QED BY <2>1, <2>2, Undisturbed DEF history
<1> QED
  BY <1>1, <1>2, <1>3, <1>4, <1>5, <1>6, <1>7, <1>8, <1>9, <1>10, <1>11, <1>12, <1>13
  DEF Next, EventStep, TimerStep, ServerStep

LEMMA Inductive == Spec => []ScanInv
<1>1. Init => ScanInv
  BY InitKept
<1>2. ScanInv /\ [Next]_vars => ScanInv'
  BY NextKeeps
<1> QED BY <1>1, <1>2, PTL DEF Spec

-----------------------------------------------------------------------------
(* The theorems.                                                           *)

\* Every variable keeps its range: the reference counts of esp32_wifi.c never go
\* below zero, whatever fails and however the tasks interleave.
THEOREM ScanTypes == Spec => []TypeOK
<1>1. ScanInv => TypeOK
  BY DEF ScanInv
<1> QED BY <1>1, Inductive, PTL

\* Whoever holds a data set holds it for good, and no assertion of kref.h fails
\* (put_scan_data, get_scan_data, clear_global_scan_data), except for the sets
\* that a clear met between their publication and the event task's own put.
THEOREM HeldSetsAreCounted == Spec => []Counted
<1>1. ScanInv => Counted
  <2> SUFFICES ASSUME ScanInv, NEW d \in Data \ caught, Holders(d) > 0
               PROVE  d \in alive /\ ref[d] >= Holders(d)
    BY DEF Counted, ScanInv, PanicsCaught
  <2>1. Holders(d) = Referrers(d)
    BY DEF Holders, Referrers
  <2>2. last = d \/ (server.pc = "read" /\ server.data = d)
        \/ (event.pc \in {"publish", "put"} /\ event.data = d)
    BY DEF Holders
  <2>3. d \in alive
    BY <2>2, Facts DEF ScanInv, Exact, ServerHolds, EventHolds
  <2> QED BY <2>1, <2>3 DEF ScanInv, Sound
<1> QED BY <1>1, Inductive, PTL
=============================================================================
