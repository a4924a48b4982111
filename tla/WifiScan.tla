------------------------------- MODULE WifiScan -------------------------------
(***************************************************************************)
(* The access-point scan of util/esp32_wifi.c.                             *)
(*                                                                         *)
(* The httpd task (cgiWiFiScan) clears old results, starts scans and reads *)
(* results; the event task (wifi_scan_done) publishes a new, reference     *)
(* counted data set in last_scan; the timer task (handle_scan_timer) ends  *)
(* a scan that hangs.  last_scan is changed under data_lock in some places *)
(* and without it in others: what is done under the lock is one step here, *)
(* what is not is a step of its own.  The tasks run on either core (the    *)
(* httpd task is not pinned, httpd-freertos.c:829), so all steps           *)
(* interleave.                                                             *)
(***************************************************************************)
EXTENDS Naturals

CONSTANTS
    MaxScans,  \* bound: data sets that can be allocated
    Failures,  \* 1 iff allocations fail, data_lock may be taken too late and the
               \* timer command queue may be full
    None       \* no data set

ASSUME ScanAssumption ==
    /\ MaxScans \in Nat
    /\ Failures \in {0, 1}
    /\ None \notin Nat

VARIABLES
    flag,      \* scan_in_progress
    timer,     \* scan_timer: 1 iff armed, the commands in its queue included
    callback,  \* its callback: "none", or what it is about to do
    last,      \* last_scan
    ref,       \* ref_cnt of each data set
    alive,     \* the data sets that are allocated
    made,      \* data sets allocated so far
    driver,    \* the driver: is a scan running, and the event it has posted
    server,    \* the httpd task in cgiWiFiScan
    event,     \* the event task in wifi_scan_done
    newest,    \* history: what was published last and not cleared since
    caught,    \* history: data sets that a clear met between their publication
               \* and the event task's own put
    untimed    \* history: 1 iff the scan under way lost its timer, refused by
               \* the queue or stopped for the scan before it

store == <<last, ref, alive>>  \* the data sets
history == <<newest, caught, untimed>>
vars == <<flag, timer, callback, store, made, driver, server, event, history>>

Data == 1 .. MaxScans
Idle == [pc |-> "idle", data |-> None]

TypeOK ==
    /\ flag \in 0 .. 1
    /\ timer \in 0 .. 1
    /\ callback \in {"none", "stop", "store"}
    /\ last \in Data \cup {None}
    /\ ref \in [Data -> Nat]
    /\ alive \subseteq Data
    /\ made \in 0 .. MaxScans
    /\ driver \in [scan : {"idle", "running"}, posted : {"none", "ok", "failed"}]
    /\ server \in [pc : {"idle", "clear", "start", "scan", "get", "read", "free",
                         "panic"},
                   start : 0 .. 1, data : Data \cup {None}]
    /\ event \in [pc : {"idle", "publish", "put", "free", "store", "stop", "panic"},
                  data : Data \cup {None}]
    /\ newest \in Data \cup {None}
    /\ caught \subseteq Data
    /\ untimed \in 0 .. 1

Init ==
    /\ flag = 0
    /\ timer = 0
    /\ callback = "none"
    /\ last = None
    /\ ref = [d \in Data |-> 0]
    /\ alive = {}
    /\ made = 0
    /\ driver = [scan |-> "idle", posted |-> "none"]
    /\ server = [pc |-> "idle", start |-> 0, data |-> None]
    /\ event = Idle
    /\ newest = None /\ caught = {} /\ untimed = 0

\* A task stops where an assertion of kref.h fails: a count below one.
Panics == server.pc = "panic" \/ event.pc = "panic"

\* The device starts again.
Restart ==
    /\ Panics
    /\ flag' = 0 /\ timer' = 0 /\ callback' = "none"
    /\ last' = None /\ ref' = [d \in Data |-> 0] /\ alive' = {}
    /\ driver' = [scan |-> "idle", posted |-> "none"]
    /\ server' = [pc |-> "idle", start |-> 0, data |-> None]
    /\ event' = Idle
    /\ newest' = None /\ caught' = {} /\ untimed' = 0
    /\ UNCHANGED made

-----------------------------------------------------------------------------
(* Reference counting, as it changes <<last, ref, alive>> of a record r.   *)

Store == [last |-> last, ref |-> ref, alive |-> alive]

\* free_scan_data: whichever data set it frees, last_scan becomes NULL.
FreeKeepsLast(r, d) == [r EXCEPT !.alive = @ \ {d}]   \* mutant
Free(r, d) == [r EXCEPT !.alive = @ \ {d}, !.last = None]

Dec(r, d) == [r EXCEPT !.ref[d] = @ - 1]

\* put_scan_data under data_lock
Put(r, d) == IF r.ref[d] = 1 THEN Free(Dec(r, d), d) ELSE Dec(r, d)

\* wifi_scan_done: the global pointer takes a reference of its own, the data set
\* it held loses one.
PublishedUncounted(r, d) ==                            \* mutant: no kref_get
    LET new == [r EXCEPT !.last = d]
    IN  IF r.last = None THEN new ELSE Put(new, r.last)
Published(r, d) ==
    LET new == [r EXCEPT !.ref[d] = @ + 1, !.last = d]
    IN  IF r.last = None THEN new ELSE Put(new, r.last)

StoreIs(r) ==
    /\ last' = r.last
    /\ ref' = r.ref
    /\ alive' = r.alive

-----------------------------------------------------------------------------
(* The driver.                                                             *)

\* A scan ends by itself, or is stopped by cfg_state_update.  It takes longer
\* than the event task needs to see the event of the scan before.
DriverDone ==
    /\ driver.scan = "running" /\ driver.posted = "none"
    /\ \E result \in {"ok", "failed"} :
         driver' = [scan |-> "idle", posted |-> result]
    /\ UNCHANGED <<flag, timer, callback, store, made, server, event, history>>

-----------------------------------------------------------------------------
(* The event task: wifi_scan_done.                                         *)

Unsolicited ==
    /\ event.pc = "idle" /\ driver.posted # "none"
    /\ flag = 0
    /\ driver' = [driver EXCEPT !.posted = "none"]
    /\ UNCHANGED <<flag, timer, callback, store, made, server, event, history>>

\* The scan failed or found nothing, or there is no memory for the data set.
NoResults ==
    /\ event.pc = "idle" /\ driver.posted # "none"
    /\ flag = 1
    /\ driver' = [driver EXCEPT !.posted = "none"]
    /\ event' = [Idle EXCEPT !.pc = "store"]
    /\ UNCHANGED <<flag, timer, callback, store, made, server, history>>

\* A new data set; without memory for its records it is put at once.
Fetch ==
    /\ event.pc = "idle" /\ driver.posted = "ok"
    /\ flag = 1
    /\ made < MaxScans
    /\ made' = made + 1
    /\ driver' = [driver EXCEPT !.posted = "none"]
    /\ \E pc \in IF Failures = 1 THEN {"publish", "put"} ELSE {"publish"} :
         event' = [pc |-> pc, data |-> made']
    /\ StoreIs([Store EXCEPT !.ref[made'] = 1, !.alive = @ \cup {made'}])
    /\ UNCHANGED <<flag, timer, callback, server, history>>

\* "Make new scan data available."
Publish ==
    /\ event.pc = "publish"
    /\ \/ /\ StoreIs(Published(Store, event.data))
          /\ newest' = event.data
       \/ /\ Failures = 1
          /\ UNCHANGED <<store, newest>>
    /\ event' = [event EXCEPT !.pc = "put"]
    /\ UNCHANGED <<flag, timer, callback, made, driver, server, caught, untimed>>

\* "Drop one reference to the new scan data", without the lock.  The count of a
\* set that two clears have freed by then reads as anything.
EventPut ==
    /\ event.pc = "put"
    /\ \/ /\ event.data \in alive
          /\ StoreIs(Dec(Store, event.data))
          /\ event' = IF ref'[event.data] = 0 THEN [event EXCEPT !.pc = "free"]
                      ELSE [Idle EXCEPT !.pc = "store"]
       \/ /\ event.data \notin alive
          /\ \E pc \in {"free", "store", "panic"} : event' = [event EXCEPT !.pc = pc]
          /\ UNCHANGED store
    /\ UNCHANGED <<flag, timer, callback, made, driver, server, history>>

EventFree ==
    /\ event.pc = "free"
    /\ StoreIs(Free(Store, event.data))
    /\ event' = [Idle EXCEPT !.pc = "store"]
    /\ UNCHANGED <<flag, timer, callback, made, driver, server, history>>

EventStore ==
    /\ event.pc = "store"
    /\ flag' = 0
    /\ event' = [Idle EXCEPT !.pc = "stop"]
    /\ UNCHANGED <<timer, callback, store, made, driver, server, history>>

\* xTimerStop, not waiting for a place in the queue: it stops no callback that
\* has begun, but the timer of a scan that has begun since the flag was cleared.
EventStop ==
    /\ event.pc = "stop"
    /\ \/ /\ timer' = 0
          /\ untimed' = IF flag = 1 THEN 1 ELSE untimed
       \/ Failures = 1 /\ UNCHANGED <<timer, untimed>>
    /\ event' = Idle
    /\ UNCHANGED <<flag, callback, store, made, driver, server, newest, caught>>

EventStep ==
    \/ Unsolicited \/ NoResults \/ Fetch \/ Publish \/ EventPut \/ EventFree
    \/ EventStore \/ EventStop

-----------------------------------------------------------------------------
(* The timer task: handle_scan_timer, after SCAN_TIMEOUT.                  *)

Expire ==
    /\ timer = 1 /\ callback = "none"
    /\ timer' = 0
    /\ callback' = IF flag = 1 THEN "stop" ELSE "none"
    /\ UNCHANGED <<flag, store, made, driver, server, event, history>>

\* esp_wifi_scan_stop ends a running scan, with or without an event.
TimerStop ==
    /\ callback = "stop"
    /\ callback' = "store"
    /\ \/ driver' = [driver EXCEPT !.scan = "idle"]
       \/ /\ driver = [scan |-> "running", posted |-> "none"]
          /\ driver' = [scan |-> "idle", posted |-> "failed"]
    /\ UNCHANGED <<flag, timer, store, made, server, event, history>>

\* The flag is cleared, even if another scan has begun meanwhile.
TimerStore ==
    /\ callback = "store"
    /\ callback' = "none"
    /\ flag' = 0
    /\ UNCHANGED <<timer, store, made, driver, server, event, history>>

TimerStep == TimerStop \/ TimerStore

-----------------------------------------------------------------------------
(* The httpd task: cgiWiFiScan.                                            *)

Goto(pc) == server' = [server EXCEPT !.pc = pc, !.data = None]
Done == server' = [pc |-> "idle", start |-> 0, data |-> None]
AfterClear(start) == IF start = 1 THEN "start" ELSE "get"

Request ==
    /\ server.pc = "idle"
    /\ \E clear \in 0 .. 1, start \in 0 .. 1 :
         server' = [pc |-> IF clear = 1 THEN "clear" ELSE AfterClear(start),
                    start |-> start, data |-> None]
    /\ UNCHANGED <<flag, timer, callback, store, made, driver, event, history>>

\* clear_global_scan_data.  A set that the event task has not put yet stays in
\* last_scan, which then holds no reference to it.
Clear ==
    /\ server.pc = "clear"
    /\ \/ /\ last # None /\ ref[last] > 0
          /\ StoreIs(Put(Store, last))
          /\ caught' = IF last' = last THEN caught \cup {last} ELSE caught
          /\ newest' = None
          /\ Goto(AfterClear(server.start))
       \/ /\ last # None /\ ref[last] = 0
          /\ Goto("panic")
          /\ UNCHANGED <<store, newest, caught>>
       \/ /\ last = None \/ Failures = 1
          /\ newest' = IF last = None THEN None ELSE newest
          /\ Goto(AfterClear(server.start))
          /\ UNCHANGED <<store, caught>>
    /\ UNCHANGED <<flag, timer, callback, made, driver, event, untimed>>

\* wifi_start_scan: refused while the configuration changes or the mode has no
\* station, nothing to do while a scan is under way.
Start ==
    /\ server.pc = "start"
    /\ \/ Done /\ UNCHANGED <<flag, untimed>>
       \/ /\ flag' = 1
          /\ untimed' = IF flag = 0 THEN 0 ELSE untimed
          /\ Goto(IF flag = 0 THEN "scan" ELSE "get")
    /\ UNCHANGED <<timer, callback, store, made, driver, event, newest, caught>>

\* The timer is reset once the driver has begun the scan, unless its queue is
\* full: nobody looks at what xTimerReset returns.
ScanStartNoTimer ==                                     \* mutant
    /\ server.pc = "scan"
    /\ \/ driver' = [driver EXCEPT !.scan = "running"] /\ Goto("get") /\ UNCHANGED flag
       \/ flag' = 0 /\ Done /\ UNCHANGED driver
    /\ UNCHANGED <<timer, callback, store, made, event, history>>
ScanStart ==
    /\ server.pc = "scan"
    /\ \/ /\ driver' = [driver EXCEPT !.scan = "running"]
          /\ \/ timer' = 1 /\ untimed' = 0
             \/ Failures = 1 /\ untimed' = 1 /\ UNCHANGED timer
          /\ Goto("get")
          /\ UNCHANGED flag
       \/ /\ flag' = 0
          /\ Done
          /\ UNCHANGED <<driver, timer, untimed>>
    /\ UNCHANGED <<callback, store, made, event, newest, caught>>

\* get_scan_data
Get ==
    /\ server.pc = "get"
    /\ \/ /\ last # None /\ ref[last] > 0
          /\ ref' = [ref EXCEPT ![last] = @ + 1]
          /\ server' = [server EXCEPT !.pc = "read", !.data = last]
       \/ /\ last # None /\ ref[last] = 0
          /\ Goto("panic")
          /\ UNCHANGED ref
       \/ /\ last = None \/ Failures = 1
          /\ Done
          /\ UNCHANGED ref
    /\ UNCHANGED <<flag, timer, callback, last, alive, made, driver, event, history>>

\* The records are copied to the answer and the reference put, without the lock.
ReadAndPut ==
    /\ server.pc = "read"
    /\ StoreIs(Dec(Store, server.data))
    /\ IF ref'[server.data] = 0 THEN server' = [server EXCEPT !.pc = "free"] ELSE Done
    /\ UNCHANGED <<flag, timer, callback, made, driver, event, history>>

ServerFree ==
    /\ server.pc = "free"
    /\ StoreIs(Free(Store, server.data))
    /\ Done
    /\ UNCHANGED <<flag, timer, callback, made, driver, event, history>>

ServerStep == Clear \/ Start \/ ScanStart \/ Get \/ ReadAndPut \/ ServerFree

-----------------------------------------------------------------------------
Next ==
    \/ DriverDone
    \/ EventStep
    \/ Expire
    \/ TimerStep
    \/ Request
    \/ ServerStep
    \/ Restart

\* Time passes and the tasks are scheduled; the driver may hang.
Fairness ==
    /\ WF_vars(EventStep)
    /\ WF_vars(Expire)
    /\ WF_vars(TimerStep)
    /\ WF_vars(ServerStep)
    /\ WF_vars(Restart)

Spec == Init /\ [][Next]_vars
LiveSpec == Spec /\ Fairness

-----------------------------------------------------------------------------
(* Properties.                                                             *)

Holders(d) ==
    (IF last = d THEN 1 ELSE 0)
  + (IF server.pc = "read" /\ server.data = d THEN 1 ELSE 0)
  + (IF event.pc \in {"publish", "put"} /\ event.data = d THEN 1 ELSE 0)

\* Whoever holds a data set holds it for good: it is allocated and counts every
\* one of its holders, so nobody reads or puts a set that another task freed; and
\* no assertion of kref.h fails.  Only a clear that meets a set between its
\* publication and the event task's put upsets this, and only for that set: its
\* last_scan then points to it without a reference.
Counted ==
    /\ \A d \in Data \ caught : Holders(d) > 0 => d \in alive /\ ref[d] >= Holders(d)
    /\ Panics => caught # {}

\* A scan ends, even if the driver hangs ("Timer function to stop a hanging AP
\* scan"), so a client that polls `working` gets its answer; unless its timer was
\* refused by a full queue or stopped on behalf of the scan before.  Then the
\* driver's report still ends it.
ScanEnds ==
    /\ flag = 1 ~> (flag = 0 \/ untimed = 1)
    /\ driver.posted # "none" ~> flag = 0

\* "Make new scan data available": what was published last can be fetched until
\* a client clears it.
ResultsAvailable ==
    server.pc = "idle" /\ event.pc = "idle" /\ newest # None => last = newest
=============================================================================
