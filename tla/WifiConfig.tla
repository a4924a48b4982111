------------------------------ MODULE WifiConfig ------------------------------
(***************************************************************************)
(* The WiFi configuration state machine of util/esp32_wifi.c.              *)
(*                                                                         *)
(* Three actors share cfg_state: the httpd task, whose handlers ask for a  *)
(* change (update_wifi, cgiWiFiStartWps), the FreeRTOS timer task, which   *)
(* carries it out in handle_config_timer, and the event task, whose        *)
(* cgiwifi_event_handler keeps the bits of wifi_events.  The WiFi driver   *)
(* is external: only what the calls of this file do to it is modelled.     *)
(*                                                                         *)
(* A station configuration is "home" (it can join), "wrong" (it cannot) or *)
(* "zero" (memset); an access-point configuration is a number, 0 being     *)
(* memset.  A driver event and its handler are one step: on ESP-IDF the    *)
(* event task (priority 20) preempts both other tasks.                     *)
(***************************************************************************)
EXTENDS Naturals, FiniteSets

CONSTANTS
    MaxRequests,  \* bound: requests that ask for a change
    ApConfigs,    \* access-point configurations a client may ask for
    QueueFull,    \* 1 iff the timer command queue may be full
    Forces,       \* values of the argument `force` clients give
    WpsTimeouts   \* 1 iff the lock may be unavailable to a WPS request for CFG_DELAY

ASSUME BoundsAssumption ==
    /\ MaxRequests \in Nat
    /\ ApConfigs \subseteq Nat \ {0}
    /\ QueueFull \in {0, 1}
    /\ Forces \subseteq {0, 1}
    /\ WpsTimeouts \in {0, 1}

VARIABLES
    state,     \* cfg_state.state
    saved,     \* cfg_state.saved
    new,       \* cfg_state.new
    expired,   \* 1 iff time_after(now, cfg_state.timestamp + the state's timeout)
    lock,      \* cfg_state.lock: "free", "timer" or "server"
    timer,     \* config_timer: "off", "armed", or "lost" when the callback
               \* could neither run nor be rescheduled
    callback,  \* handle_config_timer: "idle", or "running" once it has the lock
    seen,      \* the callback's `connected` and `events`
    bits,      \* wifi_events
    driver,    \* the driver: configuration, link and WPS
    server,    \* the httpd task: pc, the request and its local `cfg`
    requests,  \* requests so far
    before,    \* history: what the driver held when the last change was accepted
    stray,     \* history: 1 iff a WPS request gave the lock that the callback
               \* held, and either of the two sides has been entered ever since
    overlap    \* history: 1 iff both sides were entered at once since the
               \* change under way was accepted

history == <<before, stray, overlap>>
vars == <<state, saved, new, expired, lock, timer, callback, seen, bits, driver,
          server, requests, history>>

Stable == {"failed", "connected", "idle"}
Transitional == {"update", "wps_start", "wps_active", "connecting", "fallback"}

Modes == {"NULL", "STA", "AP", "APSTA"}
StaModes == {"STA", "APSTA"}
ApModes == {"AP", "APSTA"}
Stations == {"zero", "home", "wrong"}
Bits == {"CONNECTED", "WPS_SUCCESS", "WPS_FAILED"}

Cfg == [connect : 0 .. 1, mode : Modes, sta : Stations, ap : ApConfigs \cup {0}]
NoCfg == [connect |-> 0, mode |-> "NULL", sta |-> "zero", ap |-> 0]

Driver == [mode : Modes, sta : Stations, ap : ApConfigs \cup {0},
           link : {"down", "joining", "up"}, wps : 0 .. 1]

Connects == [kind : {"connect"}, sta : {"home", "wrong"}]
ModeChanges == [kind : {"mode"}, mode : Modes, force : Forces]
ApChanges == [kind : {"ap"}, ap : ApConfigs]
Boot == [kind |-> "boot"]
Wps == [kind |-> "wps"]
Requests == Connects \cup ModeChanges \cup ApChanges \cup {Boot, Wps}

NoServer == [pc |-> "idle", req |-> Boot, cfg |-> NoCfg]

TypeOK ==
    /\ state \in Stable \cup Transitional
    /\ saved \in Cfg /\ new \in Cfg
    /\ expired \in 0 .. 1
    /\ lock \in {"free", "timer", "server"}
    /\ timer \in {"off", "armed", "lost"}
    /\ callback \in {"idle", "running"}
    /\ seen \subseteq Bits /\ bits \subseteq Bits
    /\ driver \in Driver
    /\ server \in [pc : {"idle", "asking", "compare"}, req : Requests, cfg : Cfg]
    /\ requests \in 0 .. MaxRequests
    /\ before \in Cfg
    /\ stray \in 0 .. 1 /\ overlap \in 0 .. 1

Init ==
    /\ state = "idle"
    /\ saved = NoCfg /\ new = NoCfg /\ before = NoCfg
    /\ expired = 0
    /\ lock = "free"
    /\ timer = "off" /\ callback = "idle"
    /\ stray = 0 /\ overlap = 0
    /\ seen = {}
    /\ \E mode \in Modes, sta \in Stations, ap \in ApConfigs :
         driver = [mode |-> mode, sta |-> sta, ap |-> ap, link |-> "down", wps |-> 0]
    /\ bits = {}
    /\ server = NoServer
    /\ requests = 0

-----------------------------------------------------------------------------
(* The driver's calls, and the two helpers of the file that use them.      *)

\* sta_connected()
FlagCountsBits(set) == Cardinality(set)  \* mutant: no mask
Flag(set) == IF "CONNECTED" \in set THEN 1 ELSE 0

\* get_wifi_cfg()
CurrentCfg ==
    [connect |-> Flag(bits), mode |-> driver.mode, sta |-> driver.sta,
     ap |-> driver.ap]

\* esp_wifi_disconnect(), and WIFI_EVENT_STA_DISCONNECTED
Disconnected(d) == [d EXCEPT !.link = "down"]

\* "System should now connect to the AP"
WantsLink(cfg) == cfg.mode \in StaModes /\ cfg.connect = 1

\* Mutants: the station is configured in one of its modes only; the early
\* return comes before esp_wifi_set_mode.
SetCfgForgetsSta(d, cfg) ==
    [d EXCEPT
       !.mode = cfg.mode,
       !.ap   = IF cfg.mode \in ApModes THEN cfg.ap ELSE @,
       !.sta  = IF cfg.mode = "STA" THEN cfg.sta ELSE @,
       !.link = IF WantsLink(cfg) THEN "joining" ELSE "down"]
SetCfgReturnsEarly(d, cfg) ==
    IF cfg.mode = "NULL" THEN d
    ELSE [d EXCEPT
       !.mode = cfg.mode,
       !.ap   = IF cfg.mode \in ApModes THEN cfg.ap ELSE @,
       !.sta  = IF cfg.mode \in StaModes THEN cfg.sta ELSE @,
       !.link = IF WantsLink(cfg) THEN "joining" ELSE "down"]

\* set_wifi_cfg(): the interfaces the mode has, then connect if asked to
SetCfg(d, cfg) ==
    [d EXCEPT
       !.mode = cfg.mode,
       !.ap   = IF cfg.mode \in ApModes THEN cfg.ap ELSE @,
       !.sta  = IF cfg.mode \in StaModes THEN cfg.sta ELSE @,
       !.link = CASE cfg.mode \notin StaModes -> "down"
                  [] WantsLink(cfg) /\ @ = "down" -> "joining"
                  [] OTHER -> @]

\* The handler clears BIT_CONNECTED once the link is no longer up.
Linked(d, set) == IF d.link = "up" THEN set ELSE set \ {"CONNECTED"}

\* driver' = d, and what the event task makes of it
Drive(d) ==
    /\ driver' = d
    /\ bits' = Linked(d, bits)

-----------------------------------------------------------------------------
(* The event task: driver events and cgiwifi_event_handler.                *)

Joined ==
    /\ driver.link = "joining"
    /\ driver.mode \in StaModes
    /\ driver.sta = "home"
    /\ driver' = [driver EXCEPT !.link = "up"]
    /\ bits' = bits \cup {"CONNECTED"}
    /\ UNCHANGED <<state, saved, new, expired, lock, timer, callback, seen, server,
                   requests, history>>

\* The access point goes away, or never answers.
LinkLost ==
    /\ driver.link # "down"
    /\ Drive(Disconnected(driver))
    /\ UNCHANGED <<state, saved, new, expired, lock, timer, callback, seen, server,
                   requests, history>>

WpsSucceeds ==
    /\ driver.wps = 1
    /\ driver' = [driver EXCEPT !.sta = "home"]
    /\ bits' = bits \cup {"WPS_SUCCESS"}
    /\ UNCHANGED <<state, saved, new, expired, lock, timer, callback, seen, server,
                   requests, history>>

WpsFails ==
    /\ driver.wps = 1
    /\ bits' = bits \cup {"WPS_FAILED"}
    /\ UNCHANGED <<state, saved, new, expired, lock, timer, callback, seen, driver,
                   server, requests, history>>

\* Time passes: WPS_TIMEOUT or CONNECT_TIMEOUT since cfg_state.timestamp.
Expire ==
    /\ state \in {"wps_active", "connecting"}
    /\ expired = 0
    /\ expired' = 1
    /\ UNCHANGED <<state, saved, new, lock, timer, callback, seen, bits, driver,
                   server, requests, history>>

-----------------------------------------------------------------------------
(* The timer task: handle_config_timer.                                    *)

\* The callback is entered: is a handler in its own update?
Entered ==
    /\ timer' = "off"
    /\ callback' = "running"
    /\ lock' = "timer"
    /\ seen' = bits
    /\ overlap' = IF server.pc = "compare" THEN 1 ELSE overlap
    /\ UNCHANGED <<state, saved, new, expired, bits, driver, server, requests,
                   before, stray>>

TimerCallNoLock ==          \* mutant: whoever holds the lock
    /\ timer = "armed" /\ callback = "idle"
    /\ Entered

\* It takes the lock and gathers what it knows of the system.
TimerCall ==
    /\ timer = "armed" /\ callback = "idle"
    /\ lock = "free"
    /\ Entered

\* It can get neither the lock nor a place in the timer queue.  (With a place
\* in the queue it is armed again, which changes nothing.)
TimerLost ==
    /\ timer = "armed" /\ callback = "idle"
    /\ lock # "free"
    /\ QueueFull = 1
    /\ timer' = "lost"
    /\ UNCHANGED <<state, saved, new, expired, lock, callback, seen, bits, driver,
                   server, requests, history>>

\* The callback returns, giving the lock, whoever holds it by now.
Returned ==
    /\ callback' = "idle"
    /\ lock' = "free"
    /\ seen' = {}
    /\ stray' = IF server.pc = "compare" THEN stray ELSE 0
    /\ UNCHANGED <<saved, server, requests, before, overlap>>

LeaveOnce(s) ==             \* mutant: the timer is not armed again
    /\ UNCHANGED timer /\ state' = s
    /\ Returned

\* err_out: the timer is armed again, if the queue has a place for it.
Leave(s) ==
    /\ \/ timer' = "armed" /\ state' = s
       \/ QueueFull = 1 /\ state' = "failed" /\ UNCHANGED timer
    /\ Returned

\* No connection is torn down, whatever the comment says: connect is only cleared.
WpsStart ==
    /\ callback = "running" /\ state = "wps_start"
    /\ new' = [CurrentCfg EXCEPT !.sta = "zero", !.mode = "APSTA", !.connect = 0]
    /\ driver' \in {[SetCfg(driver, new') EXCEPT !.wps = w] : w \in {driver.wps, 1}}
    /\ bits' = Linked(driver', bits) \ {"WPS_SUCCESS", "WPS_FAILED"}
    /\ expired' = 0
    /\ Leave("wps_active")

WpsSucceeded ==
    /\ callback = "running" /\ state = "wps_active"
    /\ "WPS_SUCCESS" \in seen
    /\ driver' = [driver EXCEPT !.wps = 0]
    /\ new' = [CurrentCfg EXCEPT !.mode = "APSTA", !.connect = 1]
    /\ UNCHANGED <<expired, bits>>
    /\ Leave("update")

WpsGivesUp ==
    /\ callback = "running" /\ state = "wps_active"
    /\ "WPS_SUCCESS" \notin seen
    /\ expired = 1 \/ "WPS_FAILED" \in seen
    /\ driver' = [driver EXCEPT !.wps = 0]
    /\ UNCHANGED <<new, expired, bits>>
    /\ Leave("fallback")

Update ==
    /\ callback = "running" /\ state = "update"
    /\ Drive(SetCfg(Disconnected(driver), new))
    /\ expired' = IF WantsLink(new) THEN 0 ELSE expired
    /\ UNCHANGED new
    /\ Leave(IF WantsLink(new) THEN "connecting" ELSE "idle")

ConnectDone ==
    /\ callback = "running" /\ state = "connecting"
    /\ "CONNECTED" \in seen
    /\ UNCHANGED <<new, expired, bits, driver>>
    /\ Leave("connected")

ConnectGivesUp ==
    /\ callback = "running" /\ state = "connecting"
    /\ "CONNECTED" \notin seen
    /\ expired = 1
    /\ UNCHANGED <<new, expired, bits, driver>>
    /\ Leave("fallback")

\* Nothing happened yet: keep waiting.
KeepWaiting ==
    /\ callback = "running"
    /\ \/ state = "connecting" /\ "CONNECTED" \notin seen
       \/ state = "wps_active" /\ "WPS_SUCCESS" \notin seen /\ "WPS_FAILED" \notin seen
    /\ expired = 0
    /\ UNCHANGED <<new, expired, bits, driver>>
    /\ Leave(state)

FallBack ==
    /\ callback = "running" /\ state = "fallback"
    /\ new' = saved
    /\ Drive(SetCfg(Disconnected(driver), saved))
    /\ UNCHANGED expired
    /\ Leave("failed")

\* Other code may manage the WiFi too: follow it.
Sync ==
    /\ callback = "running" /\ state = "connected"
    /\ new' = [CurrentCfg EXCEPT !.connect = 1]
    /\ UNCHANGED <<expired, bits, driver>>
    /\ Leave("connected")

\* sta_connected() is read again here.
Watchdog ==
    /\ callback = "running" /\ state \in {"idle", "failed"}
    /\ IF WantsLink(new) /\ "CONNECTED" \notin bits
       THEN Drive(SetCfg(Disconnected(driver), new))
       ELSE UNCHANGED <<bits, driver>>
    /\ UNCHANGED <<new, expired>>
    /\ Leave(state)

TimerRun ==
    \/ WpsStart \/ WpsSucceeded \/ WpsGivesUp
    \/ Update \/ ConnectDone \/ ConnectGivesUp \/ KeepWaiting
    \/ FallBack \/ Sync \/ Watchdog

-----------------------------------------------------------------------------
(* The httpd task: the CGI functions and update_wifi.                      *)

\* The new configuration a request asks for, from the one it has just read.
Asked(req, cfg) ==
    CASE req.kind = "connect" -> [cfg EXCEPT !.sta = req.sta, !.connect = 1]
      [] req.kind = "mode"    -> [cfg EXCEPT !.mode = req.mode]
      [] req.kind = "ap"      -> [cfg EXCEPT !.ap = req.ap]
      [] req.kind = "boot"    -> [cfg EXCEPT !.connect = 1]
      [] OTHER                -> NoCfg  \* WPS reads it later

\* cgiWiFiSetMode: "No connection to AP, not switching to client-only mode."
\* startCgiWifi: only in a station mode, and called once, before any request.
Refused(req) ==
    \/ req.kind = "mode" /\ req.mode = "STA" /\ req.force = 0
       /\ driver.mode = "APSTA" /\ "CONNECTED" \notin bits
    \/ req.kind = "boot" /\ (driver.mode \notin StaModes \/ requests > 0 \/ saved # NoCfg)

\* A CGI function is called and reads the configuration, without the lock.
Arrive(req) ==
    /\ server.pc = "idle"
    /\ requests < MaxRequests
    /\ ~Refused(req)
    /\ server' = [pc |-> "asking", req |-> req, cfg |-> Asked(req, CurrentCfg)]
    /\ requests' = IF req = Boot THEN requests ELSE requests + 1
    /\ UNCHANGED <<state, saved, new, expired, lock, timer, callback, seen, bits,
                   driver, history>>

\* Mutant: the enumerators in the wrong order.
BusyUnlessConnecting == state \in Transitional \ {"connecting"}
Busy == state \in Transitional

\* update_wifi: not while another change is under way, unless it switches off.
Reject ==
    /\ server.pc = "asking" /\ lock = "free"
    /\ Busy
    /\ server.req = Wps \/ server.cfg.mode # "NULL"
    /\ server' = NoServer
    /\ UNCHANGED <<state, saved, new, expired, lock, timer, callback, seen, bits,
                   driver, requests, history>>

\* A change is accepted: with the callback running beside it, or afresh if none
\* was under way.
Accepted ==
    overlap' = CASE callback = "running"            -> 1
                 [] callback # "running" /\ Busy    -> overlap
                 [] callback # "running" /\ ~Busy   -> 0

\* update_wifi up to get_wifi_cfg(&cfg->saved).
Accept ==
    /\ server.pc = "asking" /\ lock = "free"
    /\ server.req # Wps
    /\ Busy => server.cfg.mode = "NULL"
    /\ lock' = "server"
    /\ new' = server.cfg
    /\ saved' = IF server.req = Boot THEN server.cfg ELSE CurrentCfg
    /\ server' = [server EXCEPT !.pc = "compare"]
    /\ Accepted
    /\ UNCHANGED <<state, expired, timer, callback, seen, bits, driver, requests,
                   before, stray>>

\* xTimerChangePeriod(config_timer, CFG_DELAY, CFG_DELAY), and its failure.
StartChange(s) ==
    \/ timer' = "armed" /\ state' = s
    \/ QueueFull = 1 /\ state' = "failed" /\ UNCHANGED timer

\* An update is due: the naive comparison of the two configurations.
Differs(a, b) ==
    \/ a.mode # b.mode
    \/ a.mode \in ApModes /\ a.ap # b.ap
    \/ a.mode \in StaModes /\ a.sta # b.sta

\* The rest of update_wifi: what is saved, whether there is a change at all.
Compare ==
    /\ server.pc = "compare"
    /\ saved' = IF server.req = Boot \/ "CONNECTED" \in bits THEN saved
                ELSE [saved EXCEPT !.sta = "zero"]
    /\ IF server.req = Boot \/ Differs(new, saved')
       THEN /\ StartChange("update")
            /\ before' = IF state \in Transitional THEN before ELSE saved'
       ELSE /\ state' = IF "CONNECTED" \in bits THEN "connected" ELSE state
            /\ UNCHANGED <<timer, before>>
    /\ lock' = "free"
    /\ stray' = IF callback = "running" THEN stray ELSE 0
    /\ server' = NoServer
    /\ UNCHANGED <<new, expired, callback, seen, bits, driver, requests, overlap>>

\* cgiWiFiStartWps, under the lock.
StartWps ==
    /\ server.pc = "asking" /\ lock = "free"
    /\ server.req = Wps
    /\ ~Busy
    /\ saved' = CurrentCfg
    /\ before' = CurrentCfg
    /\ StartChange("wps_start")
    /\ Accepted
    /\ server' = NoServer
    /\ UNCHANGED <<new, expired, lock, callback, seen, bits, driver, requests, stray>>

\* The lock cannot be taken within CFG_DELAY.  update_wifi returns;
\* cgiWiFiStartWps gives the lock all the same (err_out), from under the
\* callback that holds it (in a build whose FreeRTOS does not assert the holder).
TakeTimesOut ==
    /\ server.pc = "asking" /\ lock = "timer"
    /\ server.req = Wps => WpsTimeouts = 1
    /\ IF server.req = Wps THEN lock' = "free" /\ stray' = 1
                           ELSE UNCHANGED <<lock, stray>>
    /\ server' = NoServer
    /\ UNCHANGED <<state, saved, new, expired, timer, callback, seen, bits, driver,
                   requests, before, overlap>>

ServerStep ==
    \/ Reject \/ Accept \/ Compare \/ StartWps \/ TakeTimesOut

-----------------------------------------------------------------------------
EventStep == Joined \/ LinkLost \/ WpsSucceeds \/ WpsFails
TimerStep == TimerCall \/ TimerLost \/ TimerRun

Next ==
    \/ EventStep
    \/ Expire
    \/ TimerStep
    \/ \E req \in Requests : Arrive(req)
    \/ ServerStep

\* Time passes, and both tasks are scheduled.
Fairness ==
    /\ WF_vars(Expire)
    /\ WF_vars(TimerCall)
    /\ WF_vars(TimerRun)
    /\ WF_vars(ServerStep)

Spec == Init /\ [][Next]_vars
LiveSpec == Spec /\ Fairness

-----------------------------------------------------------------------------
(* Properties.                                                             *)

\* While the timer waits for a connection, the driver works on exactly the
\* configuration that was asked for: no handler has touched .new since
\* cfg_state_update applied it.  (Unless WPS was left enabled by a change that
\* ended wps_active without disabling it, which then rewrites the station, or
\* callback and handler overlapped during this change.)
ConnectsAsAsked ==
    state = "connecting" /\ lock # "server" /\ driver.wps = 0 /\ overlap = 0 =>
        /\ WantsLink(new)
        /\ driver.mode = new.mode
        /\ driver.sta = new.sta
        /\ driver.mode \in ApModes => driver.ap = new.ap

\* A fall-back puts the device back where it was when the change was accepted:
\* its mode, the access point it ran and, if it was connected, its station
\* configuration (handle_config_timer, case cfg_state_fallback); unless callback
\* and handler overlapped during this change.
FallbackRestores ==
    [][ state = "fallback" /\ callback = "running" /\ state' = "failed"
          /\ overlap = 0 /\ overlap' = 0 =>
          /\ driver'.mode = before.mode
          /\ before.mode \in ApModes => driver'.ap = before.ap
          /\ before.sta # "zero" /\ before.mode \in StaModes
               => driver'.sta = before.sta ]_vars

\* What is left of the exclusion the lock is for, when a WPS request that timed
\* out on it gives it all the same.  Callback and handler each hold the lock
\* they took, and so exclude each other, until such a request gives it from
\* under the callback; from then on each may give the other's, but once both
\* have left, the lock is free and the exclusion is whole again.
LockProtects ==
    /\ stray = 0 => /\ callback = "running" => lock = "timer"
                    /\ server.pc = "compare" => lock = "server"
    /\ callback = "idle" /\ server.pc # "compare" => stray = 0 /\ lock = "free"

\* "This function will keep triggering itself until it reaches a stable state",
\* unless it lost its timer.
Settles == (state \in Transitional) ~> (state \in Stable \/ timer = "lost")

\* Switching the WiFi off is accepted at any time and takes effect even if
\* another change is under way, or is reported as failed.  Off, the radio comes
\* on again only through a WPS request that was waiting to begin: an off request
\* accepted then, with the radio still off, is "no change" to update_wifi and
\* does not stop it.  (Callback and handler overlapping, all is open.)
OffIsApplied ==
    /\ (server.pc = "compare" /\ new.mode = "NULL")
         ~> (driver.mode = "NULL" \/ state = "failed" \/ timer = "lost" \/ overlap = 1)
    /\ [][ new.mode = "NULL" /\ driver.mode = "NULL" /\ driver'.mode # "NULL"
             => state = "wps_start" \/ overlap = 1 ]_vars

\* "Watchdog to make sure the STA stays connected": a station that is to be
\* connected and is not tries again.
WatchdogReconnects ==
    (state \in Stable /\ WantsLink(new) /\ driver.link = "down")
        ~> (driver.link # "down" \/ ~WantsLink(new) \/ state \in Transitional)

\* "Do not switch to STA mode without being connected to an AP. (Unless &force=1)":
\* a change to client-only mode that no client forced leaves a station that is
\* at least trying to connect, not a device nobody can reach.
NotStranded ==
    state = "idle" /\ lock = "free" /\ before.mode = "AP" /\ driver.mode = "STA"
        => new.connect = 1
=============================================================================
