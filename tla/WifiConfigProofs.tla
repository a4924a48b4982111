--------------------------- MODULE WifiConfigProofs ---------------------------
(***************************************************************************)
(* What holds of WifiConfig for every number of requests and every set of  *)
(* access-point configurations: its types, the exclusion that              *)
(* cfg_state.lock provides and, resting on that, that a fall-back puts     *)
(* back what was there when the change was accepted.                       *)
(*                                                                         *)
(* A cgiWiFiStartWps that does not get the lock in time gives it all the   *)
(* same, so callback and handler may overlap.  The invariant says of the   *)
(* lock what survives that (LockInv), and of the change under way what     *)
(* holds while they have not overlapped during it (FallbackInv); the next  *)
(* change accepted afresh starts with the whole invariant again.           *)
(***************************************************************************)
EXTENDS WifiConfig, TLAPS

-----------------------------------------------------------------------------
(* Type correctness.                                                       *)

LEMMA CurrentCfgType ==
    ASSUME TypeOK PROVE CurrentCfg \in Cfg
BY SMT DEF TypeOK, CurrentCfg, Cfg, Driver, Flag

\* A record stays of its type when one field is given a value of its own.
LEMMA CfgUpdate ==
    ASSUME NEW c \in Cfg
    PROVE  /\ \A k \in 0 .. 1 : [c EXCEPT !.connect = k] \in Cfg
           /\ \A m \in Modes : [c EXCEPT !.mode = m] \in Cfg
           /\ \A t \in Stations : [c EXCEPT !.sta = t] \in Cfg
BY SMT DEF Cfg

LEMMA DriverUpdate ==
    ASSUME NEW d \in Driver
    PROVE  /\ \A m \in Modes : [d EXCEPT !.mode = m] \in Driver
           /\ \A t \in Stations : [d EXCEPT !.sta = t] \in Driver
           /\ \A a \in ApConfigs \cup {0} : [d EXCEPT !.ap = a] \in Driver
           /\ \A k \in {"down", "joining", "up"} : [d EXCEPT !.link = k] \in Driver
BY SMT DEF Driver

LEMMA SetCfgType ==
    ASSUME NEW d \in Driver, NEW cfg \in Cfg
    PROVE  SetCfg(d, cfg) \in Driver
<1> DEFINE ap   == IF cfg.mode \in ApModes THEN cfg.ap ELSE d.ap
           sta  == IF cfg.mode \in StaModes THEN cfg.sta ELSE d.sta
           link == CASE cfg.mode \notin StaModes -> "down"
                     [] WantsLink(cfg) /\ d.link = "down" -> "joining"
                     [] OTHER -> d.link
           d1 == [d EXCEPT !.mode = cfg.mode]
           d2 == [d1 EXCEPT !.ap = ap]
           d3 == [d2 EXCEPT !.sta = sta]
<1>1. cfg.mode \in Modes /\ ap \in ApConfigs \cup {0} /\ sta \in Stations
  BY SMT DEF Driver, Cfg
<1>2. link \in {"down", "joining", "up"}
  BY SMT DEF Driver
<1>3. SetCfg(d, cfg) = [d3 EXCEPT !.link = link]
  BY DEF SetCfg
<1> HIDE DEF ap, sta, link
<1>4. d1 \in Driver
  BY <1>1, DriverUpdate
<1> HIDE DEF d1
<1>5. d2 \in Driver
  BY <1>1, <1>4, DriverUpdate
<1> HIDE DEF d2
<1>6. d3 \in Driver
  BY <1>1, <1>5, DriverUpdate
<1> HIDE DEF d3
<1> QED BY <1>2, <1>3, <1>6, DriverUpdate

\* The configurations that WPS and a connect request ask for.
LEMMA CfgUpdates ==
    ASSUME NEW c \in Cfg, NEW t \in Stations, NEW m \in Modes, NEW k \in 0 .. 1
    PROVE  /\ [c EXCEPT !.sta = t, !.connect = k] \in Cfg
           /\ [c EXCEPT !.mode = m, !.connect = k] \in Cfg
           /\ [c EXCEPT !.sta = t, !.mode = m, !.connect = k] \in Cfg
<1> DEFINE ct == [c EXCEPT !.sta = t]
           cm == [c EXCEPT !.mode = m]
           ctm == [ct EXCEPT !.mode = m]
<1>1. /\ [c EXCEPT !.sta = t, !.connect = k] = [ct EXCEPT !.connect = k]
      /\ [c EXCEPT !.mode = m, !.connect = k] = [cm EXCEPT !.connect = k]
      /\ [c EXCEPT !.sta = t, !.mode = m, !.connect = k] = [ctm EXCEPT !.connect = k]
  OBVIOUS
<1>2. ct \in Cfg /\ cm \in Cfg
  BY CfgUpdate
<1> HIDE DEF ct, cm
<1>3. ctm \in Cfg
  BY <1>2, CfgUpdate
<1> HIDE DEF ctm
<1> QED BY <1>1, <1>2, <1>3, CfgUpdate

\* The values the callback writes into one.
LEMMA CfgValues ==
    /\ "zero" \in Stations /\ "APSTA" \in Modes
    /\ 0 \in 0 .. 1 /\ 1 \in 0 .. 1
BY SMT DEF Stations, Modes

LEMMA DisconnectedType ==
    ASSUME NEW d \in Driver PROVE Disconnected(d) \in Driver
BY SMT DEF Disconnected, Driver

LEMMA LinkedType ==
    ASSUME NEW d, NEW set \in SUBSET Bits PROVE Linked(d, set) \in SUBSET Bits
BY SMT DEF Linked

LEMMA AskedType ==
    ASSUME NEW req \in Requests, NEW cfg \in Cfg
    PROVE  Asked(req, cfg) \in Cfg
<1>1. CASE req \in Connects
  <2>1. Asked(req, cfg) = [cfg EXCEPT !.sta = req.sta, !.connect = 1]
    BY <1>1, SMT DEF Connects, Asked
  <2>2. req.sta \in Stations
    BY <1>1, SMT DEF Connects, Stations
  <2>3. \A t \in Stations : [cfg EXCEPT !.sta = t, !.connect = 1] \in Cfg
    BY CfgUpdates, CfgValues
  <2> QED BY <2>1, <2>2, <2>3
<1>2. CASE req \in ModeChanges
  BY <1>2, SMT DEF ModeChanges, Asked, Cfg
<1>3. CASE req \in ApChanges
  BY <1>3, SMT DEF ApChanges, Asked, Cfg
<1>4. CASE req = Boot
  BY <1>4, SMT DEF Boot, Asked, Cfg
<1>5. CASE req = Wps
  BY <1>5, SMT DEF Wps, Asked, Cfg, NoCfg, Modes, Stations
<1> QED BY <1>1, <1>2, <1>3, <1>4, <1>5 DEF Requests

LEMMA NoServerType ==
    NoServer \in [pc : {"idle", "asking", "compare"}, req : Requests, cfg : Cfg]
BY SMT DEF NoServer, Requests, Boot, NoCfg, Cfg, Modes, Stations

LEMMA InitType == Init => TypeOK
BY NoServerType, BoundsAssumption, SMT
DEF Init, TypeOK, NoCfg, Cfg, Driver, Stable, Modes, Stations, Bits

\* The event task and the clock.
LEMMA EventStepType ==
    ASSUME TypeOK, EventStep \/ Expire PROVE TypeOK'
<1>1. CASE Joined
  BY <1>1, SMT DEF TypeOK, Joined, Driver, Bits, history
<1>2. CASE LinkLost
  <2>1. driver' \in Driver /\ bits' \in SUBSET Bits
    BY <1>2, DisconnectedType, LinkedType, SMT DEF LinkLost, Drive, TypeOK
  <2> QED BY <1>2, <2>1, SMT DEF TypeOK, LinkLost, history
<1>3. CASE WpsSucceeds
  BY <1>3, SMT DEF TypeOK, WpsSucceeds, Driver, Bits, Stations, history
<1>4. CASE WpsFails
  BY <1>4, SMT DEF TypeOK, WpsFails, Bits, history
<1>5. CASE Expire
  BY <1>5, SMT DEF TypeOK, Expire, history
<1> QED BY <1>1, <1>2, <1>3, <1>4, <1>5 DEF EventStep

LEMMA LeaveType ==
    ASSUME TypeOK, NEW s \in Stable \cup Transitional, Leave(s)
    PROVE  /\ state' \in Stable \cup Transitional
           /\ timer' \in {"off", "armed", "lost"}
           /\ callback' \in {"idle", "running"}
           /\ lock' \in {"free", "timer", "server"}
           /\ seen' \in SUBSET Bits
           /\ saved' \in Cfg
           /\ server' \in [pc : {"idle", "asking", "compare"}, req : Requests, cfg : Cfg]
           /\ requests' \in 0 .. MaxRequests
           /\ before' \in Cfg
           /\ stray' \in 0 .. 1 /\ overlap' \in 0 .. 1
BY SMT DEF Leave, Returned, TypeOK, Stable

\* Every branch of the callback keeps the types of what Leave does not set.
LEMMA TimerRunType ==
    ASSUME TypeOK, TimerRun PROVE TypeOK'
<1>1. \E s \in Stable \cup Transitional : Leave(s)
  BY SMT DEF TimerRun, WpsStart, WpsSucceeded, WpsGivesUp, Update, ConnectDone,
     ConnectGivesUp, KeepWaiting, FallBack, Sync, Watchdog, Stable, Transitional, TypeOK
<1>2. /\ new' \in Cfg
      /\ expired' \in 0 .. 1
      /\ bits' \in SUBSET Bits
      /\ driver' \in Driver
  <2>1. CASE WpsStart
    <3>1. new' \in Cfg
      BY <2>1, CurrentCfgType, CfgUpdates, CfgValues DEF WpsStart
    <3>2. SetCfg(driver, new') \in Driver
      BY <3>1, SetCfgType DEF TypeOK
    <3>3. driver' \in Driver
      BY <2>1, <3>2, SMT DEF WpsStart, Driver, TypeOK
    <3>4. bits' \in SUBSET Bits
      BY <2>1, LinkedType, SMT DEF WpsStart, TypeOK
    <3> QED BY <2>1, <3>1, <3>3, <3>4, SMT DEF WpsStart
  <2>2. CASE WpsSucceeded
    <3>1. new' \in Cfg
      BY <2>2, CurrentCfgType, CfgUpdates, CfgValues DEF WpsSucceeded
    <3> QED BY <2>2, <3>1, SMT DEF WpsSucceeded, TypeOK, Driver
  <2>3. CASE WpsGivesUp
    BY <2>3, SMT DEF WpsGivesUp, TypeOK, Driver
  <2>4. CASE Update
    <3>1. SetCfg(Disconnected(driver), new) \in Driver
      BY DisconnectedType, SetCfgType DEF TypeOK
    <3>2. driver' \in Driver /\ bits' \in SUBSET Bits
      BY <2>4, <3>1, LinkedType, SMT DEF Update, Drive, TypeOK
    <3> QED BY <2>4, <3>2, SMT DEF Update, TypeOK
  <2>5. CASE FallBack
    <3>1. SetCfg(Disconnected(driver), saved) \in Driver
      BY DisconnectedType, SetCfgType DEF TypeOK
    <3>2. driver' \in Driver /\ bits' \in SUBSET Bits
      BY <2>5, <3>1, LinkedType, SMT DEF FallBack, Drive, TypeOK
    <3> QED BY <2>5, <3>2, SMT DEF FallBack, TypeOK
  <2>6. CASE Watchdog
    <3>1. SetCfg(Disconnected(driver), new) \in Driver
      BY DisconnectedType, SetCfgType DEF TypeOK
    <3>2. driver' \in Driver /\ bits' \in SUBSET Bits
      BY <2>6, <3>1, LinkedType, SMT DEF Watchdog, Drive, TypeOK
    <3> QED BY <2>6, <3>2, SMT DEF Watchdog, TypeOK
  <2>7. CASE Sync
    BY <2>7, CurrentCfgType, SMT DEF Sync, TypeOK, Cfg
  <2>8. CASE ConnectDone \/ ConnectGivesUp \/ KeepWaiting
    BY <2>8, SMT DEF ConnectDone, ConnectGivesUp, KeepWaiting, TypeOK
  <2> QED BY <2>1, <2>2, <2>3, <2>4, <2>5, <2>6, <2>7, <2>8 DEF TimerRun
<1> QED BY <1>1, <1>2, LeaveType, SMT DEF TypeOK

LEMMA TimerStepType ==
    ASSUME TypeOK, TimerStep PROVE TypeOK'
<1>1. CASE TimerCall BY <1>1, SMT DEF TypeOK, TimerCall, Entered
<1>2. CASE TimerLost BY <1>2, SMT DEF TypeOK, TimerLost, history
<1> QED BY <1>1, <1>2, TimerRunType DEF TimerStep

LEMMA ServerStepType ==
    ASSUME TypeOK, ServerStep \/ \E req \in Requests : Arrive(req) PROVE TypeOK'
<1>1. CASE \E req \in Requests : Arrive(req)
  <2>1. PICK req \in Requests : Arrive(req)
    BY <1>1
  <2>2. Asked(req, CurrentCfg) \in Cfg
    BY CurrentCfgType, AskedType
  <2>3. requests' \in 0 .. MaxRequests
    BY <2>1, BoundsAssumption, SMT DEF Arrive, TypeOK, history
  <2> QED BY <2>1, <2>2, <2>3, SMT DEF Arrive, TypeOK, history
<1>2. CASE Reject
  BY <1>2, NoServerType, SMT DEF TypeOK, Reject, history
<1>3. CASE Accept
  BY <1>3, CurrentCfgType, SMT DEF TypeOK, Accept, Accepted
<1>4. CASE Compare
  <2>1. saved' \in Cfg
    BY <1>4, SMT DEF Compare, TypeOK, Cfg, Stations
  <2>2. /\ state' \in Stable \cup Transitional
        /\ timer' \in {"off", "armed", "lost"}
        /\ before' \in Cfg
    BY <1>4, <2>1, SMT DEF Compare, StartChange, TypeOK, Stable, Transitional
  <2> QED BY <1>4, <2>1, <2>2, NoServerType, SMT DEF Compare, TypeOK
<1>5. CASE StartWps
  <2>1. /\ state' \in Stable \cup Transitional
        /\ timer' \in {"off", "armed", "lost"}
    BY <1>5, SMT DEF StartWps, StartChange, TypeOK, Stable, Transitional
  <2> QED BY <1>5, <2>1, CurrentCfgType, NoServerType, SMT DEF StartWps, Accepted, TypeOK
<1>6. CASE TakeTimesOut
  BY <1>6, NoServerType, SMT DEF TypeOK, TakeTimesOut
<1> QED BY <1>1, <1>2, <1>3, <1>4, <1>5, <1>6 DEF ServerStep

LEMMA TypeStep ==
    ASSUME TypeOK, [Next]_vars PROVE TypeOK'
<1>1. CASE UNCHANGED vars
  BY <1>1, SMT DEF vars, history, TypeOK
<1> QED BY <1>1, EventStepType, TimerStepType, ServerStepType DEF Next

\* Every variable keeps its type (struct wifi_cfg_state, wifi_events).
THEOREM TypeCorrect == Spec => []TypeOK
<1>1. TypeOK /\ [Next]_vars => TypeOK'
  BY TypeStep
<1> QED BY <1>1, InitType, PTL DEF Spec
-----------------------------------------------------------------------------
(* Mutual exclusion: the callback of the timer and a handler's update hold *)
(* cfg_state.lock, each its own side of it, until a stray give.            *)

LockInv ==
    /\ lock = "timer" => callback = "running"
    /\ lock = "server" => server.pc = "compare"
    /\ stray = 0 => /\ callback = "running" => lock = "timer"
                    /\ server.pc = "compare" => lock = "server"
    /\ callback = "idle" /\ server.pc # "compare" => stray = 0
    /\ overlap = 0 /\ server.pc = "compare" => callback = "idle" /\ lock = "server"

\* The event task, the clock and an arriving request touch neither side.
LEMMA LockUntouched ==
    ASSUME LockInv, EventStep \/ Expire \/ \E req \in Requests : Arrive(req)
    PROVE  LockInv'
<1>1. CASE EventStep \/ Expire
  BY <1>1, SMT DEF LockInv, EventStep, Joined, LinkLost, WpsSucceeds, WpsFails, Expire,
     history
<1>2. CASE \E req \in Requests : Arrive(req)
  BY <1>2, SMT DEF LockInv, Arrive, history
<1> QED BY <1>1, <1>2

LEMMA LockTimer ==
    ASSUME TypeOK, LockInv, TimerStep PROVE LockInv'
<1>1. CASE TimerCall \/ TimerLost
  BY <1>1, SMT DEF LockInv, TimerCall, Entered, TimerLost, history
<1>2. CASE TimerRun
  <2>1. callback = "running" /\ \E s : Leave(s)
    BY <1>2, SMT DEF TimerRun, WpsStart, WpsSucceeded, WpsGivesUp, Update, ConnectDone,
       ConnectGivesUp, KeepWaiting, FallBack, Sync, Watchdog
  <2>2. callback = "running" /\ Returned
    BY <2>1 DEF Leave
  <2> QED BY <2>2, SMT DEF LockInv, Returned, TypeOK
<1> QED BY <1>1, <1>2 DEF TimerStep

\* The stray give opens a spell; the last of the two sides to leave closes it.
LEMMA LockServer ==
    ASSUME TypeOK, LockInv, ServerStep PROVE LockInv'
<1>1. CASE Reject
  BY <1>1, SMT DEF LockInv, TypeOK, Reject, NoServer, history
<1>2. CASE Accept
  BY <1>2, SMT DEF LockInv, TypeOK, Accept, Accepted
<1>3. CASE Compare
  BY <1>3, SMT DEF LockInv, TypeOK, Compare, StartChange, NoServer
<1>4. CASE StartWps
  BY <1>4, SMT DEF LockInv, TypeOK, StartWps, StartChange, NoServer
<1>5. CASE TakeTimesOut
  BY <1>5, SMT DEF LockInv, TypeOK, TakeTimesOut, NoServer
<1> QED BY <1>1, <1>2, <1>3, <1>4, <1>5 DEF ServerStep

LEMMA LockStep ==
    ASSUME TypeOK, LockInv, [Next]_vars PROVE LockInv'
<1>1. CASE UNCHANGED vars
  BY <1>1, SMT DEF vars, history, LockInv
<1> QED BY <1>1, LockUntouched, LockTimer, LockServer DEF Next

\* The callback and a handler's update never overlap (the comment before
\* handle_config_timer) but in a spell that a WPS request opened by giving the
\* lock it had not taken, and the spell ends as soon as both have left.
THEOREM LockExcludes == Spec => []LockProtects
<1>1. Init => LockInv
  BY SMT DEF Init, LockInv, NoServer
<1>2. TypeOK /\ LockInv /\ [Next]_vars => LockInv'
  BY LockStep
<1>3. TypeOK /\ LockInv => LockProtects
  BY SMT DEF TypeOK, LockInv, LockProtects
<1> QED BY <1>1, <1>2, <1>3, TypeCorrect, PTL DEF Spec

-----------------------------------------------------------------------------
(* Fall-back.                                                              *)

\* What FallbackRestores asks of .saved: that it would restore b.
Restores(s, b) ==
    /\ s.mode = b.mode
    /\ b.mode \in ApModes => s.ap = b.ap
    /\ b.sta # "zero" /\ b.mode \in StaModes => s.sta = b.sta

\* A change is under way that may still end in a fall-back: all but the one
\* that switches WiFi off, which ends in "idle".
MayFallBack ==
    \/ state \in {"wps_start", "wps_active", "connecting", "fallback"}
    \/ state = "update" /\ new.mode # "NULL"

\* .saved restores what the driver held when the change was accepted.
SavedRestores == MayFallBack /\ lock # "server" => Restores(saved, before)

\* Between update_wifi's two halves, a change under way is being replaced by
\* the one request that may: "off".
ReplacedByOff ==
    lock = "server" /\ state \in Transitional =>
        /\ new.mode = "NULL"
        /\ saved.mode = driver.mode
        /\ server.req # Boot

\* A mode with a station differs from "off": replacing a change that has got
\* this far is never dropped by the naive comparison.
RadioOn == state \in {"wps_active", "connecting", "fallback"} => driver.mode \in StaModes

WpsNotBegun == state = "wps_start" => driver.mode = before.mode

BootHasStation ==
    server.pc # "idle" /\ server.req = Boot => server.cfg.mode \in StaModes

\* No overlap during the change under way: all of it holds.
FallbackInv ==
    /\ TypeOK /\ LockInv /\ overlap = 0
    /\ SavedRestores /\ ReplacedByOff /\ RadioOn /\ WpsNotBegun /\ BootHasStation

\* The invariant of every reachable state.
WifiInv ==
    /\ TypeOK /\ LockInv /\ BootHasStation
    /\ overlap = 0 => FallbackInv

\* set_wifi_cfg leaves the driver with what the mode it is given has a use for.
LEMMA SetCfgApplies ==
    ASSUME NEW d \in Driver, NEW cfg \in Cfg
    PROVE  /\ SetCfg(d, cfg).mode = cfg.mode
           /\ cfg.mode \in ApModes => SetCfg(d, cfg).ap = cfg.ap
           /\ cfg.mode \in StaModes => SetCfg(d, cfg).sta = cfg.sta
<1> DEFINE ap   == IF cfg.mode \in ApModes THEN cfg.ap ELSE d.ap
           sta  == IF cfg.mode \in StaModes THEN cfg.sta ELSE d.sta
           link == CASE cfg.mode \notin StaModes -> "down"
                     [] WantsLink(cfg) /\ d.link = "down" -> "joining"
                     [] OTHER -> d.link
           d1 == [d EXCEPT !.mode = cfg.mode]
           d2 == [d1 EXCEPT !.ap = ap]
           d3 == [d2 EXCEPT !.sta = sta]
           d4 == [d3 EXCEPT !.link = link]
<1>1. SetCfg(d, cfg) = d4
  BY DEF SetCfg
<1>2. /\ cfg.mode \in ApModes => ap = cfg.ap
      /\ cfg.mode \in StaModes => sta = cfg.sta
  BY SMT
<1>3. cfg.mode \in Modes /\ ap \in ApConfigs \cup {0} /\ sta \in Stations
  BY SMT DEF Driver, Cfg
<1> HIDE DEF ap, sta, link
<1>4. d1 \in Driver /\ d1.mode = cfg.mode
  BY <1>3, DriverUpdate, SMT DEF Driver
<1> HIDE DEF d1
<1>5. d2 \in Driver /\ d2.mode = cfg.mode /\ d2.ap = ap
  BY <1>3, <1>4, DriverUpdate, SMT DEF Driver
<1> HIDE DEF d2
<1>6. d3 \in Driver /\ d3.mode = cfg.mode /\ d3.ap = ap /\ d3.sta = sta
  BY <1>3, <1>5, DriverUpdate, SMT DEF Driver
<1> HIDE DEF d3
<1>7. d4.mode = cfg.mode /\ d4.ap = ap /\ d4.sta = sta
  BY <1>6, SMT DEF Driver
<1> HIDE DEF d4
<1> QED BY <1>1, <1>2, <1>7

\* What was read of the driver restores it.
LEMMA RestoresItself == \A c \in Cfg : Restores(c, c)
BY SMT DEF Restores

LEMMA InitFallback == Init => FallbackInv
BY InitType, SMT
DEF Init, FallbackInv, LockInv, SavedRestores, MayFallBack, ReplacedByOff, RadioOn,
    WpsNotBegun, BootHasStation, NoServer, Transitional

\* The variables the fall-back's invariant is about, but for the driver's links.
Kept ==
    /\ UNCHANGED <<state, saved, new, lock, server, before, overlap>>
    /\ driver'.mode = driver.mode

LEMMA KeptFallback ==
    ASSUME FallbackInv, Kept, TypeOK', LockInv' PROVE FallbackInv'
BY SMT DEF FallbackInv, Kept, SavedRestores, MayFallBack, ReplacedByOff, RadioOn,
   WpsNotBegun, BootHasStation, Restores

LEMMA EventKeeps ==
    ASSUME TypeOK, EventStep \/ Expire \/ TimerLost \/ UNCHANGED vars PROVE Kept
<1>1. CASE Joined
  BY <1>1, SMT DEF Kept, Joined, TypeOK, Driver, history
<1>2. CASE LinkLost
  BY <1>2, SMT DEF Kept, LinkLost, Drive, Disconnected, TypeOK, Driver, history
<1>3. CASE WpsSucceeds
  BY <1>3, SMT DEF Kept, WpsSucceeds, TypeOK, Driver, history
<1>4. CASE WpsFails
  BY <1>4, SMT DEF Kept, WpsFails, history
<1>5. CASE Expire
  BY <1>5, SMT DEF Kept, Expire, history
<1>6. CASE TimerLost
  BY <1>6, SMT DEF Kept, TimerLost, history
<1>7. CASE UNCHANGED vars
  BY <1>7, SMT DEF Kept, vars, history
<1> QED BY <1>1, <1>2, <1>3, <1>4, <1>5, <1>6, <1>7 DEF EventStep

LEMMA CallKeepsFallback ==
    ASSUME FallbackInv, TimerCall, TypeOK', LockInv', overlap' = 0 PROVE FallbackInv'
BY SMT DEF FallbackInv, LockInv, TimerCall, Entered, SavedRestores, MayFallBack, ReplacedByOff,
   RadioOn, WpsNotBegun, BootHasStation, Restores

\* The callback goes on with a change and never begins one; once the radio is
\* needed, it is on.
LEMMA RunContinues ==
    ASSUME FallbackInv, TimerRun
    PROVE  /\ callback = "running" /\ lock' = "free"
           /\ UNCHANGED <<saved, server, before, overlap>>
           /\ MayFallBack' => MayFallBack
           /\ state' # "wps_start"
           /\ RadioOn'
<1>0. TypeOK /\ RadioOn
  BY DEF FallbackInv
<1>1. CASE WpsStart
  <2>1. /\ callback = "running" /\ lock' = "free"
        /\ UNCHANGED <<saved, server, before, overlap>>
        /\ MayFallBack /\ state' # "wps_start"
    BY <1>1, SMT DEF WpsStart, Leave, Returned, MayFallBack
  <2>2. new' \in Cfg
    BY <1>0, <1>1, CurrentCfgType, CfgUpdates, CfgValues DEF WpsStart
  <2>3. new'.mode = "APSTA"
    BY <1>0, <1>1, SMT DEF WpsStart, CurrentCfg
  <2> DEFINE d == SetCfg(driver, new')
  <2>4. d \in Driver /\ d.mode = "APSTA"
    BY <1>0, <2>2, <2>3, SetCfgType, SetCfgApplies DEF TypeOK
  <2>5. \E w : driver' = [d EXCEPT !.wps = w]
    BY <1>1 DEF WpsStart
  <2> HIDE DEF d
  <2>6. driver'.mode = "APSTA"
    BY <2>4, <2>5, SMT DEF Driver
  <2> QED BY <2>1, <2>6, SMT DEF RadioOn, StaModes
<1>2. CASE WpsSucceeded
  BY <1>2, SMT DEF WpsSucceeded, Leave, Returned, MayFallBack, RadioOn
<1>3. CASE WpsGivesUp
  BY <1>0, <1>3, SMT DEF WpsGivesUp, Leave, Returned, MayFallBack, RadioOn, TypeOK, Driver
<1>4. CASE Update
  <2>1. /\ callback = "running" /\ lock' = "free" /\ UNCHANGED <<saved, server, before, overlap, new>>
        /\ state = "update"
        /\ state' \in {"idle", "failed", "connecting"}
        /\ state' = "connecting" => WantsLink(new)
    BY <1>4, SMT DEF Update, Leave, Returned
  <2>2. driver'.mode = new.mode
    BY <1>0, <1>4, DisconnectedType, SetCfgApplies DEF Update, Drive, TypeOK
  <2> QED BY <2>1, <2>2, SMT DEF MayFallBack, RadioOn, WantsLink, StaModes
<1>5. CASE ConnectDone
  BY <1>5, SMT DEF ConnectDone, Leave, Returned, MayFallBack, RadioOn
<1>6. CASE ConnectGivesUp
  BY <1>0, <1>6, SMT DEF ConnectGivesUp, Leave, Returned, MayFallBack, RadioOn
<1>7. CASE KeepWaiting
  BY <1>0, <1>7, SMT DEF KeepWaiting, Leave, Returned, MayFallBack, RadioOn
<1>8. CASE FallBack
  BY <1>8, SMT DEF FallBack, Leave, Returned, MayFallBack, RadioOn
<1>9. CASE Sync
  BY <1>9, SMT DEF Sync, Leave, Returned, MayFallBack, RadioOn
<1>10. CASE Watchdog
  BY <1>10, SMT DEF Watchdog, Leave, Returned, MayFallBack, RadioOn
<1> QED BY <1>1, <1>2, <1>3, <1>4, <1>5, <1>6, <1>7, <1>8, <1>9, <1>10 DEF TimerRun

LEMMA RunKeepsFallback ==
    ASSUME FallbackInv, TimerRun, TypeOK', LockInv' PROVE FallbackInv'
<1>1. /\ SavedRestores /\ BootHasStation
      /\ lock # "server" /\ overlap' = 0
  BY RunContinues, SMT DEF FallbackInv, LockInv
<1>2. SavedRestores'
  BY <1>1, RunContinues, SMT DEF SavedRestores, Restores
<1>3. ReplacedByOff' /\ WpsNotBegun' /\ BootHasStation'
  BY <1>1, RunContinues, SMT DEF ReplacedByOff, WpsNotBegun, BootHasStation
<1> QED BY <1>2, <1>3, RunContinues DEF FallbackInv

LEMMA ArriveKeepsFallback ==
    ASSUME FallbackInv, NEW req \in Requests, Arrive(req), TypeOK', LockInv'
    PROVE  FallbackInv'
<1>0. overlap' = 0
  BY DEF FallbackInv, Arrive, history
<1>1. BootHasStation'
  <2> SUFFICES ASSUME req = Boot PROVE server'.cfg.mode \in StaModes
    BY SMT DEF Arrive, BootHasStation
  <2>1. driver.mode \in StaModes
    BY SMT DEF Arrive, Refused, Boot
  <2>2. Asked(Boot, CurrentCfg) = [CurrentCfg EXCEPT !.connect = 1]
    BY SMT DEF Asked, Boot
  <2>3. [CurrentCfg EXCEPT !.connect = 1].mode = driver.mode
    BY SMT DEF CurrentCfg
  <2>4. server'.cfg = Asked(req, CurrentCfg)
    BY DEF Arrive
  <2> QED BY <2>1, <2>2, <2>3, <2>4
<1>2. SavedRestores' /\ RadioOn' /\ WpsNotBegun'
  BY SMT DEF FallbackInv, Arrive, history, SavedRestores, MayFallBack, RadioOn, WpsNotBegun,
     Restores
<1>3. ReplacedByOff'
  BY SMT DEF FallbackInv, LockInv, Arrive, ReplacedByOff
<1> QED BY <1>0, <1>1, <1>2, <1>3 DEF FallbackInv

LEMMA AcceptKeepsFallback ==
    ASSUME FallbackInv, Accept, TypeOK', LockInv', overlap' = 0 PROVE FallbackInv'
<1>1. ReplacedByOff'
  <2> SUFFICES ASSUME Busy PROVE new'.mode = "NULL" /\ saved'.mode = driver.mode
                                 /\ server.req # Boot
    BY SMT DEF Accept, ReplacedByOff, Busy, FallbackInv, TypeOK
  <2>1. server.cfg.mode = "NULL" /\ new' = server.cfg
    BY SMT DEF Accept
  <2>2. server.req # Boot
    BY <2>1, SMT DEF FallbackInv, Accept, BootHasStation, StaModes
  <2>3. saved'.mode = driver.mode
    BY <2>2, SMT DEF Accept, CurrentCfg
  <2> QED BY <2>1, <2>2, <2>3
<1>2. SavedRestores'
  BY SMT DEF Accept, SavedRestores
<1>3. RadioOn' /\ WpsNotBegun'
  BY SMT DEF FallbackInv, Accept, RadioOn, WpsNotBegun
<1>4. BootHasStation'
  BY SMT DEF FallbackInv, Accept, BootHasStation, TypeOK
<1> QED BY <1>1, <1>2, <1>3, <1>4 DEF FallbackInv

LEMMA CompareKeepsFallback ==
    ASSUME FallbackInv, Compare, TypeOK', LockInv' PROVE FallbackInv'
<1>1. /\ lock = "server" /\ lock' = "free" /\ server'.pc = "idle"
      /\ UNCHANGED <<new, driver>> /\ overlap' = 0
  BY SMT DEF FallbackInv, LockInv, Compare, NoServer
<1>2. saved'.mode = saved.mode
  BY SMT DEF FallbackInv, TypeOK, Cfg, Compare
<1>3. ReplacedByOff' /\ BootHasStation'
  BY <1>1, SMT DEF ReplacedByOff, BootHasStation
<1>4. CASE server.req = Boot \/ Differs(new, saved')
  <2>1. /\ before' = IF state \in Transitional THEN before ELSE saved'
        /\ state' \in {"update", "failed"}
    BY <1>4, SMT DEF Compare, StartChange
  <2>2. MayFallBack' => state \notin Transitional
    BY <1>1, <2>1, SMT DEF MayFallBack, FallbackInv, ReplacedByOff
  <2>3. saved' \in Cfg
    BY DEF TypeOK
  <2>4. SavedRestores'
    BY <2>1, <2>2, <2>3, RestoresItself, SMT DEF SavedRestores, Restores
  <2>5. RadioOn' /\ WpsNotBegun'
    BY <2>1, SMT DEF RadioOn, WpsNotBegun
  <2> QED BY <1>1, <1>3, <2>4, <2>5 DEF FallbackInv
<1>5. CASE ~(server.req = Boot \/ Differs(new, saved'))
  <2>1. state' \in {"connected", state} /\ before' = before
    BY <1>5, SMT DEF Compare
  <2>2. saved'.mode = new.mode
    BY <1>5, SMT DEF Differs
  <2>3. RadioOn' /\ WpsNotBegun'
    BY <1>1, <2>1, SMT DEF FallbackInv, RadioOn, WpsNotBegun
  <2>4. ASSUME MayFallBack' PROVE Restores(saved', before')
    <3>1. state' = state /\ state \in Transitional
      BY <2>1, <2>4, SMT DEF MayFallBack, Transitional
    <3>2. new.mode = "NULL" /\ driver.mode = "NULL" /\ saved'.mode = "NULL"
      BY <1>1, <1>2, <2>2, <3>1, SMT DEF FallbackInv, ReplacedByOff
    <3>3. state = "wps_start"
      BY <1>1, <2>4, <3>1, <3>2, SMT DEF MayFallBack, FallbackInv, RadioOn, StaModes
    <3>4. before.mode = "NULL"
      BY <3>2, <3>3 DEF FallbackInv, WpsNotBegun
    <3> QED BY <2>1, <3>2, <3>4, SMT DEF Restores, ApModes, StaModes
  <2> QED BY <1>1, <1>3, <2>3, <2>4 DEF FallbackInv, SavedRestores
<1> QED BY <1>4, <1>5

LEMMA WpsKeepsFallback ==
    ASSUME TypeOK, StartWps, TypeOK', LockInv', overlap' = 0 PROVE FallbackInv'
<1>1. CurrentCfg \in Cfg /\ CurrentCfg.mode = driver.mode
  BY CurrentCfgType, SMT DEF CurrentCfg
<1>2. /\ saved' = CurrentCfg /\ before' = CurrentCfg
      /\ state' \in {"wps_start", "failed"}
      /\ driver' = driver /\ lock' = "free" /\ server'.pc = "idle"
  BY SMT DEF StartWps, StartChange, NoServer
<1>3. SavedRestores'
  BY <1>1, <1>2, RestoresItself DEF SavedRestores
<1>4. ReplacedByOff' /\ RadioOn' /\ WpsNotBegun' /\ BootHasStation'
  BY <1>1, <1>2, SMT DEF ReplacedByOff, RadioOn, WpsNotBegun, BootHasStation
<1> QED BY <1>3, <1>4 DEF FallbackInv

LEMMA RefusalKeepsFallback ==
    ASSUME FallbackInv, Reject \/ TakeTimesOut, TypeOK', LockInv' PROVE FallbackInv'
<1>1. /\ UNCHANGED <<state, saved, new, driver, before>>
      /\ lock # "server" /\ lock' # "server" /\ server'.pc = "idle" /\ overlap' = 0
  BY SMT DEF FallbackInv, Reject, TakeTimesOut, NoServer, history
<1>2. SavedRestores' /\ ReplacedByOff' /\ RadioOn' /\ WpsNotBegun' /\ BootHasStation'
  BY <1>1, SMT DEF FallbackInv, SavedRestores, MayFallBack, ReplacedByOff, RadioOn,
     WpsNotBegun, BootHasStation, Restores
<1> QED BY <1>1, <1>2 DEF FallbackInv

\* One step at a time; the types and the lock are settled above.
LEMMA FallbackStep ==
    ASSUME FallbackInv, [Next]_vars, overlap' = 0 PROVE FallbackInv'
<1>1. TypeOK /\ LockInv
  BY DEF FallbackInv
<1>2. TypeOK'
  BY <1>1, TypeStep
<1>3. LockInv'
  BY <1>1, LockStep
<1>4. CASE EventStep \/ Expire \/ TimerLost \/ UNCHANGED vars
  BY <1>1, <1>2, <1>3, <1>4, EventKeeps, KeptFallback
<1>5. CASE TimerCall
  BY <1>2, <1>3, <1>5, CallKeepsFallback
<1>6. CASE TimerRun
  BY <1>2, <1>3, <1>6, RunKeepsFallback
<1>7. CASE \E req \in Requests : Arrive(req)
  BY <1>2, <1>3, <1>7, ArriveKeepsFallback
<1>8. CASE ServerStep
  BY <1>1, <1>2, <1>3, <1>8, AcceptKeepsFallback, CompareKeepsFallback, WpsKeepsFallback,
     RefusalKeepsFallback DEF ServerStep
<1> QED BY <1>4, <1>5, <1>6, <1>7, <1>8 DEF Next, TimerStep

\* Only the acceptance of a change with none under way clears `overlap`.
LEMMA ClearedBy ==
    ASSUME TypeOK, [Next]_vars, overlap # 0, overlap' = 0
    PROVE  (Accept \/ StartWps) /\ ~Busy
<1>1. ~(UNCHANGED vars \/ EventStep \/ Expire \/ TimerCall \/ TimerLost)
  BY SMT DEF vars, history, EventStep, Joined, LinkLost, WpsSucceeds, WpsFails, Expire,
     TimerCall, Entered, TimerLost
<1>2. ~TimerRun
  BY SMT DEF TimerRun, WpsStart, WpsSucceeded, WpsGivesUp, Update, ConnectDone,
     ConnectGivesUp, KeepWaiting, FallBack, Sync, Watchdog, Leave, Returned
<1>3. ~((\E req \in Requests : Arrive(req)) \/ Reject \/ Compare \/ TakeTimesOut)
  BY SMT DEF Arrive, Reject, Compare, TakeTimesOut, history
<1>4. Accept \/ StartWps => ~Busy
  BY SMT DEF Accept, StartWps, Accepted
<1> QED BY <1>1, <1>2, <1>3, <1>4 DEF Next, TimerStep, ServerStep

\* It then starts afresh: nothing is asked of a state that no change is in.
LEMMA AcceptsAfresh ==
    ASSUME TypeOK, BootHasStation, Accept, ~Busy, TypeOK', LockInv', overlap' = 0
    PROVE  FallbackInv'
<1>1. /\ state' = state /\ state \notin Transitional /\ lock' = "server"
      /\ server'.pc = "compare" /\ server'.req = server.req /\ server'.cfg = server.cfg
      /\ server.pc = "asking"
  BY SMT DEF Accept, Busy, TypeOK
<1>2. SavedRestores' /\ ReplacedByOff' /\ RadioOn' /\ WpsNotBegun'
  BY <1>1, SMT DEF SavedRestores, MayFallBack, ReplacedByOff, RadioOn, WpsNotBegun, Transitional
<1>3. BootHasStation'
  BY <1>1, SMT DEF BootHasStation
<1> QED BY <1>2, <1>3 DEF FallbackInv

\* A boot request is one of a mode with a station, whoever holds the lock.
LEMMA BootStep ==
    ASSUME TypeOK, BootHasStation, [Next]_vars PROVE BootHasStation'
<1>1. CASE \E req \in Requests : Arrive(req)
  <2>1. PICK req \in Requests : Arrive(req)
    BY <1>1
  <2> SUFFICES ASSUME req = Boot PROVE server'.cfg.mode \in StaModes
    BY <2>1, SMT DEF Arrive, BootHasStation
  <2>2. driver.mode \in StaModes
    BY <2>1, SMT DEF Arrive, Refused, Boot
  <2>3. Asked(Boot, CurrentCfg) = [CurrentCfg EXCEPT !.connect = 1]
    BY SMT DEF Asked, Boot
  <2>4. [CurrentCfg EXCEPT !.connect = 1].mode = driver.mode
    BY SMT DEF CurrentCfg
  <2>5. server'.cfg = Asked(req, CurrentCfg)
    BY <2>1 DEF Arrive
  <2> QED BY <2>2, <2>3, <2>4, <2>5
<1>2. CASE Accept
  BY <1>2, SMT DEF Accept, BootHasStation, TypeOK
<1>3. CASE Reject \/ Compare \/ StartWps \/ TakeTimesOut
  BY <1>3, SMT DEF Reject, Compare, StartWps, TakeTimesOut, NoServer, BootHasStation
<1>4. CASE UNCHANGED vars \/ EventStep \/ Expire \/ TimerCall \/ TimerLost
  BY <1>4, SMT DEF vars, EventStep, Joined, LinkLost, WpsSucceeds, WpsFails, Expire,
     TimerCall, Entered, TimerLost, BootHasStation
<1>5. CASE TimerRun
  <2>1. \E s : Leave(s)
    BY <1>5, SMT DEF TimerRun, WpsStart, WpsSucceeded, WpsGivesUp, Update, ConnectDone,
       ConnectGivesUp, KeepWaiting, FallBack, Sync, Watchdog
  <2> QED BY <2>1, SMT DEF Leave, Returned, BootHasStation
<1> QED BY <1>1, <1>2, <1>3, <1>4, <1>5 DEF Next, TimerStep, ServerStep

LEMMA WifiStep ==
    ASSUME WifiInv, [Next]_vars PROVE WifiInv'
<1>1. TypeOK /\ LockInv /\ BootHasStation
  BY DEF WifiInv
<1>2. TypeOK' /\ LockInv' /\ BootHasStation'
  BY <1>1, TypeStep, LockStep, BootStep
<1>3. ASSUME overlap' = 0 PROVE FallbackInv'
  <2>1. CASE overlap = 0
    BY <1>3, <2>1, FallbackStep DEF WifiInv
  <2>2. CASE overlap # 0
    BY <1>1, <1>2, <1>3, <2>2, ClearedBy, AcceptsAfresh, WpsKeepsFallback
  <2> QED BY <2>1, <2>2
<1> QED BY <1>2, <1>3 DEF WifiInv

LEMMA InitWifi == Init => WifiInv
BY InitFallback DEF WifiInv, FallbackInv

\* The only step that ends a fall-back applies .saved to the driver.
LEMMA FallbackApplies ==
    ASSUME FallbackInv, [Next]_vars, state = "fallback", callback = "running", state' = "failed"
    PROVE  Restores(driver', before)
<1>1. TypeOK /\ server.pc # "compare" /\ Restores(saved, before)
  BY SMT DEF FallbackInv, LockInv, SavedRestores, MayFallBack
<1>2. FallBack
  <2>1. TimerRun
    <3>1. ~(UNCHANGED vars \/ EventStep \/ Expire \/ TimerCall \/ TimerLost)
      BY SMT DEF vars, EventStep, Joined, LinkLost, WpsSucceeds, WpsFails, Expire,
         TimerCall, Entered, TimerLost
    <3>2. ~((\E req \in Requests : Arrive(req)) \/ Reject \/ Accept \/ StartWps \/ TakeTimesOut)
      BY <1>1, SMT DEF Arrive, Reject, Accept, StartWps, TakeTimesOut, Busy, Transitional
    <3>3. ~Compare
      BY <1>1 DEF Compare
    <3> QED BY <3>1, <3>2, <3>3 DEF Next, TimerStep, ServerStep
  <2> QED BY <2>1, SMT DEF TimerRun, WpsStart, WpsSucceeded, WpsGivesUp, Update,
         ConnectDone, ConnectGivesUp, KeepWaiting, Sync, Watchdog
<1>3. driver' = SetCfg(Disconnected(driver), saved)
  BY <1>2 DEF FallBack, Drive
<1>4. Disconnected(driver) \in Driver /\ saved \in Cfg
  BY <1>1, DisconnectedType DEF TypeOK
<1>5. /\ driver'.mode = saved.mode
      /\ saved.mode \in ApModes => driver'.ap = saved.ap
      /\ saved.mode \in StaModes => driver'.sta = saved.sta
  BY <1>3, <1>4, SetCfgApplies
<1> QED BY <1>1, <1>5, SMT DEF Restores

\* A fall-back puts back the mode, the access point and, if it was connected,
\* the station configuration that the driver had when the change was accepted
\* (handle_config_timer, case cfg_state_fallback), whatever was asked meanwhile,
\* if callback and handler did not overlap since.
THEOREM FallbackUndoes == Spec => FallbackRestores
<1>1. WifiInv /\ [Next]_vars => WifiInv'
  BY WifiStep
<1>2. WifiInv /\ [Next]_vars =>
        [ state = "fallback" /\ callback = "running" /\ state' = "failed"
            /\ overlap = 0 /\ overlap' = 0 =>
            /\ driver'.mode = before.mode
            /\ before.mode \in ApModes => driver'.ap = before.ap
            /\ before.sta # "zero" /\ before.mode \in StaModes
                 => driver'.sta = before.sta ]_vars
  BY FallbackApplies DEF Restores, WifiInv
<1> QED BY <1>1, <1>2, InitWifi, PTL DEF Spec, FallbackRestores

\* The steps that may change the mode the radio is in.
LEMMA OffSteps ==
    ASSUME FallbackInv, [Next]_vars, new.mode = "NULL", driver.mode = "NULL",
           driver'.mode # "NULL"
    PROVE  state = "wps_start"
<1>1. TypeOK /\ RadioOn
  BY DEF FallbackInv
<1>2. ~(EventStep \/ Expire \/ TimerLost \/ UNCHANGED vars)
  BY <1>1, EventKeeps DEF Kept
<1>3. ~(TimerCall \/ (\E req \in Requests : Arrive(req)) \/ ServerStep)
  BY SMT DEF TimerCall, Entered, Arrive, ServerStep, Reject, Accept, Compare, StartWps,
     TakeTimesOut
<1>4. TimerRun
  BY <1>2, <1>3 DEF Next, TimerStep
<1>5. ~Update
  BY <1>1, DisconnectedType, SetCfgApplies DEF Update, Drive, TypeOK
<1>6. ~FallBack
  BY <1>1, SMT DEF FallBack, RadioOn, StaModes
<1>7. ~Watchdog
  BY SMT DEF Watchdog, WantsLink, StaModes
<1>8. ~(WpsSucceeded \/ WpsGivesUp)
  BY <1>1, SMT DEF WpsSucceeded, WpsGivesUp, TypeOK, Driver
<1>9. ~(ConnectDone \/ ConnectGivesUp \/ KeepWaiting \/ Sync)
  BY SMT DEF ConnectDone, ConnectGivesUp, KeepWaiting, Sync
<1> QED BY <1>4, <1>5, <1>6, <1>7, <1>8, <1>9 DEF TimerRun, WpsStart

\* Once the WiFi is off because that was asked for (update_wifi, with any state),
\* only a WPS request that waits to begin turns the radio on, if callback and
\* handler did not overlap.
THEOREM OffStaysOff ==
    Spec => [][ new.mode = "NULL" /\ driver.mode = "NULL" /\ driver'.mode # "NULL"
                  => state = "wps_start" \/ overlap = 1 ]_vars
<1>1. WifiInv /\ [Next]_vars => WifiInv'
  BY WifiStep
<1>2. WifiInv /\ [Next]_vars =>
        [ new.mode = "NULL" /\ driver.mode = "NULL" /\ driver'.mode # "NULL"
            => state = "wps_start" \/ overlap = 1 ]_vars
  <2> SUFFICES ASSUME WifiInv, [Next]_vars, overlap # 1, new.mode = "NULL",
                      driver.mode = "NULL", driver'.mode # "NULL"
               PROVE  state = "wps_start"
    OBVIOUS
  <2>1. overlap = 0
    BY SMT DEF WifiInv, TypeOK
  <2> QED BY <2>1, OffSteps DEF WifiInv
<1> QED BY <1>1, <1>2, InitWifi, PTL DEF Spec

-----------------------------------------------------------------------------
(* What the timer waits for.                                               *)

\* The driver works on .new, its link aside.
WorksOn == WantsLink(new) /\ driver.mode = new.mode /\ driver.sta = new.sta
             /\ (driver.mode \in ApModes => driver.ap = new.ap)

\* A step that changes none of the variables that ConnectsAsAsked is about, the
\* link of the driver aside, unless WPS is enabled.
Waits ==
    /\ UNCHANGED <<state, new>>
    /\ overlap' = 0 => overlap = 0
    /\ lock' # "server" => lock # "server"
    /\ driver'.wps = driver.wps
    /\ driver.wps = 0 =>
         driver'.mode = driver.mode /\ driver'.sta = driver.sta /\ driver'.ap = driver.ap

LEMMA WaitsKeeps ==
    ASSUME ConnectsAsAsked, Waits PROVE ConnectsAsAsked'
BY SMT DEF ConnectsAsAsked, Waits, WantsLink

LEMMA EventWaits ==
    ASSUME TypeOK, EventStep \/ Expire \/ TimerLost \/ TimerCall \/ UNCHANGED vars
    PROVE  Waits
<1>1. CASE Joined
  BY <1>1, SMT DEF Waits, Joined, TypeOK, Driver, history
<1>2. CASE LinkLost
  BY <1>2, SMT DEF Waits, LinkLost, Drive, Disconnected, TypeOK, Driver, history
<1>3. CASE WpsSucceeds
  BY <1>3, SMT DEF Waits, WpsSucceeds, TypeOK, Driver, history
<1>4. CASE WpsFails \/ Expire \/ TimerLost
  BY <1>4, SMT DEF Waits, WpsFails, Expire, TimerLost, history
<1>5. CASE TimerCall
  BY <1>5, SMT DEF Waits, TimerCall, Entered, TypeOK
<1>6. CASE UNCHANGED vars
  BY <1>6, SMT DEF Waits, vars, history
<1> QED BY <1>1, <1>2, <1>3, <1>4, <1>5, <1>6 DEF EventStep

LEMMA RunConnectsAsAsked ==
    ASSUME FallbackInv, ConnectsAsAsked, TimerRun PROVE ConnectsAsAsked'
<1>0. TypeOK
  BY DEF FallbackInv
<1>1. CASE Update
  <2> SUFFICES ASSUME state' = "connecting"
               PROVE  WorksOn'
    BY SMT DEF ConnectsAsAsked, WorksOn
  <2>1. WantsLink(new) /\ new' = new
    BY <1>1, SMT DEF Update, Leave, Returned
  <2>2. /\ driver'.mode = new.mode
        /\ new.mode \in ApModes => driver'.ap = new.ap
        /\ new.mode \in StaModes => driver'.sta = new.sta
    BY <1>0, <1>1, DisconnectedType, SetCfgApplies DEF Update, Drive, TypeOK
  <2> QED BY <2>1, <2>2, SMT DEF WorksOn, WantsLink
<1>2. CASE KeepWaiting
  BY <1>2, RunContinues, SMT DEF KeepWaiting, Leave, Returned, ConnectsAsAsked, FallbackInv, LockInv,
     WantsLink
<1>3. CASE ~Update /\ ~KeepWaiting
  <2>1. state' # "connecting"
    BY <1>3, SMT DEF TimerRun, WpsStart, WpsSucceeded, WpsGivesUp, ConnectDone,
       ConnectGivesUp, FallBack, Sync, Watchdog, Leave, Returned
  <2> QED BY <2>1, SMT DEF ConnectsAsAsked
<1> QED BY <1>1, <1>2, <1>3

\* A change that replaces one under way differs from it: Compare never finds
\* the configuration unchanged while the timer waits for a connection.
LEMMA CompareConnectsAsAsked ==
    ASSUME FallbackInv, Compare PROVE ConnectsAsAsked'
<1> SUFFICES ASSUME state' = "connecting" PROVE FALSE
  BY SMT DEF ConnectsAsAsked
<1>1. lock = "server" /\ state = "connecting"
  BY SMT DEF FallbackInv, LockInv, Compare, StartChange
<1>2. new.mode = "NULL" /\ saved.mode \in StaModes
  BY <1>1, SMT DEF FallbackInv, ReplacedByOff, RadioOn, Transitional
<1>3. saved'.mode = saved.mode
  BY SMT DEF FallbackInv, TypeOK, Cfg, Compare
<1>4. Differs(new, saved')
  BY <1>2, <1>3, SMT DEF Differs, StaModes
<1> QED BY <1>4, SMT DEF Compare, StartChange

LEMMA ServerConnectsAsAsked ==
    ASSUME FallbackInv, ConnectsAsAsked, ServerStep PROVE ConnectsAsAsked'
<1>1. CASE Reject \/ TakeTimesOut
  <2>1. Waits
    BY <1>1, SMT DEF Waits, Reject, TakeTimesOut, history
  <2> QED BY <2>1, WaitsKeeps
<1>2. CASE Accept
  BY <1>2, SMT DEF Accept, ConnectsAsAsked
<1>3. CASE Compare
  BY <1>3, CompareConnectsAsAsked
<1>4. CASE StartWps
  BY <1>4, SMT DEF StartWps, StartChange, ConnectsAsAsked
<1> QED BY <1>1, <1>2, <1>3, <1>4 DEF ServerStep

LEMMA ConnectsStep ==
    ASSUME WifiInv, ConnectsAsAsked, [Next]_vars PROVE ConnectsAsAsked'
<1> SUFFICES ASSUME overlap' = 0 PROVE ConnectsAsAsked'
  BY DEF ConnectsAsAsked
<1>1. CASE overlap # 0
  <2>1. (Accept \/ StartWps) /\ ~Busy
    BY <1>1, ClearedBy DEF WifiInv
  <2>2. state' # "connecting"
    BY <2>1, SMT DEF Accept, StartWps, StartChange, Busy, Transitional
  <2> QED BY <2>2 DEF ConnectsAsAsked
<1>2. CASE overlap = 0
  <2>0. FallbackInv
    BY <1>2 DEF WifiInv
  <2>1. CASE EventStep \/ Expire \/ TimerLost \/ TimerCall \/ UNCHANGED vars
    BY <2>0, <2>1, EventWaits, WaitsKeeps DEF FallbackInv
  <2>2. CASE TimerRun
    BY <2>0, <2>2, RunConnectsAsAsked
  <2>3. CASE \E req \in Requests : Arrive(req)
    <3>1. Waits
      BY <2>3, SMT DEF Waits, Arrive, history
    <3> QED BY <3>1, WaitsKeeps
  <2>4. CASE ServerStep
    BY <2>0, <2>4, ServerConnectsAsAsked
  <2> QED BY <2>1, <2>2, <2>3, <2>4 DEF Next, TimerStep
<1> QED BY <1>1, <1>2

\* While the callback waits for a connection (handle_config_timer, case
\* cfg_state_connecting) the driver works on exactly the configuration that the
\* last request asked for, whatever requests were refused or read meanwhile.
THEOREM WaitsForWhatWasAsked == Spec => []ConnectsAsAsked
<1>1. Init => ConnectsAsAsked
  BY SMT DEF Init, ConnectsAsAsked
<1>2. WifiInv /\ [Next]_vars => WifiInv'
  BY WifiStep
<1>3. WifiInv /\ ConnectsAsAsked /\ [Next]_vars => ConnectsAsAsked'
  BY ConnectsStep
<1> QED BY <1>1, <1>2, <1>3, InitWifi, PTL DEF Spec
=============================================================================
