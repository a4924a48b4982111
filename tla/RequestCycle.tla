--------------------------- MODULE RequestCycle ---------------------------
(***************************************************************************)
(* What the server promises of each of its slots: a connection alternates  *)
(* between reading a request and handling it, a connection that is to be   *)
(* closed after a response does nothing else any more, and every           *)
(* connection that was accepted is disconnected before the slot is used    *)
(* again.  Abstract specification implemented by HttpdServer.              *)
(***************************************************************************)
CONSTANT Slots
VARIABLE phase

Phases == {"closed", "reading", "handling", "closing"}

CycleInit == phase = [s \in Slots |-> "closed"]

Moves ==
  { <<"closed", "reading">>,     \* a client is accepted
    <<"reading", "handling">>,   \* a handler took the request, unfinished
    <<"reading", "closing">>,    \* answered at once, cannot be kept open
    <<"handling", "reading">>,   \* answered, kept open
    <<"handling", "closing">>,   \* answered, cannot be kept open
    <<"reading", "closed">>,     \* the client or the server gives up
    <<"handling", "closed">>,
    <<"closing", "closed">> }    \* closed after the response was sent

Move(s) ==
  \E p \in Phases :
    /\ <<phase[s], p>> \in Moves
    /\ phase' = [phase EXCEPT ![s] = p]

CycleNext == \E s \in Slots : Move(s)
CycleSpec == CycleInit /\ [][CycleNext]_phase
=============================================================================
