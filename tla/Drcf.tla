--------------------------------- MODULE Drcf ---------------------------------
(***************************************************************************)
(* The robot controller (DRCF) and the DRFL library as the packages see    *)
(* them: the robot state, the holder of the control authority, the network *)
(* link, and the monitoring events that DRFL's own thread hands, one at a  *)
(* time and in order, to whatever callback is registered for their kind.   *)
(* Both are closed source; this module is modelled from the calls          *)
(* dsr_hw_interface2.cpp and dsr_controller2.cpp make and the answers they *)
(* test, under one assumption: a robot-control command takes effect        *)
(* exactly when the caller holds the authority and the command applies to  *)
(* the current robot state.                                                *)
(***************************************************************************)
EXTENDS Naturals, Sequences

CONSTANTS
    FaultStates,        \* the states a fault may throw the robot into
    MaxDisturbances,    \* how often the pendant or a fault interferes
    MaxEvents           \* no disturbance while this many events are pending

AllFaultStates ==
    {"SAFE_STOP", "SAFE_OFF", "SAFE_STOP2", "SAFE_OFF2", "RECOVERY"}

ASSUME FaultsAssumption == FaultStates \subseteq AllFaultStates
ASSUME BoundsAssumption == MaxDisturbances \in Nat /\ MaxEvents \in Nat

VARIABLES
    drcf,           \* the controller: state, holder of the authority, link,
                    \* pendant, RT stream, pending events
    slots,          \* the owner of each DRFL callback
    disturbances    \* disturbances so far
drcfVars == <<drcf, slots, disturbances>>

ROBOT_STATE == {"INITIALIZING", "STANDBY"} \union AllFaultStates

(***************************************************************************)
(* Monitoring events.  REQUEST, GRANT, DENY and LOSS are                   *)
(* MONITORING_ACCESS_CONTROL values.                                       *)
(***************************************************************************)
AccessEvent(v) == [kind |-> "access", value |-> v]
StateEvent(s)  == [kind |-> "state", value |-> s]
TpInitEvent    == [kind |-> "tp_init", value |-> "done"]
LinkEvent      == [kind |-> "link", value |-> "lost"]

ACCESS_CONTROL == {"REQUEST", "GRANT", "DENY", "LOSS"}
Event == {AccessEvent(v) : v \in ACCESS_CONTROL}
             \union {StateEvent(s) : s \in ROBOT_STATE}
             \union {TpInitEvent, LinkEvent}

EventKind == {"access", "state", "tp_init", "link"}
Owner     == {"none", "hw", "controller"}

Controller ==
    [state : ROBOT_STATE, holder : {"ros", "pendant"},
     link : {"down", "up", "lost", "closed"}, tp : {"booting", "ready"},
     rt : BOOLEAN, events : Seq(Event)]

Emit(d, e) == [d EXCEPT !.events = Append(@, e)]

(***************************************************************************)
(* DRFL calls.  Each maps the controller d to the set of controllers it    *)
(* may leave behind, so that a handler can make several calls in a row.    *)
(***************************************************************************)
SetHolder(d, who, e) == Emit([d EXCEPT !.holder = who], AccessEvent(e))

\* ManageAccessControl(FORCE_REQUEST): a booting controller ignores it; a
\* controller that has granted already may or may not grant again.
ForceRequest(d) ==
    IF d.state = "INITIALIZING" \/ d.link # "up" THEN {d}
    ELSE {SetHolder(d, "ros", "GRANT")}
             \union (IF d.holder = "ros" THEN {d} ELSE {})

\* ManageAccessControl(REQUEST): the operator at the pendant decides.
Request(d) ==
    IF d.link # "up" THEN {d}
    ELSE {SetHolder(d, "ros", "GRANT"), Emit(d, AccessEvent("DENY"))}

\* ManageAccessControl(RESPONSE_NO): the requester is refused and the
\* holder stays what it is.
ResponseNo(d) == {d}

\* What set_robot_control does to the robot state: <<from, command, to>>.
ControlTransition ==
    {<<"SAFE_STOP",  "RESET_SAFET_STOP",   "STANDBY">>,
     <<"SAFE_OFF",   "SERVO_ON",           "STANDBY">>,
     <<"SAFE_STOP2", "RECOVERY_SAFE_STOP", "RECOVERY">>,
     <<"SAFE_OFF2",  "RECOVERY_SAFE_OFF",  "RECOVERY">>,
     <<"RECOVERY",   "RESET_RECOVERY",     "STANDBY">>}

EnterState(d, s) == Emit([d EXCEPT !.state = s], StateEvent(s))

SetRobotControl(d, c) ==
    IF d.link = "up" /\ d.holder = "ros"
          /\ \E t \in ControlTransition : t[1] = d.state /\ t[2] = c
    THEN {EnterState(d, t[3]) :
              t \in {u \in ControlTransition : u[1] = d.state /\ u[2] = c}}
    ELSE {d}

\* stop_rt_control followed by close_connection.
Close(d) == [d EXCEPT !.link = "closed", !.holder = "pendant", !.rt = FALSE,
                      !.events = <<>>]

\* The commands d obeys at the moment they are sent, for the properties.
Obeyed(d) == d.link = "up" /\ d.holder = "ros"

PendingAccess(d, v) ==
    \E i \in 1..Len(d.events) : d.events[i] = AccessEvent(v)

(***************************************************************************)
(* What the controller, the pendant and the plant do on their own.         *)
(***************************************************************************)
DrcfInit ==
    /\ drcf = [state |-> "INITIALIZING", holder |-> "pendant", link |-> "down",
               tp |-> "booting", rt |-> FALSE, events |-> <<>>]
    /\ slots = [k \in EventKind |-> "none"]
    /\ disturbances = 0

Up == drcf.link = "up"

\* The controller reports only to a connected client.
Tell(d, e) == IF d.link = "up" THEN Emit(d, e) ELSE d

DrcfBoot ==
    /\ drcf.state = "INITIALIZING"
    /\ \E s \in {"SAFE_OFF", "STANDBY"} :
           drcf' = Tell([drcf EXCEPT !.state = s], StateEvent(s))
    /\ UNCHANGED <<slots, disturbances>>

PendantReady ==
    /\ drcf.tp = "booting"
    /\ drcf' = Tell([drcf EXCEPT !.tp = "ready"], TpInitEvent)
    /\ UNCHANGED <<slots, disturbances>>

\* Periodic monitoring repeats the current state.
ReportState ==
    /\ Up /\ drcf.events = <<>>
    /\ drcf' = Emit(drcf, StateEvent(drcf.state))
    /\ UNCHANGED <<slots, disturbances>>

Disturb ==
    /\ Up
    /\ disturbances < MaxDisturbances
    /\ Len(drcf.events) < MaxEvents
    /\ disturbances' = disturbances + 1
    /\ UNCHANGED slots

PendantTakes ==
    /\ Disturb /\ drcf.holder = "ros"
    /\ drcf' = SetHolder(drcf, "pendant", "LOSS")

PendantAsks ==
    /\ Disturb /\ drcf.holder = "ros"
    /\ drcf' = Emit(drcf, AccessEvent("REQUEST"))

PendantReleases ==
    /\ Disturb /\ drcf.holder = "pendant" /\ drcf.state # "INITIALIZING"
    /\ drcf' = SetHolder(drcf, "ros", "GRANT")

PendantServoOn ==
    /\ Disturb /\ drcf.holder = "pendant" /\ drcf.state = "SAFE_OFF"
    /\ drcf' = EnterState(drcf, "STANDBY")

Fault ==
    /\ Disturb /\ drcf.state = "STANDBY"
    /\ \E s \in FaultStates : drcf' = EnterState(drcf, s)

\* The cable is pulled: what was pending is lost, DRFL notices.
LinkLost ==
    /\ Disturb
    /\ drcf' = [drcf EXCEPT !.link = "lost", !.holder = "pendant",
                            !.events = <<LinkEvent>>]

DrcfNext ==
    \/ DrcfBoot \/ PendantReady \/ ReportState
    \/ PendantTakes \/ PendantAsks \/ PendantReleases \/ PendantServoOn
    \/ Fault \/ LinkLost

DrcfTypeOK ==
    /\ drcf \in Controller
    /\ slots \in [EventKind -> Owner]
    /\ disturbances \in 0..MaxDisturbances
===============================================================================
