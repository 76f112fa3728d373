--------------------------- MODULE BringupReadyProofs ---------------------------
(***************************************************************************)
(* More proofs about Bringup, for every fault set, retry limit, mode and   *)
(* bound: what a successful on_init has done, and that the boot flags tell *)
(* the truth once every event has been delivered.                          *)
(***************************************************************************)
EXTENDS BringupProofs, SequenceTheorems

(***************************************************************************)
(* The inductive invariants.  Script[7] of a real bring-up is              *)
(* start_rt_control: once it has been made, the RT stream runs until the   *)
(* link goes, and a link that has gone never comes back.                   *)
(***************************************************************************)
RtCall == 7

ReadyInv ==
    /\ applied = {Script[i] : i \in 1..step}
    /\ result = "SUCCESS" => step = Len(Script)
    /\ pc \in {"description", "connect"} => step = 0
    /\ drcf.rt => Mode = "real"
    /\ Mode = "real" /\ step >= RtCall /\ drcf.link = "up" => drcf.rt

\* The events still to be delivered bring a boot flag for standby up to date:
\* the last report of a state is the state; without one the flag is right.
IsStateEvent(e) == e.kind = "state"

Tracks(d, standby) ==
    \/ \E i \in 1..Len(d.events) :
           /\ d.events[i] = StateEvent(d.state)
           /\ \A j \in 1..Len(d.events) : j > i => ~IsStateEvent(d.events[j])
    \/ /\ \A j \in 1..Len(d.events) : ~IsStateEvent(d.events[j])
       /\ standby => d.state = "STANDBY"

\* What get_control_access will say once the access lambda is done.
Claims == (get_control_access /\ storing # "LOSS") \/ storing = "GRANT"

\* A lambda that is not installed yet has set no flag; before the connection
\* nothing is pending.
BootInv ==
    /\ slots["state"] = "none" => ~is_standby
    /\ slots["access"] = "none" => ~get_control_access /\ storing = "none"
    /\ slots["state"] # "controller" /\ drcf.link = "up" => Tracks(drcf, is_standby)
    /\ slots["access"] # "controller" /\ Claims => Covered(drcf)
    /\ pc \in {"description", "connect"} => drcf.events = << >> /\ drcf.link = "down"
    /\ pc \in {"description", "connect", "register_access"} => slots["access"] = "none"
    /\ pc \in {"description", "connect", "register_access", "register_state"}
           => slots["state"] = "none"

-----------------------------------------------------------------------------
(***************************************************************************)
(* What a step of the robot controller may make of the controller record.  *)
(* Faithful: the RT stream is left alone, a link does not come up, and     *)
(* while it is up every change of state is reported.                       *)
(***************************************************************************)
Faithful(d, x) ==
    /\ x \in Controller
    /\ x.rt = d.rt
    /\ x.link = "up" => d.link = "up"
    /\ x.link = "up" =>
           \/ x.state = d.state /\ x.events = d.events
           \/ /\ x.state = d.state
              /\ \E e \in Event : ~IsStateEvent(e) /\ x.events = Append(d.events, e)
           \/ x.events = Append(d.events, StateEvent(x.state))

\* The kinds of the events.
LEMMA EventKinds ==
    /\ \A s \in ROBOT_STATE : IsStateEvent(StateEvent(s))
    /\ \A v \in ACCESS_CONTROL : ~IsStateEvent(AccessEvent(v))
    /\ ~IsStateEvent(TpInitEvent)
    /\ ~IsStateEvent(LinkEvent)
    /\ \A e \in Event : IsStateEvent(e) => e.value \in ROBOT_STATE /\ e = StateEvent(e.value)
    /\ \A e \in Event : e.kind = "access" => e.value \in ACCESS_CONTROL /\ e = AccessEvent(e.value)
  BY DEF Event, IsStateEvent, StateEvent, AccessEvent, TpInitEvent, LinkEvent

\* A flag that is up to date stays so in a faithful step.
LEMMA FaithfulTracks ==
    ASSUME NEW d \in Controller, NEW x, NEW b, Faithful(d, x), x.link = "up", Tracks(d, b)
    PROVE  Tracks(x, b)
  <1>0. d.events \in Seq(Event) /\ x.state \in ROBOT_STATE
    BY DEF Faithful, Controller
  <1>1. ASSUME NEW e \in Event
        PROVE  /\ Len(Append(d.events, e)) = Len(d.events) + 1
               /\ Len(d.events) \in Nat
               /\ \A i \in 1..Len(d.events) : Append(d.events, e)[i] = d.events[i]
               /\ Append(d.events, e)[Len(d.events) + 1] = e
    BY <1>0
  <1>2. CASE x.state = d.state /\ x.events = d.events
    BY <1>2 DEF Tracks
  <1>3. ASSUME x.state = d.state, NEW e \in Event, ~IsStateEvent(e),
               x.events = Append(d.events, e)
        PROVE  Tracks(x, b)
    BY <1>0, <1>1, <1>3 DEF Tracks
  <1>4. CASE x.events = Append(d.events, StateEvent(x.state))
    <2>1. StateEvent(x.state) \in Event
      BY <1>0, EventFacts
    <2>2. /\ Len(x.events) = Len(d.events) + 1
          /\ Len(d.events) \in Nat
          /\ x.events[Len(d.events) + 1] = StateEvent(x.state)
      BY <1>1, <1>4, <2>1
    <2> QED
      BY <2>2 DEF Tracks
  <1> QED
    BY <1>2, <1>3, <1>4 DEF Faithful

\* Nothing changed.
LEMMA FaithfulSelf == ASSUME NEW d \in Controller PROVE Faithful(d, d)
  BY DEF Faithful

\* A report of anything but a state.
LEMMA FaithfulEmit ==
    ASSUME NEW d \in Controller, NEW e \in Event, ~IsStateEvent(e)
    PROVE  Faithful(d, Emit(d, e))
  <1>1. Emit(d, e).rt = d.rt
    BY DEF Emit, Controller
  <1> QED
    BY <1>1, EmitFacts DEF Faithful

\* A change of the holder.
LEMMA FaithfulHolder ==
    ASSUME NEW d \in Controller, NEW who \in {"ros", "pendant"}, NEW v \in ACCESS_CONTROL
    PROVE  Faithful(d, SetHolder(d, who, v))
  <1>1. SetHolder(d, who, v).rt = d.rt /\ SetHolder(d, who, v).state = d.state
    BY DEF SetHolder, Emit, Controller
  <1>2. AccessEvent(v) \in Event /\ ~IsStateEvent(AccessEvent(v))
    BY EventFacts, EventKinds
  <1> QED
    BY <1>1, <1>2, SetHolderFacts DEF Faithful

\* A change of the state.
LEMMA FaithfulEnter ==
    ASSUME NEW d \in Controller, NEW s \in ROBOT_STATE
    PROVE  Faithful(d, EnterState(d, s))
  <1>1. EnterState(d, s).rt = d.rt /\ EnterState(d, s).state = s
    BY DEF EnterState, Emit, Controller
  <1> QED
    BY <1>1, EnterStateFacts DEF Faithful

\* The calls of DRFL.
LEMMA FaithfulCalls ==
    ASSUME NEW d \in Controller
    PROVE  /\ \A x \in ForceRequest(d) : Faithful(d, x)
           /\ \A x \in Request(d) : Faithful(d, x)
           /\ \A c : \A x \in SetRobotControl(d, c) : Faithful(d, x)
  <1>1. \A x \in ForceRequest(d) : Faithful(d, x)
    BY ForceRequestFacts, FaithfulSelf, FaithfulHolder DEF ACCESS_CONTROL
  <1>2. AccessEvent("DENY") \in Event /\ ~IsStateEvent(AccessEvent("DENY"))
    BY EventFacts, EventKinds DEF ACCESS_CONTROL
  <1>3. \A x \in Request(d) : Faithful(d, x)
    BY <1>2, RequestFacts, FaithfulSelf, FaithfulHolder, FaithfulEmit DEF ACCESS_CONTROL
  <1>4. ASSUME NEW c, NEW x \in SetRobotControl(d, c) PROVE Faithful(d, x)
    BY SetRobotControlFacts, FaithfulSelf, FaithfulEnter
  <1> QED
    BY <1>1, <1>3, <1>4

\* What the controller, the pendant and the plant do on their own.
LEMMA EnvironmentFaithful ==
    ASSUME drcf \in Controller, DrcfNext
    PROVE  Faithful(drcf, drcf') /\ UNCHANGED slots
  <1>0. UNCHANGED slots
    BY DEF DrcfNext, DrcfBoot, PendantReady, ReportState, Disturb, PendantTakes,
           PendantAsks, PendantReleases, PendantServoOn, Fault, LinkLost
  <1> SUFFICES Faithful(drcf, drcf')
    BY <1>0
  <1>1. CASE DrcfBoot
    <2>1. PICK s \in {"SAFE_OFF", "STANDBY"} :
              drcf' = Tell([drcf EXCEPT !.state = s], StateEvent(s))
      BY <1>1 DEF DrcfBoot
    <2>2. s \in ROBOT_STATE
      BY DEF ROBOT_STATE, AllFaultStates
    <2>3. [drcf EXCEPT !.state = s].link = drcf.link
      BY DEF Controller
    <2>4. CASE drcf.link = "up"
      BY <2>1, <2>2, <2>3, <2>4, FaithfulEnter DEF Tell, EnterState
    <2>5. CASE drcf.link # "up"
      <3>1. drcf' = [drcf EXCEPT !.state = s]
        BY <2>1, <2>3, <2>5 DEF Tell
      <3>2. drcf' \in Controller /\ drcf'.rt = drcf.rt /\ drcf'.link = drcf.link
        BY <2>2, <3>1 DEF Controller
      <3> QED
        BY <2>5, <3>2 DEF Faithful
    <2> QED
      BY <2>4, <2>5
  <1>2. CASE PendantReady
    <2> DEFINE x == [drcf EXCEPT !.tp = "ready"]
    <2>1. /\ x \in Controller /\ x.rt = drcf.rt /\ x.link = drcf.link
          /\ x.events = drcf.events /\ x.state = drcf.state
      BY DEF Controller
    <2>2. drcf' = x \/ drcf' = Emit(x, TpInitEvent)
      BY <1>2 DEF PendantReady, Tell
    <2> HIDE DEF x
    <2>3. Faithful(x, drcf')
      BY <2>1, <2>2, FaithfulSelf, FaithfulEmit, EventFacts, EventKinds
    <2> QED
      BY <2>1, <2>3 DEF Faithful
  <1>3. CASE ReportState
    <2>1. drcf.state \in ROBOT_STATE /\ StateEvent(drcf.state) \in Event
      BY EventFacts DEF Controller
    <2>2. drcf' = Emit(drcf, StateEvent(drcf.state))
      BY <1>3 DEF ReportState
    <2>3. drcf'.rt = drcf.rt
      BY <2>2 DEF Emit, Controller
    <2> QED
      BY <2>1, <2>2, <2>3, EmitFacts DEF Faithful
  <1>4. CASE PendantTakes \/ PendantReleases
    BY <1>4, FaithfulHolder DEF PendantTakes, PendantReleases, ACCESS_CONTROL
  <1>5. CASE PendantAsks
    <2>1. AccessEvent("REQUEST") \in Event /\ ~IsStateEvent(AccessEvent("REQUEST"))
      BY EventFacts, EventKinds DEF ACCESS_CONTROL
    <2> QED
      BY <1>5, <2>1, FaithfulEmit DEF PendantAsks
  <1>6. CASE PendantServoOn
    BY <1>6, FaithfulEnter DEF PendantServoOn, ROBOT_STATE
  <1>7. CASE Fault
    <2>1. FaultStates \subseteq ROBOT_STATE
      BY FaultsAssumption DEF ROBOT_STATE
    <2> QED
      BY <1>7, <2>1, FaithfulEnter DEF Fault
  <1>8. CASE LinkLost
    <2>1. drcf' = [drcf EXCEPT !.link = "lost", !.holder = "pendant",
                               !.events = <<LinkEvent>>]
      BY <1>8 DEF LinkLost
    <2>2. <<LinkEvent>> \in Seq(Event)
      BY EventFacts
    <2>3. drcf' \in Controller
      BY <2>1, <2>2 DEF Controller
    <2>4. drcf'.link = "lost" /\ drcf'.rt = drcf.rt
      BY <2>1 DEF Controller
    <2> QED
      BY <2>3, <2>4 DEF Faithful
  <1> QED
    BY <1>1, <1>2, <1>3, <1>4, <1>5, <1>6, <1>7, <1>8 DEF DrcfNext

(***************************************************************************)
(* The delivery of an event.                                               *)
(***************************************************************************)
\* Taking the oldest event off: a flag stays up to date, or its lambda must
\* take over the state.
LEMMA PopTracks ==
    ASSUME NEW d \in Controller, d.events # << >>, NEW b, Tracks(d, b)
    PROVE  LET x == [d EXCEPT !.events = Tail(@)]
               e == Head(d.events)
           IN  /\ ~IsStateEvent(e) => Tracks(x, b)
               /\ Tracks(x, FALSE)
               /\ IsStateEvent(e) => Tracks(x, e.value = "STANDBY")
  <1> DEFINE x == [d EXCEPT !.events = Tail(@)]
             q == d.events
             r == Tail(q)
  <1>1. q \in Seq(Event) /\ d.state \in ROBOT_STATE
    BY DEF Controller
  <1>2. /\ Len(r) = Len(q) - 1
        /\ Len(q) \in Nat \ {0}
        /\ \A i \in 1..(Len(q) - 1) : r[i] = q[i + 1]
        /\ Head(q) = q[1]
    BY <1>1
  <1>3. x.events = r /\ x.state = d.state
    BY DEF Controller
  <1> HIDE DEF x, q, r
  <1>4. CASE \A j \in 1..Len(q) : ~IsStateEvent(q[j])
    <2>1. \A j \in 1..Len(r) : ~IsStateEvent(r[j])
      BY <1>2, <1>4
    <2>2. ~IsStateEvent(q[1])
      BY <1>2, <1>4
    <2>3. b => d.state = "STANDBY"
      <3>1. \A i \in 1..Len(q) : q[i] # StateEvent(d.state)
        BY <1>1, <1>4, EventKinds
      <3> QED
        BY <3>1 DEF Tracks, q
    <2> QED
      BY <1>2, <1>3, <2>1, <2>2, <2>3 DEF Tracks, q, x
  <1>5. ASSUME NEW i \in 1..Len(q), q[i] = StateEvent(d.state),
               \A j \in 1..Len(q) : j > i => ~IsStateEvent(q[j])
        PROVE  /\ ~IsStateEvent(q[1]) => Tracks(x, b)
               /\ Tracks(x, FALSE)
               /\ IsStateEvent(q[1]) => Tracks(x, q[1].value = "STANDBY")
    <2>1. CASE i = 1
      <3>1. \A j \in 1..Len(r) : ~IsStateEvent(r[j])
        BY <1>2, <1>5, <2>1
      <3>2. IsStateEvent(q[1]) /\ q[1].value = d.state
        BY <1>1, <1>5, <2>1, EventKinds DEF StateEvent
      <3> QED
        BY <1>3, <3>1, <3>2 DEF Tracks
    <2>2. CASE i > 1
      <3>1. i - 1 \in 1..Len(r) /\ r[i - 1] = StateEvent(d.state)
        BY <1>2, <1>5, <2>2
      <3>2. \A j \in 1..Len(r) : j > i - 1 => ~IsStateEvent(r[j])
        BY <1>2, <1>5, <2>2
      <3> QED
        BY <1>3, <3>1, <3>2 DEF Tracks
    <2>3. i = 1 \/ i > 1
      BY <1>2
    <2> QED
      BY <2>1, <2>2, <2>3
  <1> QED
    BY <1>2, <1>4, <1>5 DEF Tracks, q, x

-----------------------------------------------------------------------------
(***************************************************************************)
(* The boot flags.                                                         *)
(***************************************************************************)
Early == {"description", "connect", "register_access", "register_state"}

\* Before the connection nothing is pending, and no flag is set.
LEMMA InitBoot == Init => BootInv
  <1> SUFFICES ASSUME Init PROVE BootInv
    OBVIOUS
  <1>1. slots["access"] = "none" /\ slots["state"] = "none"
    BY DEF Init, DrcfInit, EventKind
  <1>2. drcf.events = << >> /\ drcf.link = "down"
    BY DEF Init, DrcfInit
  <1>3. ~is_standby /\ ~get_control_access /\ storing = "none"
    BY DEF Init, HwInit
  <1> QED
    BY <1>1, <1>2, <1>3 DEF BootInv, Claims

\* A faithful step that leaves slots and flags alone, past the connection.
LEMMA BootStep ==
    ASSUME BootInv, drcf \in Controller, Faithful(drcf, drcf'),
           Covered(drcf) => Covered(drcf'),
           UNCHANGED <<slots, is_standby, get_control_access, storing>>,
           pc' = pc \/ pc' \notin Early,
           pc' \in {"description", "connect"} => drcf'.events = << >> /\ drcf'.link = "down"
    PROVE  BootInv'
  <1>1. drcf'.link = "up" /\ slots["state"] # "controller" => Tracks(drcf', is_standby)
    <2> SUFFICES ASSUME drcf'.link = "up", slots["state"] # "controller"
                 PROVE  Tracks(drcf', is_standby)
      OBVIOUS
    <2>1. Tracks(drcf, is_standby)
      BY DEF BootInv, Faithful
    <2> QED
      BY <2>1, FaithfulTracks
  <1>2. (slots["state"] # "controller" /\ drcf.link = "up" => Tracks(drcf, is_standby))'
    BY <1>1 DEF Tracks
  <1>3. (slots["access"] # "controller" /\ Claims => Covered(drcf))'
    BY DEF BootInv, Claims, Covered
  <1> QED
    BY <1>2, <1>3 DEF BootInv, Early

\* Nothing but pc may change.
LEMMA BootQuiet ==
    ASSUME BootInv, UNCHANGED <<drcf, slots, is_standby, get_control_access, storing>>,
           pc' = pc \/ pc' \notin Early
    PROVE  BootInv'
  BY DEF BootInv, Early, Tracks, Claims, Covered

\* A step of on_init.
LEMMA HwStepBoot == ASSUME AuthInv, BootInv, HwStep PROVE BootInv'
  <1>0. drcf \in Controller /\ slots \in [EventKind -> Owner] /\ Honest(drcf)
    BY DEF AuthInv, Honest
  <1>1. UNCHANGED <<is_standby, get_control_access, storing>>
    BY DEF HwStep, OnInitStep, CheckDescription, OpenConnection, RegisterAccess,
           RegisterState, LoopCheckAccess, LoopCheckStandby, LoopCheckBoth,
           FinalCheck, Configure, Finish, flags
  <1>2. CASE CheckDescription
    BY <1>1, <1>2 DEF CheckDescription, Return, drcfVars, BootInv, Tracks, Claims, Covered
  <1>3. CASE OpenConnection
    <2>1. CASE UNCHANGED drcf /\ pc' \in {"connect", "returned"}
      BY <1>1, <1>3, <2>1, BootQuiet DEF OpenConnection, Early
    <2>2. CASE drcf' = [drcf EXCEPT !.link = "up"] /\ pc' = "register_access"
      <3>1. drcf'.events = drcf.events
        BY <1>0, <2>2 DEF Controller
      <3>2. drcf.events = << >> /\ slots["access"] = "none" /\ slots["state"] = "none"
            /\ ~is_standby /\ ~get_control_access /\ storing = "none" /\ UNCHANGED slots
        BY <1>3 DEF OpenConnection, BootInv
      <3>3. Tracks(drcf, is_standby)'
        BY <1>1, <3>1, <3>2 DEF Tracks
      <3> QED
        BY <1>1, <2>2, <3>2, <3>3 DEF BootInv, Claims
    <2> QED
      BY <1>3, <2>1, <2>2 DEF OpenConnection, Return
  <1>4. CASE RegisterAccess
    <2>1. slots'["access"] = "hw" /\ slots'["state"] = slots["state"]
      BY <1>0, <1>4 DEF RegisterAccess, EventKind
    <2>2. pc = "register_access" /\ pc' = "register_state" /\ UNCHANGED drcf
      BY <1>4 DEF RegisterAccess, Goto
    <2> QED
      BY <1>1, <2>1, <2>2 DEF BootInv, Tracks, Claims, Covered
  <1>5. CASE RegisterState
    <2>1. slots'["state"] = "hw" /\ slots'["access"] = slots["access"]
      BY <1>0, <1>5 DEF RegisterState, EventKind
    <2>2. pc = "register_state" /\ pc' = "loop" /\ UNCHANGED drcf
      BY <1>5 DEF RegisterState, Goto
    <2> QED
      BY <1>1, <2>1, <2>2 DEF BootInv, Tracks, Claims, Covered
  <1>6. CASE LoopCheckAccess
    <2>1. drcf' = drcf \/ drcf' \in ForceRequest(drcf)
      BY <1>6 DEF LoopCheckAccess
    <2>2. Faithful(drcf, drcf')
      BY <1>0, <2>1, FaithfulSelf, FaithfulCalls
    <2>3. Covered(drcf) => Covered(drcf')
      BY <1>0, <2>1, ForceRequestIsGrant, QuietKeeps, GrantedKeeps
    <2>4. UNCHANGED slots /\ pc' \notin Early
      BY <1>6 DEF LoopCheckAccess, NextIteration, Early
    <2> QED
      BY <1>0, <1>1, <2>2, <2>3, <2>4, BootStep DEF Early
  <1>7. CASE LoopCheckStandby
    <2>1. drcf' = drcf \/ drcf' \in SetRobotControl(drcf, "SERVO_ON")
      BY <1>7 DEF LoopCheckStandby
    <2>2. Faithful(drcf, drcf')
      BY <1>0, <2>1, FaithfulSelf, FaithfulCalls
    <2>3. Covered(drcf) => Covered(drcf')
      BY <1>0, <2>1, ControlIsQuiet, QuietKeeps
    <2>4. UNCHANGED slots /\ pc' \notin Early
      BY <1>7 DEF LoopCheckStandby, NextIteration, Early
    <2> QED
      BY <1>0, <1>1, <2>2, <2>3, <2>4, BootStep DEF Early
  <1>8. CASE LoopCheckBoth
    <2>1. pc' \notin Early /\ UNCHANGED <<drcf, slots>>
      BY <1>8 DEF LoopCheckBoth, NextIteration, Early, drcfVars
    <2> QED
      BY <1>1, <2>1, BootQuiet
  <1>9. CASE FinalCheck \/ Finish
    <2>1. pc' \notin Early /\ UNCHANGED <<drcf, slots>>
      BY <1>9 DEF FinalCheck, Finish, Return, Early, drcfVars
    <2> QED
      BY <1>1, <2>1, BootQuiet
  <1>10. CASE Configure
    <2>1. /\ pc' \notin Early /\ UNCHANGED slots
          /\ drcf' = drcf \/ drcf' = [drcf EXCEPT !.rt = TRUE]
      BY <1>10 DEF Configure, Return, Early
    <2>2. /\ drcf'.link = drcf.link /\ drcf'.holder = drcf.holder
          /\ drcf'.events = drcf.events /\ drcf'.state = drcf.state
      BY <1>0, <2>1 DEF Controller
    <2>3. Tracks(drcf, is_standby)' <=> Tracks(drcf, is_standby)
      BY <1>1, <2>2 DEF Tracks
    <2>4. Covered(drcf)' <=> Covered(drcf)
      BY <2>2 DEF Covered
    <2> QED
      BY <1>1, <2>1, <2>2, <2>3, <2>4 DEF BootInv, Claims, Early
  <1> QED
    BY <1>2, <1>3, <1>4, <1>5, <1>6, <1>7, <1>8, <1>9, <1>10 DEF HwStep, OnInitStep

\* What the robot controller, the pendant and the plant do.
LEMMA EnvironmentBoot == ASSUME AuthInv, BootInv, Environment PROVE BootInv'
  <1>0. drcf \in Controller /\ Honest(drcf) /\ DrcfNext
    BY DEF AuthInv, Honest, Environment
  <1>1. UNCHANGED <<pc, is_standby, get_control_access, storing>>
    BY DEF Environment, hwVars
  <1>2. Faithful(drcf, drcf') /\ UNCHANGED slots
    BY <1>0, EnvironmentFaithful
  <1>3. Covered(drcf) => Covered(drcf')
    BY <1>0, EnvironmentKeeps
  <1>4. drcf.link = "down" => drcf'.link = "down" /\ drcf'.events = drcf.events
    <2> SUFFICES ASSUME drcf.link = "down"
                 PROVE  drcf'.link = "down" /\ drcf'.events = drcf.events
      OBVIOUS
    <2>1. DrcfBoot \/ PendantReady
      BY <1>0 DEF DrcfNext, ReportState, PendantTakes, PendantAsks, PendantReleases,
                  PendantServoOn, Fault, LinkLost, Disturb, Up
    <2> QED
      BY <1>0, <2>1 DEF DrcfBoot, PendantReady, Tell, Controller
  <1>5. pc' \in {"description", "connect"} => drcf'.events = << >> /\ drcf'.link = "down"
    BY <1>1, <1>4 DEF BootInv
  <1> QED
    BY <1>0, <1>1, <1>2, <1>3, <1>5, BootStep

\* The delivery of an event.
LEMMA DeliverBoot == ASSUME AuthInv, BootInv, Deliver PROVE BootInv'
  <1> DEFINE e     == Head(drcf.events)
             d     == [drcf EXCEPT !.events = Tail(@)]
             owner == slots[e.kind]
  <1>0. drcf \in Controller /\ Honest(drcf) /\ drcf.events # << >>
    BY DEF AuthInv, Honest, Deliver
  <1>1. /\ Honest(d)
        /\ d.link = drcf.link
        /\ Covered(drcf) /\ e # LOSS => Covered(d)
        /\ e = GRANT => Covered(d)
    BY <1>0, PopFacts
  <1>2. ASSUME NEW b, Tracks(drcf, b)
        PROVE  /\ ~IsStateEvent(e) => Tracks(d, b)
               /\ Tracks(d, FALSE)
               /\ IsStateEvent(e) => Tracks(d, e.value = "STANDBY")
    BY <1>0, <1>2, PopTracks
  <1>3. d \in Controller /\ e \in Event
    <2>1. drcf.events \in Seq(Event)
      BY <1>0 DEF Controller
    <2> QED
      BY <1>0, <1>1, <2>1 DEF Honest
  <1>4. pc \notin {"description", "connect"} /\ storing = "none"
    BY <1>0 DEF BootInv, Deliver
  <1>5. /\ UNCHANGED <<slots, pc>>
        /\ \/ owner = "none" /\ drcf' = d /\ UNCHANGED <<hwVars, ctrlVars>>
           \/ /\ owner = "hw" /\ e.kind = "access" /\ drcf' = d
              /\ HwOnAccessControl(e.value) /\ UNCHANGED ctrlVars
           \/ /\ owner = "hw" /\ e.kind = "state" /\ drcf' = d
              /\ HwOnState(e.value) /\ UNCHANGED ctrlVars
           \/ /\ owner = "controller" /\ e.kind = "access"
              /\ OnMonitoringAccessControlCB(e.value, d) /\ UNCHANGED hwVars
           \/ /\ owner = "controller" /\ e.kind = "state"
              /\ CtrlOnState(e.value, d) /\ UNCHANGED hwVars
           \/ /\ owner = "controller" /\ e.kind = "tp_init"
              /\ OnTpInitializingCompletedCB(d) /\ UNCHANGED hwVars
           \/ /\ owner = "controller" /\ e.kind = "link"
              /\ OnDisConnected(d) /\ UNCHANGED hwVars
    BY DEF Deliver, hwVars, HwOnAccessControl, HwOnState
  <1>6. (e = LOSS \/ e = GRANT) => e.kind = "access"
    BY DEF LOSS, GRANT, AccessEvent
  <1>7. /\ e.kind = "access" /\ e.value = "GRANT" => e = GRANT
        /\ e.kind = "access" /\ e.value # "LOSS" => e # LOSS
        /\ e.kind = "access" => e.value \in ACCESS_CONTROL
        /\ e.kind = "access" => ~IsStateEvent(e)
    BY <1>3, EventKinds DEF GRANT, LOSS, AccessEvent, IsStateEvent
  <1> HIDE DEF d, e, owner
  <1>8. ASSUME slots["state"] = "none" => ~is_standby',
               slots["access"] = "none" => ~get_control_access' /\ storing' = "none",
               slots["state"] # "controller" /\ drcf'.link = "up"
                   => Tracks(drcf', is_standby'),
               slots["access"] # "controller" /\ Claims' => Covered(drcf')
        PROVE  BootInv'
    BY <1>4, <1>5, <1>8 DEF BootInv, Tracks, Claims, Covered
  <1>9. CASE owner = "none" /\ drcf' = d /\ UNCHANGED <<hwVars, ctrlVars>>
    <2>1. UNCHANGED <<is_standby, get_control_access, storing>>
      BY <1>9 DEF hwVars
    <2>2. slots["state"] # "controller" /\ drcf'.link = "up" => Tracks(d, is_standby)
      <3> SUFFICES ASSUME slots["state"] # "controller", drcf'.link = "up"
                   PROVE  Tracks(d, is_standby)
        OBVIOUS
      <3>1. Tracks(drcf, is_standby)
        BY <1>1, <1>9 DEF BootInv
      <3>2. CASE ~IsStateEvent(e)
        BY <1>2, <3>1, <3>2
      <3>3. CASE IsStateEvent(e)
        <4>1. ~is_standby
          BY <1>9, <3>3 DEF BootInv, IsStateEvent, owner
        <4>2. Tracks(d, FALSE)
          BY <1>2, <3>1
        <4> QED
          BY <4>1, <4>2 DEF Tracks
      <3> QED
        BY <3>2, <3>3
    <2>3. get_control_access => e # LOSS
      BY <1>6, <1>9 DEF BootInv, owner
    <2> QED
      BY <1>1, <1>4, <1>8, <1>9, <2>1, <2>2, <2>3 DEF BootInv, Claims
  <1>10. CASE /\ owner = "hw" /\ e.kind = "access" /\ drcf' = d
              /\ HwOnAccessControl(e.value) /\ UNCHANGED ctrlVars
    <2>1. slots["access"] = "hw"
      BY <1>10 DEF owner
    <2>2. CASE e.value \in {"GRANT", "LOSS"}
      <3>1. \/ /\ get_control_access' = (e.value = "GRANT")
               /\ storing' = "standby" /\ is_standby' = is_standby
            \/ is_standby' = FALSE /\ storing' = e.value
        BY <1>10, <2>2 DEF HwOnAccessControl
      <3>2. slots["state"] # "controller" /\ drcf'.link = "up" => Tracks(d, FALSE)
        BY <1>1, <1>2, <1>10 DEF BootInv
      <3>3. slots["state"] # "controller" /\ drcf'.link = "up" => Tracks(d, is_standby)
        BY <1>1, <1>2, <1>7, <1>10 DEF BootInv
      <3>4. slots["state"] # "controller" /\ drcf'.link = "up" => Tracks(d, is_standby')
        BY <3>1, <3>2, <3>3
      <3>5. Claims' => e.value = "GRANT"
        BY <2>2, <3>1 DEF Claims
      <3>6. Claims' => Covered(d)
        BY <1>1, <1>7, <1>10, <3>5
      <3>7. slots["state"] = "none" => ~is_standby'
        BY <3>1 DEF BootInv
      <3> QED
        BY <1>8, <1>10, <2>1, <3>4, <3>6, <3>7
    <2>3. CASE e.value \notin {"GRANT", "LOSS"}
      <3>1. UNCHANGED <<is_standby, get_control_access, storing>>
        BY <1>10, <2>3 DEF HwOnAccessControl, flags
      <3>2. slots["state"] # "controller" /\ drcf'.link = "up" => Tracks(d, is_standby)
        BY <1>1, <1>2, <1>7, <1>10 DEF BootInv
      <3>3. Claims => Covered(d)
        BY <1>1, <1>7, <1>10, <2>1, <2>3 DEF BootInv
      <3> QED
        BY <1>8, <1>10, <2>1, <3>1, <3>2, <3>3 DEF BootInv, Claims
    <2> QED
      BY <2>2, <2>3
  <1>11. CASE /\ owner = "hw" /\ e.kind = "state" /\ drcf' = d
              /\ HwOnState(e.value) /\ UNCHANGED ctrlVars
    <2>1. slots["state"] = "hw" /\ IsStateEvent(e) /\ e # LOSS
      BY <1>6, <1>11 DEF owner, IsStateEvent
    <2>2. is_standby' = (e.value = "STANDBY") /\ UNCHANGED <<get_control_access, storing>>
      BY <1>11 DEF HwOnState
    <2>3. drcf'.link = "up" => Tracks(d, e.value = "STANDBY")
      BY <1>1, <1>2, <1>11, <2>1 DEF BootInv
    <2>4. drcf'.link = "up" => Tracks(drcf', is_standby')
      BY <1>11, <2>2, <2>3
    <2> QED
      BY <1>1, <1>8, <1>11, <2>1, <2>2, <2>4 DEF BootInv, Claims
  <1>12. CASE /\ owner = "controller" /\ e.kind = "access"
              /\ OnMonitoringAccessControlCB(e.value, d) /\ UNCHANGED hwVars
    <2>1. /\ slots["access"] = "controller"
          /\ UNCHANGED <<is_standby, get_control_access, storing>>
      BY <1>12 DEF owner, hwVars
    <2>2. Faithful(d, drcf')
      <3>1. \/ drcf' = d \/ drcf' \in Request(d)
            \/ \E c : drcf' \in SetRobotControl(d, c)
        BY <1>12 DEF OnMonitoringAccessControlCB, OnAccessGrant, OnAccessLoss,
                     OnMonitoringStateCB, ResponseNo
      <3> QED
        BY <1>3, <3>1, FaithfulSelf, FaithfulCalls
    <2>3. slots["state"] # "controller" /\ drcf'.link = "up" => Tracks(drcf', is_standby)
      <3> SUFFICES ASSUME slots["state"] # "controller", drcf'.link = "up"
                   PROVE  Tracks(drcf', is_standby)
        OBVIOUS
      <3>1. Tracks(d, is_standby)
        BY <1>1, <1>2, <1>7, <1>12, <2>2 DEF BootInv, Faithful
      <3> QED
        BY <1>3, <2>2, <3>1, FaithfulTracks
    <2> QED
      BY <1>8, <2>1, <2>3 DEF BootInv
  <1>13. CASE /\ owner = "controller" /\ e.kind = "state"
              /\ CtrlOnState(e.value, d) /\ UNCHANGED hwVars
    <2>1. /\ slots["state"] = "controller"
          /\ UNCHANGED <<is_standby, get_control_access, storing>>
      BY <1>13 DEF owner, hwVars
    <2>2. Covered(d) => Covered(drcf')
      BY <1>1, <1>3, <1>13, StateCallbackIsQuiet, QuietKeeps DEF CtrlOnState
    <2>3. e # LOSS
      BY <1>6, <1>13
    <2> QED
      BY <1>1, <1>8, <2>1, <2>2, <2>3 DEF BootInv, Claims
  <1>14. CASE /\ owner = "controller" /\ e.kind = "tp_init"
              /\ OnTpInitializingCompletedCB(d) /\ UNCHANGED hwVars
    <2>1. drcf' = d /\ UNCHANGED <<is_standby, get_control_access, storing>>
      BY <1>14 DEF OnTpInitializingCompletedCB, hwVars
    <2>2. e # LOSS /\ ~IsStateEvent(e)
      BY <1>6, <1>14 DEF IsStateEvent
    <2>3. slots["state"] # "controller" /\ drcf'.link = "up" => Tracks(d, is_standby)
      BY <1>1, <1>2, <2>1, <2>2 DEF BootInv
    <2> QED
      BY <1>1, <1>8, <2>1, <2>2, <2>3 DEF BootInv, Claims
  <1>15. CASE /\ owner = "controller" /\ e.kind = "link"
              /\ OnDisConnected(d) /\ UNCHANGED hwVars
    <2>1. drcf' = Close(d) /\ UNCHANGED <<is_standby, get_control_access, storing>>
      BY <1>15 DEF OnDisConnected, hwVars
    <2>2. Covered(drcf')
      BY <1>3, <2>1, CloseKeeps
    <2>3. drcf'.link = "closed"
      BY <1>3, <2>1 DEF Close, Controller
    <2> QED
      BY <1>8, <2>1, <2>2, <2>3 DEF BootInv
  <1> QED
    BY <1>5, <1>9, <1>10, <1>11, <1>12, <1>13, <1>14, <1>15

\* Every step keeps the flags truthful.
LEMMA NextBoot == AuthInv /\ BootInv /\ [Next]_vars => BootInv'
  <1> SUFFICES ASSUME AuthInv, BootInv, [Next]_vars PROVE BootInv'
    OBVIOUS
  <1>1. CASE UNCHANGED vars
    BY <1>1, BootQuiet DEF vars, drcfVars, hwVars
  <1>2. CASE ConfigureController
    <2>1. pc = "returned" /\ UNCHANGED <<drcf, hwVars>>
      BY <1>2 DEF AuthInv, ConfigureController, on_configure
    <2>2. PICK k : slots' = [slots EXCEPT ![k] = "controller"]
      BY <1>2 DEF ConfigureController, on_configure
    <2>3. \A x \in {"access", "state"} : slots'[x] = slots[x] \/ slots'[x] = "controller"
      BY <2>2 DEF AuthInv, EventKind
    <2> QED
      BY <2>1, <2>3 DEF BootInv, hwVars, Tracks, Claims, Covered
  <1>3. CASE Destroy
    <2>1. /\ drcf' = Close(drcf) /\ pc = "returned"
          /\ UNCHANGED <<pc, slots, is_standby, get_control_access, storing>>
      BY <1>3 DEF Destroy, Destructor, flags
    <2>2. Covered(drcf')
      BY <2>1, CloseKeeps DEF AuthInv, Honest
    <2>3. drcf'.link = "closed"
      BY <2>1 DEF AuthInv, Honest, Close, Controller
    <2> QED
      BY <2>1, <2>2, <2>3 DEF BootInv, Claims, Covered
  <1>4. CASE FinishCallback
    <2>1. /\ UNCHANGED <<drcf, slots, pc>> /\ storing # "none" /\ storing' = "none"
          /\ is_standby' => is_standby
      BY <1>4 DEF FinishCallback, HwSecondStore, drcfVars
    <2>2. Claims' => Claims
      BY <1>4 DEF FinishCallback, HwSecondStore, Claims
    <2>3. slots["access"] # "none"
      BY <2>1 DEF BootInv
    <2>4. Tracks(drcf, is_standby) => Tracks(drcf, is_standby)'
      BY <2>1 DEF Tracks
    <2>5. Covered(drcf) => Covered(drcf)'
      BY <2>1 DEF Covered
    <2> QED
      BY <2>1, <2>2, <2>3, <2>4, <2>5 DEF BootInv
  <1> QED
    BY <1>1, <1>2, <1>3, <1>4, HwStepBoot, EnvironmentBoot, DeliverBoot DEF Next

\* For every interleaving of on_init, DRFL's thread and the pendant, every fault
\* and any number of events: with both lambdas installed, nothing pending and
\* the access lambda between no two stores, get_control_access means that ROS holds the authority, and both flags mean
\* that the robot is in STANDBY (dsr_hw_interface2.cpp:157-177).
THEOREM BootFlagsAreTruthful == Spec => []BootFlagsTruthful
  <1>1. AuthInv /\ BootInv => BootFlagsTruthful
    <2> SUFFICES ASSUME AuthInv, BootInv, Drained, storing = "none",
                        slots["access"] = "hw", slots["state"] = "hw"
                 PROVE  /\ get_control_access => drcf.holder = "ros"
                        /\ get_control_access /\ is_standby => drcf.state = "STANDBY"
      BY DEF BootFlagsTruthful
    <2>1. ~HasLoss(drcf.events) /\ drcf.link = "up" /\ drcf.events = << >>
      BY DEF Drained, HasLoss
    <2>2. get_control_access => drcf.holder # "pendant"
      BY <2>1 DEF BootInv, Claims, Covered
    <2>3. drcf.holder \in {"ros", "pendant"}
      BY DEF AuthInv, Honest, Controller
    <2>4. Tracks(drcf, is_standby)
      BY <2>1 DEF BootInv
    <2>5. is_standby => drcf.state = "STANDBY"
      BY <2>1, <2>4 DEF Tracks
    <2> QED
      BY <2>2, <2>3, <2>5
  <1> QED
    BY <1>1, InitAuth, NextAuth, InitBoot, NextBoot, PTL DEF Spec

-----------------------------------------------------------------------------
(***************************************************************************)
(* What a successful on_init has done.                                     *)
(***************************************************************************)
\* start_rt_control is the seventh call of a real bring-up, and of no other.
LEMMA RtInScript ==
    /\ Len(Script) \in Nat
    /\ Mode = "real" => /\ RtCall \in 1..Len(Script)
                        /\ Script[RtCall] = "start_rt_control"
    /\ \A i \in 1..Len(Script) :
           Script[i] = "start_rt_control" => Mode = "real" /\ i = RtCall
  <1> DEFINE Common == <<"get_system_version", "GetRobotState", "SetRobotMode",
                         "SetRobotSystem">>
             Calls == {"get_system_version", "GetRobotState", "SetRobotMode",
                       "SetRobotSystem", "connect_rt_control",
                       "set_rt_control_output", "start_rt_control",
                       "set_velj_rt", "set_accj_rt"}
  <1>0. /\ Common \in Seq(Calls) /\ Len(Common) = 4
        /\ Common[1] = "get_system_version" /\ Common[2] = "GetRobotState"
        /\ Common[3] = "SetRobotMode" /\ Common[4] = "SetRobotSystem"
    OBVIOUS
  <1>1. CASE Mode = "real"
    <2>1. Script = Common \o RtScript
      BY <1>1 DEF Script
    <2>2. /\ RtScript \in Seq(Calls) /\ Len(RtScript) = 5
          /\ RtScript[1] = "connect_rt_control" /\ RtScript[2] = "set_rt_control_output"
          /\ RtScript[3] = "start_rt_control" /\ RtScript[4] = "set_velj_rt"
          /\ RtScript[5] = "set_accj_rt"
      BY DEF RtScript
    <2> HIDE DEF Common, Calls
    <2>3. /\ Len(Script) = Len(Common) + Len(RtScript)
          /\ \A i \in 1..(Len(Common) + Len(RtScript)) :
                 Script[i] = IF i <= Len(Common) THEN Common[i] ELSE RtScript[i - Len(Common)]
      BY <1>0, <2>1, <2>2, ConcatProperties, ZenonT(60)
    <2>4. /\ Len(Script) = 9
           /\ \A i \in 1..9 : Script[i] = IF i <= 4 THEN Common[i] ELSE RtScript[i - 4]
      BY <1>0, <2>2, <2>3
    <2>5. \A i \in 1..9 : i \in {1, 2, 3, 4} \/ i - 4 \in {1, 2, 3, 4, 5}
      OBVIOUS
    <2>6. ASSUME NEW i \in 1..9, Script[i] = "start_rt_control" PROVE i = RtCall
      <3>1. CASE i \in {1, 2, 3, 4}
        BY <1>0, <2>4, <2>6, <3>1
      <3>2. CASE i - 4 \in {1, 2, 3, 4, 5}
        <4>1. i \in 5..9 /\ Script[i] = RtScript[i - 4]
          BY <2>4, <3>2
        <4>2. i - 4 = 3
          BY <2>2, <2>6, <3>2, <4>1
        <4> QED
          BY <4>2 DEF RtCall
      <3> QED
        BY <2>5, <3>1, <3>2
    <2>7. RtCall \in 5..9 /\ RtCall - 4 = 3 /\ RtCall \in 1..9
      BY DEF RtCall
    <2> QED
      BY <1>1, <2>2, <2>4, <2>6, <2>7
  <1>2. CASE Mode = "virtual"
    <2>1. Script = Common \o << >>
      BY <1>2 DEF Script
    <2> HIDE DEF Common, Calls
    <2>2. \A i \in 1..4 : Common[i] # "start_rt_control"
      BY <1>0
    <2>3. Len(Script) = 4 /\ \A i \in 1..4 : Script[i] = Common[i]
      BY <1>0, <2>1
    <2> QED
      BY <1>2, <2>2, <2>3
  <1> QED
    BY <1>1, <1>2, ModeAssumption

\* A step that leaves on_init alone.
LEMMA ReadyStep ==
    ASSUME ReadyInv, Faithful(drcf, drcf') \/ (drcf'.link # "up" /\ ~drcf'.rt),
           UNCHANGED <<applied, step, result, pc>>
    PROVE  ReadyInv'
  BY DEF ReadyInv, Faithful

\* A configuration call: one more is applied, or on_init fails.
LEMMA ConfigureReady ==
    ASSUME ReadyInv, drcf \in Controller, step \in 0..Len(Script), Configure
    PROVE  ReadyInv'
  <1>0. /\ pc = "configure" /\ step < Len(Script) /\ Len(Script) \in Nat
        /\ step + 1 \in 1..Len(Script)
    BY RtInScript DEF Configure
  <1>1. CASE /\ Return(FailureOf(NextCall)) /\ UNCHANGED <<step, applied, drcf>>
    <2>1. result' # "SUCCESS" /\ pc' = "returned"
      BY <1>1 DEF Return, FailureOf
    <2> QED
      BY <1>1, <2>1 DEF ReadyInv
  <1>2. CASE /\ step' = step + 1 /\ applied' = applied \union {NextCall}
             /\ drcf' = (IF NextCall = "start_rt_control"
                         THEN [drcf EXCEPT !.rt = TRUE] ELSE drcf)
             /\ UNCHANGED <<pc, result>>
    <2>1. applied' = {Script[i] : i \in 1..step'}
      BY <1>0, <1>2 DEF ReadyInv, NextCall
    <2>2. result' # "SUCCESS"
      BY <1>0, <1>2 DEF ReadyInv
    <2>3. CASE NextCall = "start_rt_control"
      <3>1. drcf'.rt = TRUE
        BY <1>2, <2>3 DEF Controller
      <3>2. Mode = "real"
        BY <1>0, <2>3, RtInScript DEF NextCall
      <3> QED
        BY <1>0, <1>2, <2>1, <2>2, <3>1, <3>2 DEF ReadyInv
    <2>4. CASE NextCall # "start_rt_control"
      <3>1. Mode = "real" => step + 1 # RtCall
        BY <1>0, <2>4, RtInScript DEF NextCall
      <3>2. Mode = "real" /\ step' >= RtCall => step >= RtCall
        BY <1>0, <1>2, <3>1 DEF RtCall
      <3> QED
        BY <1>0, <1>2, <2>1, <2>2, <2>4, <3>2 DEF ReadyInv
    <2> QED
      BY <2>3, <2>4
  <1> QED
    BY <1>1, <1>2 DEF Configure

\* The other steps of on_init.
LEMMA HwStepReady ==
    ASSUME AuthInv, HwTypeOK, ReadyInv, HwStep
    PROVE  ReadyInv'
  <1>0. drcf \in Controller /\ step \in 0..Len(Script) /\ Len(Script) \in Nat
    BY RtInScript DEF AuthInv, Honest, HwTypeOK
  <1>1. CASE Configure
    BY <1>0, <1>1, ConfigureReady
  <1>2. CASE Finish
    BY <1>2 DEF Finish, Return, ReadyInv, drcfVars
  <1>3. CASE OpenConnection
    <2>1. /\ step = 0 /\ UNCHANGED <<applied, step>>
          /\ result' = "ERROR" \/ UNCHANGED result
          /\ pc' = "returned" \/ pc' # "description"
      BY <1>3 DEF OpenConnection, Return, ReadyInv
    <2>2. drcf'.rt = drcf.rt
      BY <1>0, <1>3 DEF OpenConnection, Controller
    <2> QED
      BY <1>0, <2>1, <2>2 DEF ReadyInv, RtCall
  <1>4. CASE CheckDescription \/ RegisterAccess \/ RegisterState \/ LoopCheckBoth \/ FinalCheck
    <2>1. UNCHANGED <<applied, step, drcf>>
      BY <1>4 DEF CheckDescription, RegisterAccess, RegisterState, LoopCheckBoth,
                  FinalCheck, drcfVars
    <2>2. result' = "ERROR" \/ UNCHANGED result
      BY <1>4 DEF CheckDescription, RegisterAccess, RegisterState, LoopCheckBoth,
                  FinalCheck, Return
    <2>3. pc' \in {"description", "connect"} => pc \in {"description", "connect"}
      BY <1>4 DEF CheckDescription, RegisterAccess, RegisterState, LoopCheckBoth,
                  FinalCheck, Return, Goto, NextIteration
    <2> QED
      BY <2>1, <2>2, <2>3 DEF ReadyInv
  <1>5. CASE LoopCheckAccess \/ LoopCheckStandby
    <2>1. \/ drcf' = drcf \/ drcf' \in ForceRequest(drcf)
          \/ drcf' \in SetRobotControl(drcf, "SERVO_ON")
      BY <1>5 DEF LoopCheckAccess, LoopCheckStandby
    <2>2. Faithful(drcf, drcf')
      BY <1>0, <2>1, FaithfulSelf, FaithfulCalls
    <2>3. UNCHANGED <<applied, step, result>> /\ pc' \notin {"description", "connect"}
      BY <1>5 DEF LoopCheckAccess, LoopCheckStandby, NextIteration
    <2> QED
      BY <2>2, <2>3 DEF ReadyInv, Faithful
  <1> QED
    BY <1>1, <1>2, <1>3, <1>4, <1>5 DEF HwStep, OnInitStep

\* A delivery leaves the RT stream alone, or closes the link with it.
LEMMA DeliverReady == ASSUME AuthInv, ReadyInv, Deliver PROVE ReadyInv'
  <1> DEFINE e == Head(drcf.events)
             d == [drcf EXCEPT !.events = Tail(@)]
  <1>0. drcf \in Controller /\ Honest(drcf) /\ drcf.events # << >>
    BY DEF AuthInv, Honest, Deliver
  <1>1. d \in Controller
    BY <1>0, PopFacts DEF Honest
  <1>2. d.rt = drcf.rt /\ d.link = drcf.link
    BY <1>0 DEF Controller
  <1>3. UNCHANGED <<applied, step, result, pc>>
    BY DEF Deliver, hwVars, HwOnAccessControl, HwOnState
  <1>4. \/ drcf' = d \/ drcf' = Close(d) \/ drcf' \in Request(d)
        \/ \E c : drcf' \in SetRobotControl(d, c)
    BY DEF Deliver, OnMonitoringAccessControlCB, OnAccessGrant, OnAccessLoss, CtrlOnState,
           OnMonitoringStateCB, ResponseNo, OnTpInitializingCompletedCB, OnDisConnected
  <1> HIDE DEF d, e
  <1>5. CASE drcf' = Close(d)
    <2>1. drcf'.link = "closed" /\ drcf'.rt = FALSE
      BY <1>1, <1>5 DEF Close, Controller
    <2> QED
      BY <1>3, <2>1, ReadyStep
  <1>6. CASE drcf' # Close(d)
    <2>1. Faithful(d, drcf')
      BY <1>1, <1>4, <1>6, FaithfulSelf, FaithfulCalls
    <2> QED
      BY <1>2, <1>3, <2>1 DEF ReadyInv, Faithful
  <1> QED
    BY <1>5, <1>6

\* Every step.
LEMMA NextReady == AuthInv /\ HwTypeOK /\ ReadyInv /\ [Next]_vars => ReadyInv'
  <1> SUFFICES ASSUME AuthInv, HwTypeOK, ReadyInv, [Next]_vars PROVE ReadyInv'
    OBVIOUS
  <1>0. drcf \in Controller
    BY DEF AuthInv, Honest
  <1>1. CASE UNCHANGED vars \/ ConfigureController \/ FinishCallback
    BY <1>0, <1>1, FaithfulSelf, ReadyStep
    DEF vars, drcfVars, hwVars, ConfigureController, on_configure, FinishCallback,
        HwSecondStore
  <1>2. CASE Destroy
    <2>1. drcf' = Close(drcf) /\ UNCHANGED <<pc, applied, step, result>>
      BY <1>2 DEF Destroy, Destructor
    <2>2. drcf'.link = "closed" /\ drcf'.rt = FALSE
      BY <1>0, <2>1 DEF Close, Controller
    <2> QED
      BY <2>1, <2>2, ReadyStep
  <1>3. CASE Environment
    <2>1. Faithful(drcf, drcf') /\ UNCHANGED <<pc, applied, step, result>>
      BY <1>0, <1>3, EnvironmentFaithful DEF Environment, hwVars
    <2> QED
      BY <2>1, ReadyStep
  <1> QED
    BY <1>1, <1>2, <1>3, HwStepReady, DeliverReady DEF Next

\* For both modes, every fault set and every number of retries and
\* interferences: on_init returns SUCCESS only when every call of the mode's
\* script took effect, no virtual bring-up starts the RT stream, and after a
\* real one it runs until the link goes (dsr_hw_interface2.cpp:229-282).
THEOREM SuccessIsReady == Spec => []ReadyOnSuccess
  <1>1. Init => ReadyInv
    <2> SUFFICES ASSUME Init PROVE ReadyInv
      OBVIOUS
    <2>1. step = 0 /\ applied = {} /\ result = "none" /\ drcf.rt = FALSE
      BY DEF Init, HwInit, DrcfInit
    <2> QED
      BY <2>1 DEF ReadyInv, RtCall
  <1>2. TypeOK /\ ReadyInv => ReadyOnSuccess
    <2> SUFFICES ASSUME TypeOK, ReadyInv PROVE ReadyOnSuccess
      OBVIOUS
    <2>0. drcf.rt \in BOOLEAN
      BY DEF TypeOK, DrcfTypeOK, Controller
    <2>1. result = "SUCCESS" => applied = ScriptCalls
      BY DEF ReadyInv, ScriptCalls
    <2>2. Mode = "real" => Len(Script) >= RtCall
      BY RtInScript DEF RtCall
    <2>3. result = "SUCCESS" /\ drcf.link = "up" => (Mode = "real" => drcf.rt)
      BY <2>2 DEF ReadyInv
    <2>4. drcf.rt => Mode = "real"
      BY DEF ReadyInv
    <2> QED
      BY <2>0, <2>1, <2>3, <2>4 DEF ReadyOnSuccess
  <1>3. TypeOK => HwTypeOK
    BY DEF TypeOK
  <1>4. Spec => []AuthInv
    BY InitAuth, NextAuth, PTL DEF Spec
  <1> QED
    BY <1>1, <1>2, <1>3, <1>4, NextReady, TypesAreSafe, PTL DEF Spec
===============================================================================
