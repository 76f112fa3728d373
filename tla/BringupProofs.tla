----------------------------- MODULE BringupProofs -----------------------------
(***************************************************************************)
(* Proofs about Bringup, for every fault set, retry limit, mode and bound: *)
(* its type invariant, and that the controller never believes in an        *)
(* authority it does not have.                                             *)
(***************************************************************************)
EXTENDS Bringup, TLAPS

(***************************************************************************)
(* DRFL calls keep the controller record well formed.                      *)
(***************************************************************************)

\* An emitted event is appended and nothing else changes.
LEMMA EmitFacts ==
    ASSUME NEW d \in Controller, NEW e \in Event
    PROVE  /\ Emit(d, e) \in Controller
           /\ Emit(d, e).holder = d.holder
           /\ Emit(d, e).link = d.link
           /\ Emit(d, e).state = d.state
           /\ Emit(d, e).events = Append(d.events, e)
  <1>1. d.events \in Seq(Event) /\ Append(d.events, e) \in Seq(Event)
    BY DEF Controller
  <1>2. Emit(d, e) = [d EXCEPT !.events = Append(d.events, e)]
    BY DEF Emit
  <1> QED
    BY <1>1, <1>2 DEF Controller

\* The four kinds of events are events.
LEMMA EventFacts ==
    /\ \A v \in ACCESS_CONTROL : AccessEvent(v) \in Event
    /\ \A s \in ROBOT_STATE : StateEvent(s) \in Event
    /\ TpInitEvent \in Event
    /\ LinkEvent \in Event
  BY DEF Event

\* Access events differ from each other and from all others.
LEMMA EventsDiffer ==
    /\ \A v, w \in ACCESS_CONTROL : AccessEvent(v) = AccessEvent(w) => v = w
    /\ \A v \in ACCESS_CONTROL, s \in ROBOT_STATE : AccessEvent(v) # StateEvent(s)
    /\ \A v \in ACCESS_CONTROL : AccessEvent(v) # TpInitEvent
    /\ \A v \in ACCESS_CONTROL : AccessEvent(v) # LinkEvent
  BY DEF AccessEvent, StateEvent, TpInitEvent, LinkEvent

\* A change of holder appends its event and touches nothing else.
LEMMA SetHolderFacts ==
    ASSUME NEW d \in Controller, NEW who \in {"ros", "pendant"},
           NEW v \in ACCESS_CONTROL
    PROVE  /\ SetHolder(d, who, v) \in Controller
           /\ SetHolder(d, who, v).holder = who
           /\ SetHolder(d, who, v).link = d.link
           /\ SetHolder(d, who, v).events = Append(d.events, AccessEvent(v))
  <1>1. [d EXCEPT !.holder = who] \in Controller
    BY DEF Controller
  <1>2. [d EXCEPT !.holder = who].holder = who
    BY DEF Controller
  <1>3. [d EXCEPT !.holder = who].link = d.link
    BY DEF Controller
  <1>4. [d EXCEPT !.holder = who].events = d.events
    BY DEF Controller
  <1>5. AccessEvent(v) \in Event
    BY EventFacts
  <1> DEFINE x == [d EXCEPT !.holder = who]
  <1>6. SetHolder(d, who, v) = Emit(x, AccessEvent(v))
    BY DEF SetHolder
  <1> HIDE DEF x
  <1> QED
    BY <1>1, <1>2, <1>3, <1>4, <1>5, <1>6, EmitFacts, ZenonT(60) DEF x

\* A change of state reports the new state and touches nothing else.
LEMMA EnterStateFacts ==
    ASSUME NEW d \in Controller, NEW s \in ROBOT_STATE
    PROVE  /\ EnterState(d, s) \in Controller
           /\ EnterState(d, s).holder = d.holder
           /\ EnterState(d, s).link = d.link
           /\ EnterState(d, s).events = Append(d.events, StateEvent(s))
  <1>1. [d EXCEPT !.state = s] \in Controller
    BY DEF Controller
  <1>2. [d EXCEPT !.state = s].holder = d.holder
    BY DEF Controller
  <1>3. [d EXCEPT !.state = s].link = d.link
    BY DEF Controller
  <1>4. [d EXCEPT !.state = s].events = d.events
    BY DEF Controller
  <1>5. StateEvent(s) \in Event
    BY EventFacts
  <1>6. EnterState(d, s) = Emit([d EXCEPT !.state = s], StateEvent(s))
    BY DEF EnterState
  <1> QED
    BY <1>1, <1>2, <1>3, <1>4, <1>5, <1>6, EmitFacts, ZenonT(60)

\* A forced request grants the authority or does nothing.
LEMMA ForceRequestFacts ==
    ASSUME NEW d \in Controller, NEW x \in ForceRequest(d)
    PROVE  x = d \/ (d.link = "up" /\ x = SetHolder(d, "ros", "GRANT"))
  BY DEF ForceRequest, Controller

\* A request is granted, denied or lost.
LEMMA RequestFacts ==
    ASSUME NEW d \in Controller, NEW x \in Request(d)
    PROVE  \/ x = d
           \/ d.link = "up" /\ x = SetHolder(d, "ros", "GRANT")
           \/ d.link = "up" /\ x = Emit(d, AccessEvent("DENY"))
  BY DEF Request, Controller

\* A robot-control command enters a robot state or does nothing.
LEMMA SetRobotControlFacts ==
    ASSUME NEW d \in Controller, NEW c, NEW x \in SetRobotControl(d, c)
    PROVE  \/ x = d
           \/ d.link = "up" /\ \E s \in ROBOT_STATE : x = EnterState(d, s)
  <1>1. \A t \in ControlTransition : t[3] \in ROBOT_STATE
    BY DEF ControlTransition, ROBOT_STATE, AllFaultStates
  <1> QED
    BY <1>1 DEF SetRobotControl

(***************************************************************************)
(* The queue of events and the authority.  Revoked: a LOSS follows every   *)
(* GRANT that is still to be delivered.  It holds whenever the pendant     *)
(* holds the authority, and it is what makes the flag of the controller    *)
(* truthful: a GRANT delivered late is followed by the LOSS that undoes it.*)
(***************************************************************************)
GRANT == AccessEvent("GRANT")
LOSS  == AccessEvent("LOSS")

Revoked(q) ==
    \A i \in 1..Len(q) : q[i] = GRANT => \E j \in 1..Len(q) : j > i /\ q[j] = LOSS

HasLoss(q) == \E i \in 1..Len(q) : q[i] = LOSS

\* A queue to which something other than a GRANT is added stays revoked and
\* keeps its LOSS.
LEMMA AppendOther ==
    ASSUME NEW q \in Seq(Event), NEW e \in Event, e # GRANT
    PROVE  /\ Revoked(q) => Revoked(Append(q, e))
           /\ HasLoss(q) => HasLoss(Append(q, e))
  <1>1. /\ Len(Append(q, e)) = Len(q) + 1
        /\ Len(q) \in Nat
        /\ \A i \in 1..Len(q) : Append(q, e)[i] = q[i]
        /\ Append(q, e)[Len(q) + 1] = e
    OBVIOUS
  <1> DEFINE r == Append(q, e)
  <1> HIDE DEF r
  <1>2. Revoked(q) => Revoked(r)
    <2> SUFFICES ASSUME Revoked(q), NEW i \in 1..Len(r), r[i] = GRANT
                 PROVE  \E j \in 1..Len(r) : j > i /\ r[j] = LOSS
      BY DEF Revoked
    <2>1. i \in 1..Len(q) /\ q[i] = GRANT
      BY <1>1 DEF r
    <2>2. PICK j \in 1..Len(q) : j > i /\ q[j] = LOSS
      BY <2>1 DEF Revoked
    <2> QED
      BY <1>1, <2>2 DEF r
  <1>3. HasLoss(q) => HasLoss(r)
    BY <1>1 DEF HasLoss, r
  <1> QED
    BY <1>2, <1>3 DEF r

\* A queue to which a LOSS is added is revoked.
LEMMA AppendLoss ==
    ASSUME NEW q \in Seq(Event), NEW e, e = LOSS
    PROVE  Revoked(Append(q, e)) /\ HasLoss(Append(q, e))
  <1>0. LOSS # GRANT
    BY EventsDiffer DEF ACCESS_CONTROL, GRANT, LOSS
  <1>1. /\ Len(Append(q, e)) = Len(q) + 1
        /\ Len(q) \in Nat
        /\ Append(q, e)[Len(q) + 1] = e
    OBVIOUS
  <1> QED
    BY <1>0, <1>1 DEF Revoked, HasLoss

\* Taking the oldest event off a revoked queue.
LEMMA TailRevoked ==
    ASSUME NEW q \in Seq(Event), q # << >>
    PROVE  /\ Revoked(q) => Revoked(Tail(q))
           /\ Revoked(q) /\ Head(q) = GRANT => HasLoss(Tail(q))
           /\ HasLoss(q) /\ Head(q) # LOSS => HasLoss(Tail(q))
  <1>1. /\ Len(Tail(q)) = Len(q) - 1
        /\ Len(q) \in Nat \ {0}
        /\ \A i \in 1..(Len(q) - 1) : Tail(q)[i] = q[i + 1]
        /\ Head(q) = q[1]
    OBVIOUS
  <1> DEFINE r == Tail(q)
  <1> HIDE DEF r
  <1>2. ASSUME NEW j \in 1..Len(q), j > 1, q[j] = LOSS
        PROVE  j - 1 \in 1..Len(r) /\ r[j - 1] = LOSS
    BY <1>1, <1>2 DEF r
  <1>3. Revoked(q) => Revoked(r)
    <2> SUFFICES ASSUME Revoked(q), NEW i \in 1..Len(r), r[i] = GRANT
                 PROVE  \E j \in 1..Len(r) : j > i /\ r[j] = LOSS
      BY DEF Revoked
    <2>1. i + 1 \in 1..Len(q) /\ q[i + 1] = GRANT
      BY <1>1 DEF r
    <2>2. PICK j \in 1..Len(q) : j > i + 1 /\ q[j] = LOSS
      BY <2>1 DEF Revoked
    <2>3. j - 1 \in 1..Len(r) /\ r[j - 1] = LOSS
      BY <1>1, <1>2, <2>2
    <2>4. j - 1 > i
      BY <1>1, <2>2 DEF r
    <2> QED
      BY <2>3, <2>4
  <1>4. Revoked(q) /\ Head(q) = GRANT => HasLoss(r)
    BY <1>1, <1>2 DEF Revoked, HasLoss
  <1>5. HasLoss(q) /\ Head(q) # LOSS => HasLoss(r)
    BY <1>1, <1>2 DEF HasLoss
  <1> QED
    BY <1>3, <1>4, <1>5 DEF r

(***************************************************************************)
(* What a step may make of the controller, as far as the authority goes.   *)
(* Honest: the queue is revoked while the pendant holds.  Covered: a set   *)
(* authority flag is true or about to be cleared.  Quiet: the holder is    *)
(* the same and at most one event was added, neither a GRANT nor a LOSS.   *)
(* Granted: ROS holds the authority.                                       *)
(***************************************************************************)
Honest(d) == d \in Controller /\ (d.holder = "pendant" => Revoked(d.events))

Covered(d) == d.link = "up" /\ d.holder = "pendant" => HasLoss(d.events)

Quiet(d, x) ==
    /\ x \in Controller
    /\ x.holder = d.holder
    /\ x.link = d.link
    /\ \/ x.events = d.events
       \/ \E e \in Event : /\ e # GRANT
                           /\ e # LOSS
                           /\ x.events = Append(d.events, e)

Granted(x) == x \in Controller /\ x.holder = "ros"

\* A quiet step keeps the queue honest and a flag covered.
LEMMA QuietKeeps ==
    ASSUME NEW d, NEW x, Honest(d), Quiet(d, x)
    PROVE  Honest(x) /\ (Covered(d) => Covered(x))
  <1>1. d.events \in Seq(Event)
    BY DEF Honest, Controller
  <1>2. CASE x.events = d.events
    BY <1>2 DEF Honest, Covered, Quiet
  <1>3. ASSUME NEW e \in Event, e # GRANT, x.events = Append(d.events, e)
        PROVE  Honest(x) /\ (Covered(d) => Covered(x))
    BY <1>1, <1>3, AppendOther DEF Honest, Covered, Quiet
  <1> QED
    BY <1>2, <1>3 DEF Quiet

\* After a grant ROS holds: there is nothing to show.
LEMMA GrantedKeeps ==
    ASSUME NEW x, Granted(x)
    PROVE  Honest(x) /\ Covered(x)
  BY DEF Granted, Honest, Covered

\* A well-formed controller is quiet towards itself.
LEMMA QuietSelf == ASSUME NEW d \in Controller PROVE Quiet(d, d)
  BY DEF Quiet

\* A controller that has reported anything but a GRANT or a LOSS is quiet.
LEMMA EmitIsQuiet ==
    ASSUME NEW d \in Controller, NEW e \in Event, e # GRANT, e # LOSS
    PROVE  Quiet(d, Emit(d, e))
  BY EmitFacts DEF Quiet

\* Entering a state is quiet.
LEMMA EnterIsQuiet ==
    ASSUME NEW d \in Controller, NEW s \in ROBOT_STATE
    PROVE  Quiet(d, EnterState(d, s))
  <1>1. StateEvent(s) \in Event
    BY EventFacts
  <1>2. StateEvent(s) # GRANT /\ StateEvent(s) # LOSS
    BY EventsDiffer DEF ACCESS_CONTROL, GRANT, LOSS
  <1> QED
    BY <1>1, <1>2, EnterStateFacts DEF Quiet

\* So is every robot-control command.
LEMMA ControlIsQuiet ==
    ASSUME NEW d \in Controller, NEW c, NEW x \in SetRobotControl(d, c)
    PROVE  Quiet(d, x)
  BY SetRobotControlFacts, QuietSelf, EnterIsQuiet

\* A forced request is quiet or grants.
LEMMA ForceRequestIsGrant ==
    ASSUME NEW d \in Controller, NEW x \in ForceRequest(d)
    PROVE  Quiet(d, x) \/ Granted(x)
  <1>1. CASE x = d
    BY <1>1, QuietSelf
  <1>2. CASE x = SetHolder(d, "ros", "GRANT")
    BY <1>2, SetHolderFacts DEF Granted, ACCESS_CONTROL
  <1> QED
    BY <1>1, <1>2, ForceRequestFacts

\* A request is quiet or grants.
LEMMA RequestIsGrant ==
    ASSUME NEW d \in Controller, NEW x \in Request(d)
    PROVE  Quiet(d, x) \/ Granted(x)
  <1>1. CASE x = d
    BY <1>1, QuietSelf
  <1>2. CASE x = SetHolder(d, "ros", "GRANT")
    BY <1>2, SetHolderFacts DEF Granted, ACCESS_CONTROL
  <1>3. CASE x = Emit(d, AccessEvent("DENY"))
    <2>1. AccessEvent("DENY") \in Event
      BY EventFacts DEF ACCESS_CONTROL
    <2>2. AccessEvent("DENY") # GRANT /\ AccessEvent("DENY") # LOSS
      BY EventsDiffer DEF ACCESS_CONTROL, GRANT, LOSS
    <2> QED
      BY <1>3, <2>1, <2>2, EmitIsQuiet
  <1> QED
    BY <1>1, <1>2, <1>3, RequestFacts

(***************************************************************************)
(* The inductive invariant.  The flag is set only by the controller's own  *)
(* callback, which is not installed before on_init has returned; so the    *)
(* steps of on_init, which open the link and ask for the authority, find   *)
(* it FALSE.                                                               *)
(***************************************************************************)
AuthInv ==
    /\ Honest(drcf)
    /\ slots \in [EventKind -> Owner]
    /\ g_bHasControlAuthority => Covered(drcf)
    /\ g_bHasControlAuthority => slots["access"] = "controller"
    /\ slots["access"] = "controller" => pc = "returned"
    /\ result = "SUCCESS" => pc = "returned"

\* The initial state satisfies it.
LEMMA InitAuth == Init => AuthInv
  <1> SUFFICES ASSUME Init PROVE AuthInv
    OBVIOUS
  <1>1. drcf \in Controller
    BY DEF Init, DrcfInit, Controller, ROBOT_STATE
  <1>2. drcf.events = << >>
    BY DEF Init, DrcfInit
  <1>3. Honest(drcf)
    BY <1>1, <1>2 DEF Honest, Revoked
  <1>4. slots \in [EventKind -> Owner] /\ slots["access"] = "none"
    BY DEF Init, DrcfInit, EventKind, Owner
  <1> QED
    BY <1>3, <1>4 DEF AuthInv, Init, HwInit, CtrlInit

\* A step of on_init.
LEMMA HwStepAuth == AuthInv /\ HwStep => AuthInv'
  <1> SUFFICES ASSUME AuthInv, HwStep PROVE AuthInv'
    OBVIOUS
  <1>1. g_bHasControlAuthority' = g_bHasControlAuthority
    BY DEF HwStep, ctrlVars
  <1>2. drcf \in Controller
    BY DEF AuthInv, Honest
  <1>3. ASSUME pc # "returned", Honest(drcf)',
               (slots \in [EventKind -> Owner])',
               slots["access"]' # "controller",
               (result = "SUCCESS" => pc = "returned")'
        PROVE  AuthInv'
    BY <1>1, <1>3 DEF AuthInv
  <1>4. ASSUME pc # "returned", Honest(drcf)', UNCHANGED slots,
               (result = "SUCCESS" => pc = "returned")'
        PROVE  AuthInv'
    BY <1>3, <1>4 DEF AuthInv
  <1>5. CASE CheckDescription
    BY <1>4, <1>5 DEF CheckDescription, Return, AuthInv, drcfVars, Honest
  <1>6. CASE OpenConnection
    <2>1. CASE drcf' = [drcf EXCEPT !.link = "up"] /\ UNCHANGED result
      <3>1. drcf' \in Controller
        BY <1>2, <2>1 DEF Controller
      <3>2. drcf'.holder = drcf.holder /\ drcf'.events = drcf.events
        BY <1>2, <2>1 DEF Controller
      <3>3. Honest(drcf)'
        BY <3>1, <3>2 DEF Honest, AuthInv, Revoked
      <3> QED
        BY <1>4, <1>6, <2>1, <3>3 DEF OpenConnection, AuthInv
    <2>2. CASE UNCHANGED drcf
      BY <1>4, <1>6, <2>2 DEF OpenConnection, Return, AuthInv, Honest
    <2> QED
      BY <1>6, <2>1, <2>2 DEF OpenConnection
  <1>7. CASE RegisterAccess
    <2>1. /\ slots' \in [EventKind -> Owner]
          /\ slots'["access"] = "hw"
      BY <1>7 DEF RegisterAccess, AuthInv, EventKind, Owner
    <2> QED
      BY <1>3, <1>7, <2>1 DEF RegisterAccess, Goto, AuthInv, Honest
  <1>8. CASE RegisterState
    <2>1. /\ slots' \in [EventKind -> Owner]
          /\ slots'["access"] = slots["access"]
      BY <1>8 DEF RegisterState, AuthInv, EventKind, Owner
    <2> QED
      BY <1>3, <1>8, <2>1 DEF RegisterState, Goto, AuthInv, Honest
  <1>9. CASE LoopCheckAccess
    <2>1. drcf' = drcf \/ drcf' \in ForceRequest(drcf)
      BY <1>9 DEF LoopCheckAccess
    <2>2. Honest(drcf')
      BY <1>2, <2>1, ForceRequestIsGrant, QuietKeeps, GrantedKeeps DEF AuthInv
    <2>3. Honest(drcf)'
      BY <2>2 DEF Honest
    <2> QED
      BY <1>4, <1>9, <2>3 DEF LoopCheckAccess, AuthInv
  <1>10. CASE LoopCheckStandby
    <2>1. drcf' = drcf \/ drcf' \in SetRobotControl(drcf, "SERVO_ON")
      BY <1>10 DEF LoopCheckStandby
    <2>2. Honest(drcf')
      BY <1>2, <2>1, ControlIsQuiet, QuietKeeps DEF AuthInv
    <2>3. Honest(drcf)'
      BY <2>2 DEF Honest
    <2> QED
      BY <1>4, <1>10, <2>3 DEF LoopCheckStandby, AuthInv
  <1>11. CASE LoopCheckBoth
    BY <1>4, <1>11 DEF LoopCheckBoth, AuthInv, drcfVars, Honest
  <1>12. CASE FinalCheck
    BY <1>4, <1>12 DEF FinalCheck, Return, AuthInv, drcfVars, Honest
  <1>13. CASE Configure
    <2>1. /\ pc = "configure"
          /\ UNCHANGED slots
          /\ \/ UNCHANGED <<drcf, result>>
             \/ drcf' = [drcf EXCEPT !.rt = TRUE] /\ UNCHANGED result
             \/ UNCHANGED drcf /\ pc' = "returned"
      BY <1>13 DEF Configure, Return
    <2>2. Honest(drcf)'
      <3>1. CASE UNCHANGED drcf
        BY <3>1 DEF Honest, AuthInv
      <3>2. CASE drcf' = [drcf EXCEPT !.rt = TRUE]
        <4>1. drcf' \in Controller
          BY <1>2, <3>2 DEF Controller
        <4>2. drcf'.holder = drcf.holder /\ drcf'.events = drcf.events
          BY <1>2, <3>2 DEF Controller
        <4> QED
          BY <4>1, <4>2 DEF Honest, AuthInv, Revoked
      <3> QED
        BY <2>1, <3>1, <3>2
    <2> QED
      BY <1>4, <2>1, <2>2 DEF AuthInv
  <1>14. CASE Finish
    BY <1>4, <1>14 DEF Finish, Return, AuthInv, drcfVars, Honest
  <1> QED
    BY <1>5, <1>6, <1>7, <1>8, <1>9, <1>10, <1>11, <1>12, <1>13, <1>14
    DEF HwStep, OnInitStep

\* A closed controller is honest, and covers any flag.
LEMMA CloseKeeps ==
    ASSUME NEW d \in Controller
    PROVE  Honest(Close(d)) /\ Covered(Close(d))
  <1>0. << >> \in Seq(Event)
    OBVIOUS
  <1>1. Close(d) \in Controller
    BY <1>0 DEF Close, Controller
  <1>2. Close(d).events = << >> /\ Close(d).link = "closed"
    BY DEF Close, Controller
  <1> QED
    BY <1>1, <1>2 DEF Honest, Covered, Revoked

\* The controller's state callback is quiet.
LEMMA StateCallbackIsQuiet ==
    ASSUME NEW d \in Controller, NEW state, NEW authority,
           OnMonitoringStateCB(state, authority, d)
    PROVE  Quiet(d, drcf')
  BY ControlIsQuiet, QuietSelf DEF OnMonitoringStateCB

\* Taking the oldest event off the queue.
LEMMA PopFacts ==
    ASSUME NEW d, Honest(d), d.events # << >>
    PROVE  LET x == [d EXCEPT !.events = Tail(@)]
           IN  /\ Honest(x)
               /\ x.link = d.link
               /\ Covered(d) /\ Head(d.events) # LOSS => Covered(x)
               /\ Head(d.events) = GRANT => Covered(x)
  <1> DEFINE x == [d EXCEPT !.events = Tail(@)]
  <1>1. d.events \in Seq(Event)
    BY DEF Honest, Controller
  <1>2. Tail(d.events) \in Seq(Event)
    BY <1>1
  <1>3. x \in Controller
    BY <1>2 DEF Honest, Controller
  <1>4. x.link = d.link
    BY DEF Honest, Controller
  <1>5. x.holder = d.holder
    BY DEF Honest, Controller
  <1>6. x.events = Tail(d.events)
    BY DEF Honest, Controller
  <1> HIDE DEF x
  <1>7. Honest(x)
    BY <1>1, <1>3, <1>5, <1>6, TailRevoked DEF Honest
  <1>8. Covered(d) /\ Head(d.events) # LOSS => Covered(x)
    BY <1>1, <1>4, <1>5, <1>6, TailRevoked DEF Covered
  <1>9. Head(d.events) = GRANT => Covered(x)
    BY <1>1, <1>5, <1>6, TailRevoked DEF Covered, Honest
  <1> QED
    BY <1>4, <1>7, <1>8, <1>9 DEF x

\* The delivery of an event.
LEMMA DeliverAuth == AuthInv /\ Deliver => AuthInv'
  <1> SUFFICES ASSUME AuthInv, Deliver PROVE AuthInv'
    OBVIOUS
  <1> DEFINE e     == Head(drcf.events)
             d     == [drcf EXCEPT !.events = Tail(@)]
             owner == slots[e.kind]
  <1>1. /\ Honest(d)
        /\ Covered(drcf) /\ e # LOSS => Covered(d)
        /\ e = GRANT => Covered(d)
    BY PopFacts DEF AuthInv, Deliver
  <1>2. d \in Controller
    BY <1>1 DEF Honest
  <1>3. e \in Event
    <2>1. drcf.events \in Seq(Event)
      BY DEF AuthInv, Honest, Controller
    <2> QED
      BY <2>1 DEF Deliver
  <1>4. /\ UNCHANGED slots
        /\ \/ owner = "none" /\ drcf' = d /\ UNCHANGED <<hwVars, ctrlVars>>
           \/ /\ owner = "hw" /\ e.kind = "access" /\ drcf' = d
              /\ HwOnAccessControl(e.value) /\ UNCHANGED ctrlVars
           \/ /\ owner = "hw" /\ e.kind = "state" /\ drcf' = d
              /\ HwOnState(e.value) /\ UNCHANGED ctrlVars
           \/ /\ owner = "controller" /\ e.kind = "access"
              /\ OnMonitoringAccessControlCB(e.value, d) /\ UNCHANGED hwVars
           \/ /\ owner = "controller" /\ e.kind = "state"
              /\ CtrlOnState(e.value, d) /\ UNCHANGED hwVars
           \/ /\ owner = "controller" /\ e.kind = "tp_init"
              /\ OnTpInitializingCompletedCB(d) /\ UNCHANGED hwVars
           \/ /\ owner = "controller" /\ e.kind = "link"
              /\ OnDisConnected(d) /\ UNCHANGED hwVars
    BY DEF Deliver
  <1>5. e = LOSS \/ e = GRANT => e.kind = "access"
    BY DEF LOSS, GRANT, AccessEvent
  <1>6. e.kind = "access" => e = AccessEvent(e.value)
    BY <1>3 DEF Event, AccessEvent, StateEvent, TpInitEvent, LinkEvent
  <1>7. g_bHasControlAuthority => slots["access"] = "controller"
    BY DEF AuthInv
  <1> HIDE DEF d, e, owner
  <1>8. ASSUME Honest(drcf'), UNCHANGED <<pc, result>>,
               g_bHasControlAuthority' => Covered(drcf'),
               g_bHasControlAuthority' => slots["access"] = "controller"
        PROVE  AuthInv'
    BY <1>4, <1>8 DEF AuthInv, Honest, Covered
  <1>9. CASE drcf' = d /\ UNCHANGED <<pc, result, ctrlVars>>
             /\ (g_bHasControlAuthority => e # LOSS)
    BY <1>1, <1>7, <1>8, <1>9 DEF AuthInv, ctrlVars
  <1>10. CASE owner = "none" /\ drcf' = d /\ UNCHANGED <<hwVars, ctrlVars>>
    <2>1. g_bHasControlAuthority => e # LOSS
      BY <1>5, <1>7, <1>10 DEF owner
    <2> QED
      BY <1>9, <1>10, <2>1 DEF hwVars
  <1>11. CASE /\ owner = "hw" /\ e.kind = "access" /\ drcf' = d
              /\ HwOnAccessControl(e.value) /\ UNCHANGED ctrlVars
    <2>1. g_bHasControlAuthority => e # LOSS
      BY <1>7, <1>11 DEF owner
    <2> QED
      BY <1>9, <1>11, <2>1 DEF HwOnAccessControl
  <1>12. CASE /\ owner = "hw" /\ e.kind = "state" /\ drcf' = d
              /\ HwOnState(e.value) /\ UNCHANGED ctrlVars
    BY <1>5, <1>9, <1>12 DEF HwOnState
  <1>13. CASE /\ owner = "controller" /\ e.kind = "access"
              /\ OnMonitoringAccessControlCB(e.value, d) /\ UNCHANGED hwVars
    <2>1. slots["access"] = "controller" /\ UNCHANGED <<pc, result>>
      BY <1>13 DEF owner, hwVars
    <2>2. CASE e.value = "GRANT" /\ OnAccessGrant(d)
      <3>1. Covered(d)
        BY <1>1, <1>6, <1>13, <2>2 DEF GRANT
      <3>2. Quiet(d, drcf')
        BY <1>2, <2>2, StateCallbackIsQuiet DEF OnAccessGrant
      <3> QED
        BY <1>1, <1>8, <2>1, <3>1, <3>2, QuietKeeps
    <2>3. CASE e.value = "LOSS" /\ OnAccessLoss(d)
      <3>1. drcf' = d \/ drcf' \in Request(d)
        BY <2>3 DEF OnAccessLoss
      <3>2. Honest(drcf')
        BY <1>1, <1>2, <3>1, RequestIsGrant, QuietKeeps, GrantedKeeps
      <3> QED
        BY <1>8, <2>1, <2>3, <3>2 DEF OnAccessLoss
    <2>4. CASE drcf' = d /\ e.value # "LOSS" /\ UNCHANGED g_bHasControlAuthority
      <3>1. e # LOSS
        BY <2>4 DEF LOSS, AccessEvent
      <3> QED
        BY <1>1, <1>8, <2>1, <2>4, <3>1 DEF AuthInv
    <2> QED
      BY <1>13, <2>2, <2>3, <2>4 DEF OnMonitoringAccessControlCB, ResponseNo
  <1>14. CASE /\ owner = "controller" /\ e.kind = "state"
              /\ CtrlOnState(e.value, d) /\ UNCHANGED hwVars
    <2>1. Quiet(d, drcf')
      BY <1>2, <1>14, StateCallbackIsQuiet DEF CtrlOnState
    <2>2. e # LOSS
      BY <1>5, <1>14
    <2>3. UNCHANGED <<pc, result, g_bHasControlAuthority>>
      BY <1>14 DEF CtrlOnState, hwVars
    <2> QED
      BY <1>1, <1>7, <1>8, <2>1, <2>2, <2>3, QuietKeeps DEF AuthInv
  <1>15. CASE /\ owner = "controller" /\ e.kind = "tp_init"
              /\ OnTpInitializingCompletedCB(d) /\ UNCHANGED hwVars
    <2>1. e # LOSS
      BY <1>5, <1>15
    <2>2. UNCHANGED <<pc, result, g_bHasControlAuthority>> /\ drcf' = d
      BY <1>15 DEF OnTpInitializingCompletedCB, hwVars
    <2> QED
      BY <1>1, <1>7, <1>8, <2>1, <2>2 DEF AuthInv
  <1>16. CASE /\ owner = "controller" /\ e.kind = "link"
              /\ OnDisConnected(d) /\ UNCHANGED hwVars
    <2>1. UNCHANGED <<pc, result, g_bHasControlAuthority>> /\ drcf' = Close(d)
      BY <1>16 DEF OnDisConnected, hwVars
    <2> QED
      BY <1>2, <1>7, <1>8, <2>1, CloseKeeps DEF AuthInv
  <1> QED
    BY <1>4, <1>10, <1>11, <1>12, <1>13, <1>14, <1>15, <1>16

\* A callback is replaced by the controller's.
LEMMA ConfigureAuth == AuthInv /\ ConfigureController => AuthInv'
  <1> SUFFICES ASSUME AuthInv, ConfigureController PROVE AuthInv'
    OBVIOUS
  <1>1. pc = "returned" /\ UNCHANGED <<drcf, pc, result, g_bHasControlAuthority>>
    BY DEF AuthInv, ConfigureController, on_configure, hwVars
  <1>2. PICK k : slots' = [slots EXCEPT ![k] = "controller"]
    BY DEF ConfigureController, on_configure
  <1>3. slots' \in [EventKind -> Owner]
    BY <1>2 DEF AuthInv, Owner
  <1>4. slots["access"] = "controller" => slots'["access"] = "controller"
    BY <1>2 DEF AuthInv, EventKind
  <1> QED
    BY <1>1, <1>3, <1>4 DEF AuthInv, Honest, Covered

\* The destructor.
LEMMA DestroyAuth == AuthInv /\ Destroy => AuthInv'
  <1> SUFFICES ASSUME AuthInv, Destroy PROVE AuthInv'
    OBVIOUS
  <1>1. /\ drcf' = Close(drcf)
        /\ UNCHANGED <<pc, result, slots, g_bHasControlAuthority>>
    BY DEF Destroy, Destructor, ctrlVars
  <1>2. Honest(drcf') /\ Covered(drcf')
    BY <1>1, CloseKeeps DEF AuthInv, Honest
  <1> QED
    BY <1>1, <1>2 DEF AuthInv, Honest, Covered

\* What the robot controller, the pendant and the plant do keeps the queue
\* honest and a flag covered.
LEMMA EnvironmentKeeps ==
    ASSUME Honest(drcf), DrcfNext
    PROVE  Honest(drcf') /\ (Covered(drcf) => Covered(drcf'))
  <1> DEFINE Goal == Honest(drcf') /\ (Covered(drcf) => Covered(drcf'))
  <1>2. drcf \in Controller /\ Honest(drcf)
    BY DEF Honest
  <1>4. ASSUME Quiet(drcf, drcf') PROVE Goal
    BY <1>2, <1>4, QuietKeeps
  <1>5. CASE DrcfBoot
    <2>1. PICK s \in {"SAFE_OFF", "STANDBY"} :
              drcf' = Tell([drcf EXCEPT !.state = s], StateEvent(s))
      BY <1>5 DEF DrcfBoot
    <2>2. s \in ROBOT_STATE
      BY DEF ROBOT_STATE, AllFaultStates
    <2>3. CASE drcf' = Emit([drcf EXCEPT !.state = s], StateEvent(s))
      BY <1>2, <1>4, <2>2, <2>3, EnterIsQuiet DEF EnterState
    <2>4. CASE drcf' = [drcf EXCEPT !.state = s]
      <3>1. drcf' \in Controller
        BY <1>2, <2>2, <2>4 DEF Controller
      <3>2. /\ drcf'.holder = drcf.holder
            /\ drcf'.link = drcf.link
            /\ drcf'.events = drcf.events
        BY <1>2, <2>4 DEF Controller
      <3> QED
        BY <1>4, <3>1, <3>2 DEF Quiet
    <2> QED
      BY <2>1, <2>3, <2>4 DEF Tell
  <1>6. CASE PendantReady
    <2> DEFINE x == [drcf EXCEPT !.tp = "ready"]
    <2>1. x \in Controller
      BY <1>2 DEF Controller
    <2>2. x.holder = drcf.holder /\ x.link = drcf.link /\ x.events = drcf.events
      BY <1>2 DEF Controller
    <2>3. drcf' = x \/ drcf' = Emit(x, TpInitEvent)
      BY <1>6 DEF PendantReady, Tell
    <2> HIDE DEF x
    <2>4. Quiet(x, drcf')
      <3>1. TpInitEvent \in Event /\ TpInitEvent # GRANT /\ TpInitEvent # LOSS
        BY EventFacts, EventsDiffer DEF ACCESS_CONTROL, GRANT, LOSS
      <3> QED
        BY <2>1, <2>3, <3>1, QuietSelf, EmitIsQuiet
    <2> QED
      BY <1>4, <2>2, <2>4 DEF Quiet
  <1>7. CASE ReportState
    <2>1. drcf.state \in ROBOT_STATE
      BY <1>2 DEF Controller
    <2>2. /\ StateEvent(drcf.state) \in Event
          /\ StateEvent(drcf.state) # GRANT
          /\ StateEvent(drcf.state) # LOSS
      BY <2>1, EventFacts, EventsDiffer DEF ACCESS_CONTROL, GRANT, LOSS
    <2> QED
      BY <1>2, <1>4, <1>7, <2>2, EmitIsQuiet DEF ReportState
  <1>8. CASE PendantTakes
    <2> DEFINE x == SetHolder(drcf, "pendant", "LOSS")
    <2>1. x \in Controller /\ x.events = Append(drcf.events, LOSS)
      BY <1>2, SetHolderFacts DEF ACCESS_CONTROL, LOSS
    <2>2. drcf.events \in Seq(Event)
      BY <1>2 DEF Controller
    <2>3. Revoked(x.events) /\ HasLoss(x.events)
      BY <2>1, <2>2, AppendLoss
    <2>4. drcf' = x
      BY <1>8 DEF PendantTakes
    <2> HIDE DEF x
    <2> QED
      BY <2>1, <2>3, <2>4 DEF Honest, Covered
  <1>9. CASE PendantAsks
    <2>1. /\ AccessEvent("REQUEST") \in Event
          /\ AccessEvent("REQUEST") # GRANT
          /\ AccessEvent("REQUEST") # LOSS
      BY EventFacts, EventsDiffer DEF ACCESS_CONTROL, GRANT, LOSS
    <2> QED
      BY <1>2, <1>4, <1>9, <2>1, EmitIsQuiet DEF PendantAsks
  <1>10. CASE PendantReleases
    <2>1. Granted(drcf')
      BY <1>2, <1>10, SetHolderFacts DEF PendantReleases, Granted, ACCESS_CONTROL
    <2> QED
      BY <2>1, GrantedKeeps
  <1>11. CASE PendantServoOn
    BY <1>2, <1>4, <1>11, EnterIsQuiet DEF PendantServoOn, ROBOT_STATE
  <1>12. CASE Fault
    <2>1. FaultStates \subseteq ROBOT_STATE
      BY FaultsAssumption DEF ROBOT_STATE
    <2> QED
      BY <1>2, <1>4, <1>12, <2>1, EnterIsQuiet DEF Fault
  <1>13. CASE LinkLost
    <2>1. drcf' = [drcf EXCEPT !.link = "lost", !.holder = "pendant",
                               !.events = <<LinkEvent>>]
      BY <1>13 DEF LinkLost
    <2>2. LinkEvent \in Event /\ LinkEvent # GRANT
      BY EventFacts, EventsDiffer DEF ACCESS_CONTROL, GRANT
    <2>3. <<LinkEvent>> \in Seq(Event)
      BY <2>2
    <2>4. drcf' \in Controller
      BY <1>2, <2>1, <2>3 DEF Controller
    <2>5. drcf'.link = "lost" /\ drcf'.events = <<LinkEvent>>
      BY <1>2, <2>1 DEF Controller
    <2>6. Revoked(<<LinkEvent>>)
      BY <2>2 DEF Revoked
    <2> QED
      BY <2>4, <2>5, <2>6 DEF Honest, Covered
  <1> QED
    BY <1>5, <1>6, <1>7, <1>8, <1>9, <1>10, <1>11, <1>12, <1>13
    DEF DrcfNext

\* So it keeps the invariant.
LEMMA EnvironmentAuth == AuthInv /\ Environment => AuthInv'
  <1> SUFFICES ASSUME AuthInv, Environment PROVE AuthInv'
    OBVIOUS
  <1>1. UNCHANGED <<slots, pc, result, g_bHasControlAuthority>>
    BY DEF Environment, DrcfNext, DrcfBoot, PendantReady, ReportState, Disturb,
           PendantTakes, PendantAsks, PendantReleases, PendantServoOn, Fault,
           LinkLost, hwVars, ctrlVars
  <1>2. Honest(drcf') /\ (Covered(drcf) => Covered(drcf'))
    BY EnvironmentKeeps DEF AuthInv, Environment
  <1> QED
    BY <1>1, <1>2 DEF AuthInv, Honest, Covered

\* Every step keeps the invariant.
LEMMA NextAuth == AuthInv /\ [Next]_vars => AuthInv'
  <1>1. AuthInv /\ UNCHANGED vars => AuthInv'
    BY DEF AuthInv, vars, drcfVars, hwVars, ctrlVars, Honest, Covered
  <1>2. AuthInv /\ FinishCallback => AuthInv'
    BY DEF AuthInv, FinishCallback, HwSecondStore, drcfVars, ctrlVars, Honest, Covered
  <1> QED
    BY <1>1, <1>2, DeliverAuth, ConfigureAuth, HwStepAuth, DestroyAuth, EnvironmentAuth
    DEF Next

\* Whatever the pendant, the plant and the threads do, and for every number
\* of retries and disturbances: once every event has been delivered, a set
\* g_bHasControlAuthority means that ROS holds the authority
\* (dsr_controller2.cpp:2785-2818).
THEOREM AuthorityIsSafe == Spec => []AuthorityNeverOverclaimed
  <1>1. AuthInv => AuthorityNeverOverclaimed
    <2> SUFFICES ASSUME AuthInv, Drained, g_bHasControlAuthority
                 PROVE  drcf.holder = "ros"
      BY DEF AuthorityNeverOverclaimed
    <2>1. ~HasLoss(drcf.events)
      BY DEF Drained, HasLoss
    <2>2. drcf.holder # "pendant"
      BY <2>1 DEF AuthInv, Covered, Drained
    <2> QED
      BY <2>2 DEF AuthInv, Honest, Controller
  <1> QED
    BY <1>1, InitAuth, NextAuth, PTL DEF Spec

(***************************************************************************)
(* The commands of the callbacks.  A set flag is covered, so a command it  *)
(* guards is obeyed or races a LOSS that is still pending.                 *)
(***************************************************************************)

\* The pending LOSS of the model is the one of the invariant.
LEMMA PendingLoss == \A d : PendingAccess(d, "LOSS") <=> HasLoss(d.events)
  BY DEF PendingAccess, HasLoss, LOSS

\* Without the flag only RESET_RECOVERY is sent.
LEMMA UnauthorisedCommands ==
    ASSUME NEW state, NEW authority, ~authority
    PROVE  StateCommands(state, authority) \subseteq {"RESET_RECOVERY"}
  BY DEF StateCommands

\* A state callback with a covered flag sends no stray command.
LEMMA StateCallbackStray ==
    ASSUME NEW d \in Controller, NEW state, NEW authority,
           OnMonitoringStateCB(state, authority, d),
           authority => Covered(d), NoStrayCommand
    PROVE  NoStrayCommand'
  <1>1. stray' = IF Obeyed(d) \/ d.link # "up" \/ PendingAccess(d, "LOSS")
                 THEN stray ELSE stray \union StateCommands(state, authority)
    BY DEF OnMonitoringStateCB
  <1>2. CASE stray' = stray
    BY <1>2 DEF NoStrayCommand
  <1>3. CASE ~(Obeyed(d) \/ d.link # "up" \/ PendingAccess(d, "LOSS"))
    <2>1. d.link = "up" /\ d.holder = "pendant" /\ ~HasLoss(d.events)
      BY <1>3, PendingLoss DEF Obeyed, Controller
    <2>2. ~authority
      BY <2>1 DEF Covered
    <2>3. stray' = stray \union StateCommands(state, authority)
      BY <1>1, <1>3
    <2> QED
      BY <2>2, <2>3, UnauthorisedCommands DEF NoStrayCommand
  <1> QED
    BY <1>1, <1>2, <1>3

\* Every step keeps stray commands out.
LEMMA NextStray == AuthInv /\ NoStrayCommand /\ [Next]_vars => NoStrayCommand'
  <1> SUFFICES ASSUME AuthInv, NoStrayCommand, [Next]_vars
               PROVE  NoStrayCommand'
    OBVIOUS
  <1>1. CASE UNCHANGED stray
    BY <1>1 DEF NoStrayCommand
  <1>2. CASE Deliver
    <2> DEFINE e == Head(drcf.events)
               d == [drcf EXCEPT !.events = Tail(@)]
    <2>1. /\ Honest(d)
          /\ Covered(drcf) /\ e # LOSS => Covered(d)
          /\ e = GRANT => Covered(d)
      BY <1>2, PopFacts DEF AuthInv, Deliver
    <2>2. d \in Controller
      BY <2>1 DEF Honest
    <2>3. e \in Event
      <3>1. drcf.events \in Seq(Event)
        BY DEF AuthInv, Honest, Controller
      <3> QED
        BY <1>2, <3>1 DEF Deliver
    <2>4. \/ UNCHANGED stray
          \/ e.kind = "access" /\ e.value = "GRANT" /\ OnAccessGrant(d)
          \/ e.kind = "state" /\ CtrlOnState(e.value, d)
      BY <1>2 DEF Deliver, ctrlVars, OnMonitoringAccessControlCB, OnAccessLoss,
                  OnTpInitializingCompletedCB, OnDisConnected
    <2> HIDE DEF d, e
    <2>5. CASE e.kind = "access" /\ e.value = "GRANT" /\ OnAccessGrant(d)
      <3>1. e = GRANT
        BY <2>3, <2>5 DEF Event, GRANT, AccessEvent, StateEvent, TpInitEvent, LinkEvent
      <3> QED
        BY <2>1, <2>2, <2>5, <3>1, StateCallbackStray DEF OnAccessGrant
    <2>6. CASE e.kind = "state" /\ CtrlOnState(e.value, d)
      <3>1. e # LOSS
        BY <2>6 DEF LOSS, AccessEvent
      <3>2. g_bHasControlAuthority => Covered(d)
        BY <2>1, <3>1 DEF AuthInv
      <3> QED
        BY <2>2, <2>6, <3>2, StateCallbackStray DEF CtrlOnState
    <2> QED
      BY <1>1, <2>4, <2>5, <2>6
  <1> QED
    BY <1>1, <1>2 DEF Next, ConfigureController, on_configure, HwStep, Destroy,
                      FinishCallback, Environment, vars, ctrlVars

\* For every fault set and every interleaving: while the pendant holds the
\* authority and no LOSS is on its way, OnMonitoringStateCB sends nothing but
\* the RESET_RECOVERY it does not guard (dsr_controller2.cpp:2736-2783).
THEOREM CommandsAreSafe == Spec => []NoStrayCommand
  <1>1. Init => NoStrayCommand
    BY DEF Init, CtrlInit, NoStrayCommand
  <1> QED
    BY <1>1, InitAuth, NextAuth, NextStray, PTL DEF Spec

(***************************************************************************)
(* The boot flags.                                                         *)
(***************************************************************************)

\* For every interleaving of on_init and DRFL's thread: unless the access
\* lambda is between its two stores, both boot flags are set only when STANDBY
\* was reported after the last GRANT (dsr_hw_interface2.cpp:157-177).
THEOREM GrantBeforeStandby == Spec => []GrantThenStandby
  <1> DEFINE Inv == get_control_access /\ is_standby /\ storing # "standby"
                        => standbyUnderGrant
             NoPair == storing \in {"GRANT", "LOSS"} => ~is_standby
  <1>1. Init => Inv /\ NoPair
    BY DEF Init, HwInit
  <1>2. ASSUME Inv, NoPair, [Next]_vars
        PROVE  Inv' /\ NoPair'
    <2>1. CASE UNCHANGED flags
      BY <1>2, <2>1 DEF flags
    <2>2. ASSUME NEW access, storing = "none", HwOnAccessControl(access)
          PROVE  Inv' /\ NoPair'
      BY <1>2, <2>2 DEF HwOnAccessControl, flags
    <2>3. ASSUME NEW state, storing = "none", HwOnState(state)
          PROVE  Inv' /\ NoPair'
      BY <2>3 DEF HwOnState
    <2>4. CASE Deliver
      BY <2>1, <2>2, <2>3, <2>4 DEF Deliver, hwVars, flags
    <2>5. HwStep => UNCHANGED flags
      BY DEF HwStep, OnInitStep, CheckDescription, OpenConnection, RegisterAccess,
             RegisterState, LoopCheckAccess, LoopCheckStandby, LoopCheckBoth,
             FinalCheck, Configure, Finish
    <2>6. CASE UNCHANGED hwVars \/ Destroy
      BY <2>1, <2>6 DEF hwVars, flags, Destroy, Destructor
    <2>7. CASE FinishCallback
      BY <1>2, <2>7 DEF FinishCallback, HwSecondStore
    <2> QED
      BY <1>2, <2>1, <2>4, <2>5, <2>6, <2>7
      DEF Next, ConfigureController, Environment, vars
  <1>3. Inv => GrantThenStandby
    BY DEF GrantThenStandby
  <1> HIDE DEF Inv, NoPair
  <1> QED
    BY <1>1, <1>2, <1>3, PTL DEF Spec

(***************************************************************************)
(* Types.  The controller record and the slots are typed by AuthInv, the   *)
(* stray commands by NoStrayCommand; this is the rest.                     *)
(***************************************************************************)
CtrlFlagsOK ==
    /\ g_bHasControlAuthority \in BOOLEAN
    /\ g_bTpInitailizingComplted \in BOOLEAN
    /\ init_state \in BOOLEAN

RestOK ==
    /\ disturbances \in 0..MaxDisturbances
    /\ HwTypeOK
    /\ CtrlFlagsOK
    /\ registered \in 0..Len(RegistrationOrder)

\* The script is a sequence.
LEMMA ScriptFacts == Len(Script) \in Nat
  <1> DEFINE Calls == {"get_system_version", "GetRobotState", "SetRobotMode",
                       "SetRobotSystem", "connect_rt_control",
                       "set_rt_control_output", "start_rt_control",
                       "set_velj_rt", "set_accj_rt"}
             Common == <<"get_system_version", "GetRobotState", "SetRobotMode",
                         "SetRobotSystem">>
             Rest == IF Mode # "virtual" THEN RtScript ELSE << >>
  <1>1. Common \in Seq(Calls)
    OBVIOUS
  <1>2. RtScript \in Seq(Calls)
    BY DEF RtScript
  <1>3. Rest \in Seq(Calls)
    BY <1>2
  <1>4. Script = Common \o Rest
    BY DEF Script
  <1> HIDE DEF Calls, Common, Rest
  <1> QED
    BY <1>1, <1>3, <1>4

\* The steps of on_init keep its variables typed.
LEMMA HwStepTypes == HwTypeOK /\ OnInitStep => HwTypeOK'
  <1> SUFFICES ASSUME HwTypeOK, OnInitStep PROVE HwTypeOK'
    OBVIOUS
  <1>1. CASE CheckDescription
    BY <1>1 DEF HwTypeOK, CheckDescription, Return, flags
  <1>2. CASE OpenConnection
    BY <1>2 DEF HwTypeOK, OpenConnection, Return, flags
  <1>3. CASE RegisterAccess
    BY <1>3 DEF HwTypeOK, RegisterAccess, Goto, flags
  <1>4. CASE RegisterState
    BY <1>4 DEF HwTypeOK, RegisterState, Goto, flags
  <1>5. CASE LoopCheckAccess
    BY <1>5 DEF HwTypeOK, LoopCheckAccess, NextIteration, flags
  <1>6. CASE LoopCheckStandby
    BY <1>6 DEF HwTypeOK, LoopCheckStandby, NextIteration, flags
  <1>7. CASE LoopCheckBoth
    BY <1>7 DEF HwTypeOK, LoopCheckBoth, NextIteration, flags
  <1>8. CASE FinalCheck
    BY <1>8 DEF HwTypeOK, FinalCheck, Return, flags
  <1>9. CASE Configure
    <2>1. step \in 0..Len(Script) /\ step < Len(Script)
      BY <1>9 DEF HwTypeOK, Configure
    <2>2. NextCall \in ScriptCalls
      BY <2>1, ScriptFacts DEF NextCall, ScriptCalls
    <2>3. FailureOf(NextCall) \in {"ABORT", "FAILURE", "ERROR"}
      BY DEF FailureOf
    <2>4. CASE step' = step + 1 /\ applied' = applied \union {NextCall}
                /\ UNCHANGED <<pc, result, retry, flags>>
      BY <2>1, <2>2, <2>4, ScriptFacts DEF HwTypeOK, flags
    <2>5. CASE Return(FailureOf(NextCall)) /\ UNCHANGED <<step, applied, retry, flags>>
      BY <2>3, <2>5 DEF HwTypeOK, Return, flags
    <2> QED
      BY <1>9, <2>4, <2>5 DEF Configure
  <1>10. CASE Finish
    BY <1>10 DEF HwTypeOK, Finish, Return, flags
  <1> QED
    BY <1>1, <1>2, <1>3, <1>4, <1>5, <1>6, <1>7, <1>8, <1>9, <1>10 DEF OnInitStep

\* So do its lambdas.
LEMMA HwCallbackTypes ==
    ASSUME NEW v, HwTypeOK, HwOnAccessControl(v) \/ HwSecondStore \/ HwOnState(v)
    PROVE  HwTypeOK'
  <1>1. CASE HwOnAccessControl(v)
    BY <1>1 DEF HwTypeOK, HwOnAccessControl, flags
  <1>2. CASE HwOnState(v)
    BY <1>2 DEF HwTypeOK, HwOnState
  <1>3. CASE HwSecondStore
    BY <1>3 DEF HwTypeOK, HwSecondStore
  <1> QED
    BY <1>1, <1>2, <1>3

\* And the controller's callbacks keep its flags typed.
LEMMA CtrlCallbackTypes ==
    ASSUME NEW v, NEW d, CtrlFlagsOK,
           \/ OnMonitoringAccessControlCB(v, d) \/ CtrlOnState(v, d)
           \/ OnTpInitializingCompletedCB(d) \/ OnDisConnected(d)
    PROVE  CtrlFlagsOK' /\ UNCHANGED registered
  BY DEF CtrlFlagsOK, OnMonitoringAccessControlCB, OnAccessGrant, OnAccessLoss,
         OnMonitoringStateCB, CtrlOnState, OnTpInitializingCompletedCB,
         OnDisConnected

\* Every step keeps the rest typed.
LEMMA NextRest == RestOK /\ [Next]_vars => RestOK'
  <1> SUFFICES ASSUME RestOK, [Next]_vars PROVE RestOK'
    OBVIOUS
  <1>1. UNCHANGED hwVars => HwTypeOK'
    BY DEF RestOK, HwTypeOK, hwVars
  <1>2. UNCHANGED ctrlVars => CtrlFlagsOK' /\ UNCHANGED registered
    BY DEF RestOK, CtrlFlagsOK, ctrlVars
  <1>3. CASE Deliver
    <2>1. UNCHANGED disturbances
      BY <1>3 DEF Deliver
    <2>2. HwTypeOK'
      BY <1>1, <1>3, HwCallbackTypes DEF Deliver, RestOK
    <2>3. CtrlFlagsOK' /\ UNCHANGED registered
      BY <1>2, <1>3, CtrlCallbackTypes DEF Deliver, RestOK
    <2> QED
      BY <2>1, <2>2, <2>3 DEF RestOK
  <1>4. CASE ConfigureController
    <2>1. registered' \in 0..Len(RegistrationOrder)
      BY <1>4 DEF ConfigureController, on_configure, RestOK, RegistrationOrder
    <2> QED
      BY <1>1, <1>4, <2>1 DEF ConfigureController, on_configure, RestOK, CtrlFlagsOK
  <1>5. CASE HwStep
    <2>1. UNCHANGED disturbances
      BY <1>5 DEF HwStep, OnInitStep, CheckDescription, OpenConnection,
             RegisterAccess, RegisterState, LoopCheckAccess, LoopCheckStandby,
             LoopCheckBoth, FinalCheck, Configure, Finish, drcfVars
    <2> QED
      BY <1>2, <1>5, <2>1, HwStepTypes DEF HwStep, RestOK
  <1>6. CASE Destroy
    <2>1. HwTypeOK'
      BY <1>6 DEF Destroy, Destructor, HwTypeOK, RestOK, flags
    <2> QED
      BY <1>2, <1>6, <2>1 DEF Destroy, Destructor, RestOK
  <1>7. CASE Environment
    <2>1. disturbances' \in 0..MaxDisturbances
      BY <1>7, BoundsAssumption
      DEF RestOK, Environment, DrcfNext, DrcfBoot, PendantReady, ReportState,
          Disturb, PendantTakes, PendantAsks, PendantReleases, PendantServoOn,
          Fault, LinkLost
    <2> QED
      BY <1>1, <1>2, <1>7, <2>1 DEF Environment, RestOK
  <1>8. CASE UNCHANGED vars
    BY <1>1, <1>2, <1>8 DEF vars, drcfVars, RestOK
  <1>9. CASE FinishCallback
    <2>1. HwTypeOK'
      BY <1>9, HwCallbackTypes DEF FinishCallback, RestOK
    <2> QED
      BY <1>2, <1>9, <2>1 DEF FinishCallback, drcfVars, RestOK
  <1> QED
    BY <1>3, <1>4, <1>5, <1>6, <1>7, <1>8, <1>9 DEF Next

\* Every reachable state of bring-up is well typed, for all constants: in
\* particular the queue only ever holds events, whatever the callbacks send.
THEOREM TypesAreSafe == Spec => []TypeOK
  <1>1. Init => RestOK
    <2> SUFFICES ASSUME Init PROVE RestOK
      OBVIOUS
    <2>1. disturbances \in 0..MaxDisturbances
      BY BoundsAssumption DEF Init, DrcfInit
    <2>2. step \in 0..Len(Script) /\ retry \in Nat
      BY ScriptFacts DEF Init, HwInit
    <2>3. HwTypeOK
      BY <2>2 DEF Init, HwInit, HwTypeOK
    <2>4. CtrlFlagsOK
      BY DEF Init, CtrlInit, CtrlFlagsOK
    <2>5. registered \in 0..Len(RegistrationOrder)
      BY DEF Init, CtrlInit, RegistrationOrder
    <2> QED
      BY <2>1, <2>3, <2>4, <2>5 DEF RestOK
  <1>2. AuthInv /\ NoStrayCommand /\ RestOK => TypeOK
    <2>1. "RESET_RECOVERY" \in {t[2] : t \in ControlTransition}
      BY DEF ControlTransition
    <2> QED
      BY <2>1 DEF AuthInv, Honest, NoStrayCommand, RestOK, CtrlFlagsOK, TypeOK,
                  DrcfTypeOK, CtrlTypeOK
  <1>3. Spec => []AuthInv
    BY InitAuth, NextAuth, PTL DEF Spec
  <1> QED
    BY <1>1, <1>2, <1>3, NextRest, CommandsAreSafe, PTL DEF Spec
===============================================================================
