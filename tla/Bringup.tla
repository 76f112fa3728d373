-------------------------------- MODULE Bringup --------------------------------
(***************************************************************************)
(* Bring-up of a robot: the hardware interface's on_init, then the         *)
(* controller's on_configure, while DRFL's thread delivers the events of   *)
(* the robot controller to whichever callback is installed.  The two       *)
(* components share nothing but DRFL: the authority flag of the hardware   *)
(* interface and the one of the controller are different variables, and    *)
(* the second starts FALSE.                                                *)
(***************************************************************************)
EXTENDS HwInterface, DrflCallbacks

vars == <<drcfVars, hwVars, ctrlVars>>

Init == DrcfInit /\ HwInit /\ CtrlInit

\* DRFL's thread, when it is in no callback, hands the oldest event to its
\* callback, or drops it.
Deliver ==
    /\ storing = "none"
    /\ drcf.events # <<>>
    /\ drcf.link \in {"up", "lost"}
    /\ LET e     == Head(drcf.events)
           d     == [drcf EXCEPT !.events = Tail(@)]
           owner == slots[e.kind]
       IN \/ /\ owner = "none" /\ drcf' = d
             /\ UNCHANGED <<hwVars, ctrlVars>>
          \/ /\ owner = "hw" /\ e.kind = "access" /\ drcf' = d
             /\ HwOnAccessControl(e.value)
             /\ UNCHANGED ctrlVars
          \/ /\ owner = "hw" /\ e.kind = "state" /\ drcf' = d
             /\ HwOnState(e.value)
             /\ UNCHANGED ctrlVars
          \/ /\ owner = "controller" /\ e.kind = "access"
             /\ OnMonitoringAccessControlCB(e.value, d)
             /\ UNCHANGED hwVars
          \/ /\ owner = "controller" /\ e.kind = "state"
             /\ CtrlOnState(e.value, d)
             /\ UNCHANGED hwVars
          \/ /\ owner = "controller" /\ e.kind = "tp_init"
             /\ OnTpInitializingCompletedCB(d)
             /\ UNCHANGED hwVars
          \/ /\ owner = "controller" /\ e.kind = "link"
             /\ OnDisConnected(d)
             /\ UNCHANGED hwVars
    /\ UNCHANGED <<slots, disturbances>>

\* DRFL's thread goes on in the access lambda of the hardware interface.
FinishCallback == HwSecondStore /\ UNCHANGED <<drcfVars, ctrlVars>>

\* The controller manager configures the controller of a loaded component.
ConfigureController ==
    /\ result = "SUCCESS"
    /\ on_configure
    /\ UNCHANGED hwVars

HwStep == OnInitStep /\ UNCHANGED ctrlVars
Destroy == Destructor /\ UNCHANGED ctrlVars
Environment == DrcfNext /\ UNCHANGED <<hwVars, ctrlVars>>

Next ==
    \/ Deliver \/ FinishCallback \/ ConfigureController \/ HwStep \/ Destroy
    \/ Environment

\* Both threads run: DRFL's delivers what is pending and ends its callbacks,
\* the controller manager's goes through on_init and on_configure.  The robot
\* controller, the pendant and the plant owe nothing, and no one has to
\* destroy the component.
Fairness ==
    /\ WF_vars(Deliver)
    /\ WF_vars(FinishCallback)
    /\ WF_vars(HwStep)
    /\ WF_vars(ConfigureController)

Spec == Init /\ [][Next]_vars /\ Fairness

-----------------------------------------------------------------------------
Drained == drcf.link = "up" /\ drcf.events = <<>>

\* Every variable stays in its type.
TypeOK == DrcfTypeOK /\ HwTypeOK /\ CtrlTypeOK

\* Once the lambdas of on_init are installed, nothing is pending and the
\* access lambda has made both its stores, a set get_control_access means the
\* authority is held, and both flags set mean the robot is in STANDBY
\* (dsr_hw_interface2.cpp:157-177).
BootFlagsTruthful ==
    (Drained /\ storing = "none" /\ slots["access"] = "hw" /\ slots["state"] = "hw") =>
        /\ get_control_access => drcf.holder = "ros"
        /\ get_control_access /\ is_standby => drcf.state = "STANDBY"

\* A standby from before the grant outlives it by no more than the access
\* lambda: unless the lambda is between its two stores, both flags are set
\* only if a STANDBY was delivered after the last GRANT.  on_init may read the
\* old standby in between; GetRobotState asks again
\* (dsr_hw_interface2.cpp:161-162,165-166).
GrantThenStandby ==
    storing = "none" /\ get_control_access /\ is_standby => standbyUnderGrant

\* on_init returns SUCCESS only when every call of the mode's script took
\* effect; the RT stream runs in no virtual bring-up, and in a real one
\* until the link goes (dsr_hw_interface2.cpp:229-282).
ReadyOnSuccess ==
    /\ result = "SUCCESS" => applied = ScriptCalls
    /\ drcf.rt => Mode = "real"
    /\ result = "SUCCESS" /\ drcf.link = "up" => drcf.rt = (Mode = "real")

\* With nothing pending, the controller's authority flag is TRUE only if
\* the authority is held (dsr_controller2.cpp:2800,2809).
AuthorityNeverOverclaimed ==
    Drained /\ g_bHasControlAuthority => drcf.holder = "ros"

\* While the pendant holds the authority and no LOSS is under way, the
\* callbacks send no command except RESET_RECOVERY, the one that
\* OnMonitoringStateCB does not guard (dsr_controller2.cpp:2748-2775).
NoStrayCommand == stray \subseteq {"RESET_RECOVERY"}

\* on_init returns whatever the controller and the pendant do: both of its
\* loops are bounded (dsr_hw_interface2.cpp:135,178).
OnInitReturns == <>(pc = "returned")

\* If the controller's flag is TRUE from some point on, the robot does not
\* stay in a stop that the callbacks know how to reset.  Needs the GRANT
\* handler to look at the state it missed (dsr_controller2.cpp:2801).
Recoverable == {"SAFE_STOP", "SAFE_STOP2", "SAFE_OFF2", "RECOVERY"}
StopsAreReset ==
    <>[](g_bHasControlAuthority /\ Up) => <>[](drcf.state \notin Recoverable)

\* "Need to make sure it loaded successfully.  By making sure AUTHORITY and
\* STANDBY_STATE" (dsr_hw_interface2.cpp:153-154): on_init does not report
\* SUCCESS after a LOSS has been delivered.
SuccessHasAuthority ==
    [][result' = "SUCCESS" /\ result = "none" => get_control_access]_vars
===============================================================================
