----------------------------- MODULE DrflCallbacks -----------------------------
(***************************************************************************)
(* The DRFL_CALLBACKS of dsr_controller2.cpp that act on the robot, with   *)
(* the globals they keep, and RobotController::on_configure, which         *)
(* installs them in the place of the callbacks of the hardware interface.  *)
(*                                                                         *)
(* A callback is atomic: DRFL's thread runs one at a time.  It makes its   *)
(* DRFL calls on the controller record it is given and leaves one of the   *)
(* records they may produce.  The copies of the state and of the access    *)
(* event in g_stDrState are left out: no code reads them.                  *)
(***************************************************************************)
EXTENDS Drcf

VARIABLES
    g_bHasControlAuthority,
    g_bTpInitailizingComplted,
    init_state,         \* TRUE until the first SERVO_ON of the callbacks
    registered,         \* callbacks that on_configure has installed
    stray               \* history: commands sent although the pendant held
                        \* the authority and no LOSS was on its way
ctrlVars == <<g_bHasControlAuthority, g_bTpInitailizingComplted, init_state,
              registered, stray>>

CtrlInit ==
    /\ g_bHasControlAuthority = FALSE
    /\ g_bTpInitailizingComplted = FALSE
    /\ init_state = TRUE
    /\ registered = 0
    /\ stray = {}

(***************************************************************************)
(* on_configure replaces the callbacks one by one, in this order.          *)
(***************************************************************************)
RegistrationOrder == <<"tp_init", "state", "access", "link">>

on_configure ==
    /\ registered < Len(RegistrationOrder)
    /\ registered' = registered + 1
    /\ slots' = [slots EXCEPT ![RegistrationOrder[registered + 1]] = "controller"]
    /\ UNCHANGED <<drcf, disturbances, g_bHasControlAuthority,
                   g_bTpInitailizingComplted, init_state, stray>>

(***************************************************************************)
(* The robot-control command OnMonitoringStateCB answers a state with, if  *)
(* any, for the given authority flag.                                      *)
(***************************************************************************)
GuardedCommands ==
    {<<"SAFE_STOP",  "RESET_SAFET_STOP">>,
     <<"SAFE_STOP2", "RECOVERY_SAFE_STOP">>,
     <<"SAFE_OFF2",  "RECOVERY_SAFE_OFF">>}

\* Mutant: the resets do not ask for the authority.
StateCommandsUnguarded(state, authority) ==
    {g[2] : g \in {h \in GuardedCommands : h[1] = state}}
        \union {c \in {"SERVO_ON"} : state = "SAFE_OFF" /\ authority /\ init_state}
        \union {c \in {"RESET_RECOVERY"} : state = "RECOVERY"}

StateCommands(state, authority) ==
    {g[2] : g \in {h \in GuardedCommands : h[1] = state /\ authority}}
        \union {c \in {"SERVO_ON"} : state = "SAFE_OFF" /\ authority /\ init_state}
        \union {c \in {"RESET_RECOVERY"} : state = "RECOVERY"}

\* OnMonitoringStateCB(state), with d the controller it talks to.  The body
\* sends at most one command.
OnMonitoringStateCB(state, authority, d) ==
    LET cmds == StateCommands(state, authority) IN
    /\ IF cmds = {}
       THEN drcf' = d
       ELSE \E c \in cmds : drcf' \in SetRobotControl(d, c)
    /\ init_state' = (init_state /\ "SERVO_ON" \notin cmds)
    /\ stray' = IF Obeyed(d) \/ d.link # "up" \/ PendingAccess(d, "LOSS")
                THEN stray ELSE stray \union cmds

\* Mutant: the state is not looked at again.
OnAccessGrantFlagOnly(d) ==
    /\ g_bHasControlAuthority' = TRUE
    /\ drcf' = d
    /\ UNCHANGED <<init_state, stray>>

OnAccessGrant(d) ==
    /\ g_bHasControlAuthority' = TRUE
    /\ OnMonitoringStateCB(d.state, TRUE, d)

\* Mutant: the flag is only cleared when the authority is requested again.
OnAccessLossKeepFlag(d) ==
    /\ g_bHasControlAuthority' =
           (g_bHasControlAuthority /\ ~g_bTpInitailizingComplted)
    /\ IF g_bTpInitailizingComplted THEN drcf' \in Request(d) ELSE drcf' = d
    /\ UNCHANGED <<init_state, stray>>

OnAccessLoss(d) ==
    /\ g_bHasControlAuthority' = FALSE
    /\ IF g_bTpInitailizingComplted THEN drcf' \in Request(d) ELSE drcf' = d
    /\ UNCHANGED <<init_state, stray>>

OnMonitoringAccessControlCB(access, d) ==
    /\ \/ access = "GRANT" /\ OnAccessGrant(d)
       \/ access = "LOSS"  /\ OnAccessLoss(d)
       \/ /\ access = "REQUEST" /\ drcf' \in ResponseNo(d)
          /\ UNCHANGED <<g_bHasControlAuthority, init_state, stray>>
       \/ /\ access = "DENY" /\ drcf' = d
          /\ UNCHANGED <<g_bHasControlAuthority, init_state, stray>>
    /\ UNCHANGED <<g_bTpInitailizingComplted, registered>>

CtrlOnState(state, d) ==
    /\ OnMonitoringStateCB(state, g_bHasControlAuthority, d)
    /\ UNCHANGED <<g_bHasControlAuthority, g_bTpInitailizingComplted,
                   registered>>

OnTpInitializingCompletedCB(d) ==
    /\ g_bTpInitailizingComplted' = TRUE
    /\ drcf' = d
    /\ UNCHANGED <<g_bHasControlAuthority, init_state, registered,
                   stray>>

OnDisConnected(d) ==
    /\ drcf' = Close(d)
    /\ UNCHANGED <<g_bHasControlAuthority, g_bTpInitailizingComplted,
                   init_state, registered, stray>>

CtrlTypeOK ==
    /\ g_bHasControlAuthority \in BOOLEAN
    /\ g_bTpInitailizingComplted \in BOOLEAN
    /\ init_state \in BOOLEAN
    /\ registered \in 0..Len(RegistrationOrder)
    /\ stray \subseteq {t[2] : t \in ControlTransition}
===============================================================================
