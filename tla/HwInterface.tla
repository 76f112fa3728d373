------------------------------ MODULE HwInterface ------------------------------
(***************************************************************************)
(* DRHWInterface::on_init of dsr_hw_interface2.cpp, step by step, with the *)
(* two lambdas it registers as DRFL callbacks and the destructor.          *)
(*                                                                         *)
(* on_init runs on the controller manager's thread and the lambdas on      *)
(* DRFL's, so every read and every store of the static flags               *)
(* get_control_access and is_standby is a step of its own: they are plain  *)
(* bools, nothing orders the two threads.                                  *)
(***************************************************************************)
EXTENDS Drcf

CONSTANTS
    Mode,               \* the "mode" parameter
    ConnectRetries,     \* 20 in the code
    AccessRetries       \* 10 in the code

ASSUME ModeAssumption == Mode \in {"real", "virtual"}
ASSUME RetriesAssumption ==
    ConnectRetries \in Nat \ {0} /\ AccessRetries \in Nat \ {0}

VARIABLES
    pc,                     \* where on_init is
    retry,                  \* the counter of the loop on_init is in
    get_control_access,     \* static bool, written by the access lambda
    is_standby,             \* static bool, written by both lambdas
    storing,                \* the store the access lambda has still to make:
                            \* "standby", or GRANT or LOSS for the other flag
    step,                   \* configuration calls made
    applied,                \* the configuration calls that took effect
    result,                 \* what on_init returned
    standbyUnderGrant       \* history: STANDBY was the last state delivered
                            \* after the last GRANT
flags  == <<get_control_access, is_standby, storing, standbyUnderGrant>>
hwVars == <<pc, retry, get_control_access, is_standby, storing, step, applied,
            result, standbyUnderGrant>>

HwInit ==
    /\ pc = "description"
    /\ retry = 0
    /\ get_control_access = FALSE
    /\ is_standby = FALSE
    /\ storing = "none"
    /\ step = 0
    /\ applied = {}
    /\ result = "none"
    /\ standbyUnderGrant = FALSE

Goto(from, to) == pc = from /\ pc' = to
Return(r)      == pc' = "returned" /\ result' = r

-----------------------------------------------------------------------------
(***************************************************************************)
(* The callbacks.                                                          *)
(***************************************************************************)
\* Mutant: the LOSS branch is missing.
HwOnAccessControlNoLoss(access) ==
    /\ IF access = "GRANT"
       THEN /\ get_control_access' = TRUE
            /\ storing' = "standby"
            /\ standbyUnderGrant' = FALSE
            /\ UNCHANGED is_standby
       ELSE UNCHANGED flags
    /\ UNCHANGED <<pc, retry, step, applied, result>>

\* The access lambda up to its first store.  GRANT and LOSS store both flags;
\* nothing orders the two stores for another thread, so either comes first.
HwOnAccessControl(access) ==
    /\ IF access \in {"GRANT", "LOSS"}
       THEN /\ \/ /\ get_control_access' = (access = "GRANT")
                  /\ storing' = "standby"
                  /\ UNCHANGED is_standby
               \/ /\ is_standby' = FALSE
                  /\ storing' = access
                  /\ UNCHANGED get_control_access
            /\ standbyUnderGrant' = FALSE
       ELSE UNCHANGED flags
    /\ UNCHANGED <<pc, retry, step, applied, result>>

\* Mutant: an earlier standby survives the access event.
HwSecondStoreKeepStandby ==
    /\ storing # "none"
    /\ IF storing = "standby"
       THEN UNCHANGED <<is_standby, get_control_access>>
       ELSE get_control_access' = (storing = "GRANT") /\ UNCHANGED is_standby
    /\ storing' = "none"
    /\ UNCHANGED <<pc, retry, step, applied, result, standbyUnderGrant>>

\* Its second store, after which the lambda returns.
HwSecondStore ==
    /\ storing # "none"
    /\ IF storing = "standby"
       THEN is_standby' = FALSE /\ UNCHANGED get_control_access
       ELSE get_control_access' = (storing = "GRANT") /\ UNCHANGED is_standby
    /\ storing' = "none"
    /\ UNCHANGED <<pc, retry, step, applied, result, standbyUnderGrant>>

HwOnState(state) ==
    /\ is_standby' = (state = "STANDBY")
    /\ standbyUnderGrant' = (state = "STANDBY" /\ get_control_access)
    /\ UNCHANGED <<pc, retry, get_control_access, storing, step, applied, result>>

-----------------------------------------------------------------------------
(***************************************************************************)
(* on_init: description, connection, callbacks.                            *)
(***************************************************************************)
CheckDescription ==
    /\ pc = "description"
    /\ \/ pc' = "connect" /\ UNCHANGED result
       \/ Return("ERROR")
    /\ UNCHANGED <<retry, flags, step, applied, drcfVars>>

OpenConnection ==
    /\ pc = "connect"
    /\ \/ /\ pc' = "register_access" /\ retry' = 0
          /\ drcf' = [drcf EXCEPT !.link = "up"]
          /\ UNCHANGED result
       \/ /\ retry' = retry + 1
          /\ IF retry' < ConnectRetries THEN UNCHANGED <<pc, result>>
                                        ELSE Return("ERROR")
          /\ UNCHANGED drcf
    /\ UNCHANGED <<flags, step, applied, slots, disturbances>>

RegisterAccess ==
    /\ Goto("register_access", "register_state")
    /\ slots' = [slots EXCEPT !["access"] = "hw"]
    /\ UNCHANGED <<retry, flags, step, applied, result, drcf, disturbances>>

RegisterState ==
    /\ Goto("register_state", "loop")
    /\ slots' = [slots EXCEPT !["state"] = "hw"]
    /\ UNCHANGED <<retry, flags, step, applied, result, drcf, disturbances>>

-----------------------------------------------------------------------------
(***************************************************************************)
(* on_init: the retry loop.  "continue" and the end of the body both go to *)
(* the next iteration.                                                     *)
(***************************************************************************)
\* Mutant: the loop counter is not advanced.
NextIterationStuck == pc' = "loop" /\ UNCHANGED retry

\* Mutant: the counter runs down, below zero.
NextIterationDown ==
    /\ retry' = retry - 1
    /\ pc' = IF retry' < AccessRetries THEN "loop" ELSE "final_access"

NextIteration ==
    /\ retry' = retry + 1
    /\ pc' = IF retry' < AccessRetries THEN "loop" ELSE "final_access"

LoopCheckAccess ==
    /\ pc = "loop"
    /\ IF get_control_access
       THEN pc' = "loop_standby" /\ UNCHANGED <<retry, drcf>>
       ELSE NextIteration /\ drcf' \in ForceRequest(drcf)
    /\ UNCHANGED <<flags, step, applied, result, slots, disturbances>>

LoopCheckStandby ==
    /\ pc = "loop_standby"
    /\ IF is_standby
       THEN pc' = "loop_both" /\ UNCHANGED <<retry, drcf>>
       ELSE NextIteration /\ drcf' \in SetRobotControl(drcf, "SERVO_ON")
    /\ UNCHANGED <<flags, step, applied, result, slots, disturbances>>

\* "if(get_control_access && is_standby) break": the second flag is read
\* after the first.
LoopCheckBoth ==
    /\ \/ /\ pc = "loop_both"
          /\ IF get_control_access
             THEN pc' = "loop_both_standby" /\ UNCHANGED retry
             ELSE NextIteration
       \/ /\ pc = "loop_both_standby"
          /\ IF is_standby THEN pc' = "final_access" /\ UNCHANGED retry
                           ELSE NextIteration
    /\ UNCHANGED <<flags, step, applied, result, drcfVars>>

FinalCheck ==
    /\ \/ /\ pc = "final_access"
          /\ IF get_control_access THEN pc' = "final_standby" /\ UNCHANGED result
                                   ELSE Return("ERROR")
       \/ /\ pc = "final_standby"
          /\ IF is_standby THEN pc' = "configure" /\ UNCHANGED result
                           ELSE Return("ERROR")
    /\ UNCHANGED <<retry, flags, step, applied, drcfVars>>

-----------------------------------------------------------------------------
(***************************************************************************)
(* on_init: configuration.  The calls are made in the order of Script and  *)
(* the first one to fail ends on_init with the code of FailureOf.          *)
(***************************************************************************)
RtScript == <<"connect_rt_control", "set_rt_control_output",
              "start_rt_control", "set_velj_rt", "set_accj_rt">>

Script ==
    <<"get_system_version", "GetRobotState", "SetRobotMode", "SetRobotSystem">>
        \o (IF Mode # "virtual" THEN RtScript ELSE <<>>)

ScriptCalls == {Script[i] : i \in 1..Len(Script)}

\* A failed assert ends the process.
FailureOf(call) ==
    CASE call = "get_system_version" -> "ABORT"
      [] call \in {"connect_rt_control", "set_rt_control_output",
                   "start_rt_control"} -> "FAILURE"
      [] OTHER -> "ERROR"

\* The answers DRFL may give.
Answers(call) ==
    CASE call = "GetRobotState" -> {drcf.state = "STANDBY"}
      [] call \in {"SetRobotMode", "SetRobotSystem"} ->
             IF Obeyed(drcf) THEN BOOLEAN ELSE {FALSE}
      [] OTHER -> IF Up THEN BOOLEAN ELSE {FALSE}

NextCall == Script[step + 1]

\* Mutant: a call's answer is not looked at.
ConfigureUnchecked ==
    /\ pc = "configure"
    /\ step < Len(Script)
    /\ step' = step + 1
    /\ \E ok \in Answers(NextCall) :
           /\ applied' = IF ok THEN applied \union {NextCall} ELSE applied
           /\ drcf' = IF ok /\ NextCall = "start_rt_control"
                      THEN [drcf EXCEPT !.rt = TRUE] ELSE drcf
    /\ UNCHANGED <<pc, retry, flags, result, slots, disturbances>>

Configure ==
    /\ pc = "configure"
    /\ step < Len(Script)
    /\ \E ok \in Answers(NextCall) :
           IF ok THEN /\ step' = step + 1
                      /\ applied' = applied \union {NextCall}
                      /\ drcf' = IF NextCall = "start_rt_control"
                                 THEN [drcf EXCEPT !.rt = TRUE] ELSE drcf
                      /\ UNCHANGED <<pc, result>>
                 ELSE Return(FailureOf(NextCall)) /\ UNCHANGED <<step, applied, drcf>>
    /\ UNCHANGED <<retry, flags, slots, disturbances>>

\* set_safety_mode(AUTONOMOUS, MOVE): its answer is not looked at.
Finish ==
    /\ pc = "configure"
    /\ step = Len(Script)
    /\ Return("SUCCESS")
    /\ UNCHANGED <<retry, flags, step, applied, drcfVars>>

\* ~DRHWInterface.  It runs if and when the controller manager drops the
\* component, after a failure or at shutdown; nothing in the packages makes
\* it do so.
Destructor ==
    /\ pc = "returned"
    /\ result # "ABORT"
    /\ drcf.link # "closed"
    /\ drcf' = Close(drcf)
    /\ UNCHANGED <<pc, retry, flags, step, applied, result, slots, disturbances>>

OnInitStep ==
    \/ CheckDescription \/ OpenConnection \/ RegisterAccess \/ RegisterState
    \/ LoopCheckAccess \/ LoopCheckStandby \/ LoopCheckBoth \/ FinalCheck
    \/ Configure \/ Finish

HwTypeOK ==
    /\ pc \in {"description", "connect", "register_access", "register_state",
               "loop", "loop_standby", "loop_both", "loop_both_standby",
               "final_access", "final_standby", "configure", "returned"}
    /\ retry \in Nat
    /\ get_control_access \in BOOLEAN
    /\ is_standby \in BOOLEAN
    /\ storing \in {"none", "standby", "GRANT", "LOSS"}
    /\ standbyUnderGrant \in BOOLEAN
    /\ step \in 0..Len(Script)
    /\ applied \subseteq ScriptCalls
    /\ result \in {"none", "SUCCESS", "ERROR", "FAILURE", "ABORT"}
===============================================================================
