---------------------------- MODULE RobotScript ----------------------------
(***************************************************************************)
(* A script that uses DSR_ROBOT2.py: any sequence of calls of its functions *)
(* and of the methods of robot objects, with arguments that differ from a   *)
(* good call in at most one place.                                          *)
(*                                                                          *)
(* A call runs its checks, may wait for its service, sends a request and    *)
(* blocks in spin_until_future_complete, without a time limit.  A request   *)
(* whose service does not exist yet is lost.  A DR_Error shuts rclpy down;  *)
(* after that no request leaves the script.                                 *)
(***************************************************************************)
EXTENDS CDsrRobot

CONSTANTS
  Poses,      \* given for a pose or for six numbers
  PoseLists,  \* given for a list of poses
  Segments,   \* given for the segments of moveb
  Velocities, \* given for a velocity or an acceleration
  NewSpeeds,  \* given for a default velocity or acceleration
  Scalars,    \* given for a number, an index, a mode or a name
  Coords,     \* given for a coordinate
  RefCoords,  \* given to set_ref_coord
  GoodPose, GoodJoints, GoodTask, GoodSegments,  \* ones that pass
  MaxChanged  \* bound: settings that differ from their initial value at a time

\* Whatever a script gives for a speed or a number, its number and those of its
\* items are integers, and its items are numbered from 1.
ASSUME ValuesAssumption ==
  \A v \in NewSpeeds \cup Velocities \cup Scalars :
    /\ v.n \in Int
    /\ DOMAIN v.s = 1..Len(v.s)
    /\ \A i \in DOMAIN v.s : v.s[i].n \in Int

\* A coordinate that is an int has no items.
ASSUME CoordsAssumption == \A c \in RefCoords : c.ty = "int" => c = PyInt(c.n)

\* The good pose is a list of six positive floats, the good lists have as many
\* poses as an int8 counts, and every number of them converts.
ASSUME GoodAssumption ==
  /\ IsList(6, GoodPose) /\ DOMAIN GoodPose.s = 1..6
  /\ \A i \in 1..6 : GoodPose.s[i].ty = "float" /\ GoodPose.s[i].n \in Nat \ {0}
  /\ \A l \in {GoodJoints, GoodTask, GoodSegments} : l.ty = "list" /\ Len(l.s) \in 1..127
  /\ \A i \in DOMAIN GoodJoints.s :
       GoodJoints.s[i].ty = "posj" /\ Floats(List(GoodJoints.s[i].s)) # Misfit
  /\ \A i \in DOMAIN GoodTask.s :
       GoodTask.s[i].ty = "posx" /\ Floats(List(GoodTask.s[i].s)) # Misfit
  /\ \A i \in DOMAIN GoodSegments.s :
       GoodSegments.s[i].ty = "posb" /\ Floats(List(SegmentSent(GoodSegments.s[i]))) # Misfit

VARIABLES
  glob,     \* _g_velj, _g_accj, _g_velx, _g_accx, _g_coord
  ctl,      \* the reference coordinate in force at the controller, or Foreign
  told,     \* history: the script's last set_ref_coord that is over returned 0, and
            \* no one else has set the coordinate since the controller took it
  up,       \* the context of rclpy is valid
  serving,  \* "coming" while on_activate creates the services, then "up"
  root,     \* the controller was started without a namespace
  pc,       \* "idle"; "waiting" for the service, "sent", "done" or "denied" by the
            \* controller, or "lost"; "back" with a result, or "raised"
  call      \* the call that is under way, or what came of it

vars == << glob, ctl, told, up, serving, root, pc, call >>

NoCall == [kind |-> "none"]

\* A coordinate that the pendant, another client or an earlier script has set; the
\* script never asks which it is.
Foreign == [ty |-> "foreign"]

Init ==
  /\ glob = InitialSettings
  /\ ctl = Foreign
  /\ told = FALSE
  /\ up = TRUE
  /\ serving = "coming"
  /\ root \in BOOLEAN
  /\ pc = "idle"
  /\ call = NoCall

-----------------------------------------------------------------------------
(* One call.  plain says that all arguments were the ones of a good call,   *)
(* dref that the coordinate was left to its default.                        *)

Open(plain, dref, o) == [kind |-> "open", plain |-> plain, dref |-> dref, o |-> o]
Closed(ret) == [kind |-> "closed", ret |-> ret]

\* DR_Error.__init__ shuts rclpy down
Raise(plain, dref, o) ==
  /\ o.err # "ok"
  /\ pc' = "raised"
  /\ up' = (o.err = "PY")
  /\ call' = Open(plain, dref, o)
  /\ UNCHANGED << glob, ctl, told, serving, root >>

Set(o) ==
  /\ o.err = "ok" /\ o.svc = ""
  /\ serving = "up"  \* a bound: the setters look at no service
  /\ Cardinality({x \in DOMAIN o.g : o.g[x] # InitialSettings[x]}) <= MaxChanged
  /\ glob' = o.g
  /\ UNCHANGED << ctl, told, up, serving, root, pc, call >>

Published(o) ==
  /\ o.err = "ok" /\ o.answer = "stream"
  /\ pc' = "back"
  /\ call' = Closed("0")
  /\ UNCHANGED << glob, ctl, told, up, serving, root >>

InReach(o) == o.absolute => root

\* Mutant: the request leaves without waiting for the service.
SendAtOnce(plain, dref, o) ==
  /\ o.err = "ok" /\ o.svc # "" /\ o.answer # "stream"
  /\ pc' = IF serving = "coming" \/ ~InReach(o) THEN "lost" ELSE "sent"
  /\ call' = Open(plain, dref, o)
  /\ UNCHANGED << glob, ctl, told, up, serving, root >>

\* A service that is still to be created, or has another name, loses the request.
Send(plain, dref, o) ==
  /\ o.err = "ok" /\ o.svc # "" /\ o.answer # "stream"
  /\ \/ /\ InReach(o)
        /\ pc' = "sent" /\ call' = Open(plain, dref, o)
     \/ /\ o.waits /\ serving = "coming"
        /\ pc' = "waiting" /\ call' = Open(plain, dref, o)
     \/ /\ ~o.waits /\ (serving = "coming" \/ ~InReach(o))
        /\ pc' = "lost" /\ call' = Open(plain, dref, [o EXCEPT !.svc = "", !.req = NoFields])
  /\ UNCHANGED << glob, ctl, told, up, serving, root >>

Invoke(plain, dref, o) ==
  /\ pc = "idle" /\ up
  /\ \/ Raise(plain, dref, o)
     \/ Set(o)
     \/ Published(o)
     \/ Send(plain, dref, o)

ServicesUp ==
  /\ serving = "coming"
  /\ serving' = "up"
  /\ UNCHANGED << glob, ctl, told, up, root, pc, call >>

ServiceFound ==
  /\ pc = "waiting" /\ serving = "up"
  /\ pc' = "sent"
  /\ UNCHANGED << glob, ctl, told, up, serving, root, call >>

Replies == {"success", "refused", "exception"}

\* What the function returns; "unbound" is the UnboundLocalError of "return ret"
\* after an exception of the call was logged.
ReturnValue(answer, reply) ==
  CASE answer = "ignored" -> "0"
    [] answer \in {"status", "kept"} /\ reply = "success" -> "0"
    [] answer \in {"status", "kept"} /\ reply \in {"refused", "noresult"} -> "-1"
    [] answer \in {"value", "pair", "zero"} /\ reply \in {"success", "refused"} -> "value"
    [] answer = "read" /\ reply = "success" -> "value"
    [] (answer = "kept" /\ reply = "exception") \/ (answer = "read" /\ reply # "success") -> "preset"
    [] answer = "value" /\ reply = "noresult" -> "-1"
    [] answer = "pair" /\ reply = "noresult" -> "None"
    [] (answer \in {"pair", "zero"} /\ reply = "exception") \/ (answer = "zero" /\ reply = "noresult") -> "0"
    [] OTHER -> "unbound"

SetsRef == call.o.svc = "set_ref_coord"

\* The handler of the service has DRFL do what was asked, or DRFL refuses.
Execute(success) ==
  /\ pc = "sent"
  /\ pc' = IF success THEN "done" ELSE "denied"
  /\ ctl' = IF SetsRef /\ success THEN call.o.req.coord ELSE ctl
  /\ UNCHANGED << glob, told, up, serving, root, call >>

\* The pendant or another client sets the coordinate.
OthersSetRef ==
  /\ ctl # Foreign
  /\ ctl' = Foreign
  /\ told' = FALSE
  /\ UNCHANGED << glob, up, serving, root, pc, call >>

\* The answer arrives, or future.result() raises, whatever the controller did.
\* The settings an outcome names are assigned when the call is over.
Reply(reply) ==
  /\ \/ pc = "done" /\ reply = "success"
     \/ pc = "denied" /\ reply = "refused"
     \/ pc \in {"sent", "done", "denied"} /\ reply = "exception"
  /\ pc' = "back"
  /\ glob' = call.o.g
  /\ LET ret == ReturnValue(call.o.answer, reply)
     IN  /\ call' = Closed(ret)
         /\ told' = IF SetsRef THEN ret = "0" /\ ctl # Foreign ELSE told
  /\ UNCHANGED << ctl, up, serving, root >>

\* SIGTERM shuts the context down, before or after the controller acted:
\* spin_until_future_complete returns without a result, wait_for_service raises.
\* The script sends nothing any more, so that it was told something ends here.
Interrupt ==
  /\ pc \in {"waiting", "sent", "done", "denied", "lost"}
  /\ up' = FALSE
  /\ pc' = "back"
  /\ glob' = IF pc = "waiting" THEN glob ELSE call.o.g
  /\ call' = Closed(IF pc = "waiting" THEN "unbound" ELSE ReturnValue(call.o.answer, "noresult"))
  /\ told' = FALSE
  /\ UNCHANGED << ctl, serving, root >>

\* Mutant: the previous call is not forgotten.
ReturnKeepingCall ==
  /\ pc \in {"back", "raised"}
  /\ pc' = "idle"
  /\ UNCHANGED << glob, ctl, told, up, serving, root, call >>

\* The script goes on with the value, or after catching the exception.
Return ==
  /\ pc \in {"back", "raised"}
  /\ pc' = "idle"
  /\ call' = NoCall
  /\ UNCHANGED << glob, ctl, told, up, serving, root >>

-----------------------------------------------------------------------------
(* The calls of a script *)

\* The good call d, or one that differs from it in one argument.
Args(d, alts) == {d} \cup UNION {{[d EXCEPT ![f] = v] : v \in alts[f]} : f \in DOMAIN alts}

\* The arguments of d and those of more
d && more == [f \in DOMAIN d \cup DOMAIN more |-> IF f \in DOMAIN d THEN d[f] ELSE more[f]]

DefaultRef(a) == "ref" \in DOMAIN a => a.ref = None

\* A function without a method
Function(d, alts, F(_, _)) ==
  \E a \in Args(d, alts) : Invoke(a = d, DefaultRef(a), F(glob, a))

\* A function and the method of the same name, with the same checks: one of them
\* with all arguments is enough
Calls(d, alts, F(_, _), M(_, _)) ==
  Function(d, alts, F) \/ Invoke(TRUE, DefaultRef(d), M(glob, d))

\* movej ... with all arguments, amovej ... and the methods with good ones
Motions(d, alts, F(_, _, _), M(_, _, _)) ==
  \/ Function(d, alts, LAMBDA g, a : F(g, a, 0))
  \/ Invoke(TRUE, DefaultRef(d), F(glob, d, 1))
  \/ \E async \in {0, 1} : Invoke(TRUE, DefaultRef(d), M(glob, d, async))

\* Functions without arguments
Plain(F(_, _), M(_, _)) == Calls(NoFields, NoFields, F, M)

ZERO == PyInt(0)
ONE  == PyInt(1)

ModeCalls ==
  \/ Calls([robot_mode |-> ONE], [robot_mode |-> Scalars], set_robot_mode, robot_set_robot_mode)
  \/ Calls([robot_system |-> ONE], [robot_system |-> Scalars], set_robot_system, robot_set_robot_system)
  \/ Calls([speed_mode |-> ONE], [speed_mode |-> Scalars], set_robot_speed_mode, robot_set_robot_speed_mode)
  \/ Calls([reset_type |-> ONE], [reset_type |-> Scalars],
           set_safe_stop_reset_type, robot_set_safe_stop_reset_type)
  \/ Calls([space_type |-> ONE], [space_type |-> Scalars], get_current_pose, robot_get_current_pose)
  \/ Plain(get_robot_mode, robot_get_robot_mode)
  \/ Plain(get_robot_system, robot_get_robot_system)
  \/ Plain(get_robot_state, robot_get_robot_state)
  \/ Plain(get_robot_speed_mode, robot_get_robot_speed_mode)

CheckCalls ==
  \/ Plain(get_current_solution_space, robot_get_current_solution_space)
  \/ Plain(check_motion, robot_check_motion)
  \/ Plain(get_workpiece_weight, robot_get_workpiece_weight)
  \/ Plain(reset_workpiece_weight, robot_reset_workpiece_weight)

StateCalls ==
  \/ Plain(get_last_alarm, robot_get_last_alarm)
  \/ Plain(get_control_mode, robot_get_control_mode)
  \/ Plain(get_control_space, robot_get_control_space)
  \/ Plain(get_current_posj, robot_get_current_posj)
  \/ Plain(get_current_velj, robot_get_current_velj)
  \/ Plain(get_desired_posj, robot_get_desired_posj)
  \/ Plain(get_desired_velj, robot_get_desired_velj)
  \/ Plain(get_joint_torque, robot_get_joint_torque)
  \/ Plain(get_external_torque, robot_get_external_torque)

InCoord  == [ref |-> None]
AnyRef   == [ref |-> Coords]

RefCoordCalls ==
  \/ Calls([coord |-> ZERO], [coord |-> RefCoords], set_ref_coord, robot_set_ref_coord)

\* Poses in the coordinate in force
PoseCalls ==
  \/ Calls(InCoord, AnyRef, get_current_posx, robot_get_current_posx)
  \/ Calls(InCoord, AnyRef, get_desired_posx, robot_get_desired_posx)
  \/ Calls([pos |-> GoodPose, delta |-> GoodPose, ref |-> None, ref_out |-> ZERO],
           [pos |-> Poses, delta |-> Poses, ref |-> Coords, ref_out |-> Coords], trans, robot_trans)

\* ... that name their coordinates
KinematicsCalls ==
  \/ Calls([pos |-> GoodPose], [pos |-> Poses], get_solution_space, robot_get_solution_space)
  \/ Calls([xd |-> GoodPose, xc |-> GoodPose, axis |-> ZERO],
           [xd |-> Poses, xc |-> Poses, axis |-> Scalars],
           get_orientation_error, robot_get_orientation_error)
  \/ Calls([pose_in |-> GoodPose, ref_in |-> ZERO, ref_out |-> ZERO],
           [pose_in |-> Poses, ref_in |-> Coords, ref_out |-> Coords],
           coord_transform, robot_coord_transform)

\* ... in DR_BASE unless another one is given
BasePoseCalls ==
  \/ Calls(InCoord, AnyRef, get_current_tool_flange_posx, robot_get_current_tool_flange_posx)
  \/ Calls(InCoord, AnyRef, get_current_velx, robot_get_current_velx)
  \/ Calls(InCoord, AnyRef, get_desired_velx, robot_get_desired_velx)
  \/ Calls(InCoord, AnyRef, get_current_rotm, robot_get_current_rotm)
  \/ Calls(InCoord, AnyRef, get_tool_force, robot_get_tool_force)
  \/ Function(InCoord, AnyRef, robot_get_tool_force)
  \/ Calls([pos |-> GoodPose, ref |-> None], [pos |-> Poses, ref |-> Coords], fkin, robot_fkin)
  \/ Calls([pos |-> GoodPose, sol_space |-> ZERO, ref |-> None],
           [pos |-> Poses, sol_space |-> Scalars, ref |-> Coords], ikin, robot_ikin)

-----------------------------------------------------------------------------
(* Settings and motions *)

SettingCalls ==
  \/ Function([vel |-> PyInt(30)], [vel |-> NewSpeeds], set_velj)
  \/ Function([acc |-> PyInt(30)], [acc |-> NewSpeeds], set_accj)
  \/ Function([vel1 |-> PyInt(30), vel2 |-> PyInt(DR_COND_NONE)],
              [vel1 |-> NewSpeeds, vel2 |-> {PyInt(30), PyInt(-1), Str}], set_velx)
  \/ Function([acc1 |-> PyInt(30), acc2 |-> PyInt(DR_COND_NONE)],
              [acc1 |-> NewSpeeds, acc2 |-> {PyInt(30), PyInt(-1), Str}], set_accx)

SpeedArgs == [vel |-> None, acc |-> None, time |-> None, v |-> None, a |-> None, t |-> None]
SpeedAlts == [vel |-> Velocities, acc |-> Velocities, time |-> Scalars,
              v |-> {PyInt(30)}, a |-> {PyInt(30)}, t |-> {ONE}]
BlendArgs == [radius |-> None, r |-> None, ra |-> ZERO, mod |-> ZERO]
BlendAlts == [radius |-> Scalars, r |-> {ONE}, ra |-> {Str, PyInt(2)}, mod |-> {Str, PyInt(2)}]

SpeedAlts6 == [vel |-> Poses, acc |-> Poses, time |-> Scalars, t |-> {ONE}]

JointMoveCalls ==
  \/ Motions([pos |-> GoodPose] && BlendArgs && SpeedArgs,
             [pos |-> Poses] && BlendAlts && SpeedAlts, movej, robot_movej)
  \/ Function([pos |-> GoodPose] && BlendArgs && [SpeedArgs EXCEPT !.vel = ONE, !.acc = ONE],
              [pos |-> Poses] && BlendAlts && SpeedAlts, LAMBDA g, a : robot_movej(g, a, 0))
  \/ Motions([pos_list |-> GoodJoints, mod |-> ZERO] && SpeedArgs,
             [pos_list |-> PoseLists, mod |-> Scalars] && SpeedAlts, movesj, robot_movesj)

TaskMoveCalls ==
  \/ Motions([pos |-> GoodPose, ref |-> None, sol |-> ZERO] && BlendArgs && SpeedArgs,
             [pos |-> Poses, ref |-> Coords, sol |-> Scalars] && BlendAlts && SpeedAlts,
             movejx, robot_movejx)
  \/ Motions([pos |-> GoodPose, ref |-> None] && BlendArgs && SpeedArgs,
             [pos |-> Poses, ref |-> Coords] && BlendAlts && SpeedAlts, movel, robot_movel)
  \/ Motions([pos1 |-> GoodPose, pos2 |-> GoodPose, ref |-> None, angle |-> None, an |-> None]
               && BlendArgs && SpeedArgs,
             [pos1 |-> Poses, pos2 |-> Poses, ref |-> Coords, angle |-> Velocities, an |-> {ONE}]
               && BlendAlts && SpeedAlts, movec, robot_movec)
  \/ Motions([pos_list |-> GoodTask, ref |-> None, mod |-> ZERO, vel_opt |-> ZERO] && SpeedArgs,
             [pos_list |-> PoseLists, ref |-> Coords, mod |-> Scalars, vel_opt |-> Scalars] && SpeedAlts,
             movesx, robot_movesx)
  \/ Motions([seg_list |-> GoodSegments, ref |-> None, mod |-> ZERO] && SpeedArgs,
             [seg_list |-> Segments, ref |-> Coords, mod |-> Scalars] && SpeedAlts, moveb, robot_moveb)

AxisMoveCalls ==
  \/ Motions([rev |-> PyInt(10), rmax |-> PyInt(10), lmax |-> ZERO, axis |-> PyInt(2), ref |-> ONE] && SpeedArgs,
             [rev |-> Scalars, rmax |-> Scalars, lmax |-> Scalars, axis |-> Scalars, ref |-> Coords] && SpeedAlts,
             move_spiral, robot_move_spiral)
  \/ Motions([amp |-> GoodPose, period |-> ONE, atime |-> None, repeat |-> None, ref |-> ONE],
             [amp |-> Poses, period |-> Poses \cup Scalars, atime |-> Scalars, repeat |-> Scalars, ref |-> Coords],
             move_periodic, robot_move_periodic)

AlterCalls ==
  \/ Calls([n |-> ONE, mode |-> ZERO, ref |-> None, limit_dPOS |-> None, limit_dPOS_per |-> None],
           [n |-> Scalars, mode |-> Scalars, ref |-> Coords, limit_dPOS |-> Velocities, limit_dPOS_per |-> Velocities],
           enable_alter_motion, robot_enable_alter_motion)

MotionCalls ==
  \/ Calls([target |-> None], [target |-> Scalars], move_home, robot_move_home)
  \/ Calls([time |-> ZERO], [time |-> Scalars], move_wait, robot_mwait)
  \/ Calls([speed |-> ONE], [speed |-> Scalars], change_operation_speed, robot_change_operation_speed)
  \/ Calls([dposx |-> GoodPose], [dposx |-> Poses], alter_motion, robot_alter_motion)
  \/ Plain(disable_alter_motion, robot_disable_alter_motion)
  \/ Calls([mode |-> ZERO], [mode |-> Scalars], set_singular_handling, robot_set_singular_handling)
  \/ Calls([mode |-> ZERO], NoFields, set_singular_handling, robot_set_singularity_handling)
  \/ Calls([jog_axis |-> ZERO, ref |-> ZERO, speed |-> ZERO],
           [jog_axis |-> Scalars, ref |-> Coords, speed |-> Scalars], jog, robot_jog)
  \/ Calls([jog_axis_list |-> GoodPose, ref |-> ZERO, speed |-> ZERO],
           [jog_axis_list |-> Poses, ref |-> Coords, speed |-> Scalars], jog_multi, robot_jog_multi)

StreamCalls ==
  \/ Function([pos |-> GoodPose], [pos |-> Poses], alter_motion_stream)
  \/ Function([pos |-> GoodPose, mode |-> None, m |-> None] && SpeedArgs,
              [pos |-> Poses, mode |-> Scalars, m |-> {ONE}] && SpeedAlts, servoj)
  \/ Function([pos |-> GoodPose] && SpeedArgs, [pos |-> Poses] && SpeedAlts, servol)
  \/ Function([SpeedArgs EXCEPT !.vel = ONE, !.acc = ONE], SpeedAlts, speedj)
  \/ Function([SpeedArgs EXCEPT !.vel = ONE, !.acc = ONE], SpeedAlts, speedl)
  \/ Function([pos |-> GoodPose] && SpeedArgs, [pos |-> Poses] && SpeedAlts, servoj_rt)
  \/ Function([SpeedArgs EXCEPT !.time = ONE] && [pos |-> GoodPose], [pos |-> Poses] && SpeedAlts, servol_rt)
  \/ Function([vel |-> GoodPose, acc |-> GoodPose, time |-> None, t |-> None], SpeedAlts6, speedj_rt)
  \/ Function([vel |-> GoodPose, acc |-> None, time |-> ONE, t |-> None], SpeedAlts6, speedl_rt)
  \/ Function([tor |-> GoodPose, time |-> None, t |-> None],
              [tor |-> Poses, time |-> Scalars, t |-> {ONE}], torque_rt)

RtPeriod == [version |-> Str, period |-> PyFloat(1), loss |-> ONE]
RtAlts   == [version |-> Scalars, period |-> Scalars, loss |-> Scalars]
TwoRates == [trans |-> PyFloat(1), rotation |-> PyFloat(1)]
TwoAlts  == [trans |-> Scalars, rotation |-> Scalars]
Outside  == [external_force_torque |-> GoodPose, external_digital_input |-> ONE,
             external_digital_output |-> ONE, external_analog_input |-> GoodPose,
             external_analog_output |-> GoodPose]

RtConnectCalls ==
  \/ Function([ip_address |-> None, port |-> None], [ip_address |-> Scalars, port |-> Scalars], connect_rt_control)

RtCalls ==
  \/ Function([safety_mode |-> ONE, safety_event |-> ONE],
              [safety_mode |-> Scalars, safety_event |-> Scalars], set_safety_mode)
  \/ Function(NoFields, NoFields, disconnect_rt_control)
  \/ Function(NoFields, NoFields, start_rt_control)
  \/ Function(NoFields, NoFields, stop_rt_control)
  \/ Function(NoFields, NoFields, get_rt_control_output_version_list)
  \/ Function(NoFields, NoFields, get_rt_control_input_version_list)
  \/ Function(NoFields, NoFields, read_data_rt)
  \/ Function([version |-> Str], [version |-> Scalars], get_rt_control_input_data_list)

RtDataCalls ==
  \/ Function([version |-> Str], [version |-> Scalars], get_rt_control_output_data_list)
  \/ Function(RtPeriod, RtAlts, set_rt_control_input)
  \/ Function(RtPeriod, RtAlts, set_rt_control_output)
  \/ Function([vel |-> GoodPose], [vel |-> Poses], set_velj_rt)
  \/ Function([acc |-> GoodPose], [acc |-> Poses], set_accj_rt)
  \/ Function(TwoRates, TwoAlts, set_velx_rt)
  \/ Function(TwoRates, TwoAlts, set_accx_rt)
  \/ Function(Outside, [external_digital_input |-> Scalars, external_analog_input |-> Poses], write_data_rt)

-----------------------------------------------------------------------------
(* Force, user coordinates and conditions *)

\* Arguments of the functions that take *args and **kargs
Given(args, kargs) == [args |-> args, kargs |-> kargs]

Overloads(args, F(_, _), M(_, _)) ==
  \E a \in args : Invoke(FALSE, FALSE, F(glob, a)) \/ Invoke(FALSE, FALSE, M(glob, a))

V3 == List(<< PyFloat(1), PyFloat(2), PyFloat(3) >>)

AxisArgs ==
  { Given(<< V3, ZERO >>, NoFields), Given(<< V3, ZERO, ZERO >>, NoFields),
    Given(<< GoodPose, GoodPose, GoodPose, ZERO >>, NoFields),
    Given(<< GoodPose, GoodPose, GoodPose, ZERO, ONE >>, NoFields),
    Given(<< V3 >>, [axis |-> ZERO]), Given(<< >>, [vect |-> V3, axis |-> ZERO, ref |-> ZERO]),
    Given(<< V3, GoodPose, ZERO >>, NoFields), Given(<< >>, [vect |-> V3, pos |-> GoodPose, axis |-> ZERO]),
    Given(<< V3 >>, NoFields), Given(<< >>, [wrong |-> ZERO]) }

CoordArgs ==
  { Given(<< GoodPose, ZERO, ZERO >>, NoFields), Given(<< GoodPose >>, [ref |-> ZERO, mod |-> ZERO]),
    Given(<< GoodPose, GoodPose >>, [ref |-> ZERO, mod |-> ZERO]),
    Given(<< >>, [x1 |-> GoodPose, ref |-> ZERO, mod |-> ONE]), Given(<< GoodPose >>, NoFields) }

CartCoordArgs ==
  { Given(<< GoodPose, ZERO >>, NoFields), Given(<< V3, V3, GoodPose >>, NoFields),
    Given(<< GoodPose, GoodPose, GoodPose >>, NoFields),
    Given(<< GoodPose, GoodPose, GoodPose, GoodPose >>, NoFields),
    Given(<< GoodPose, GoodPose, GoodPose, GoodPose, ZERO >>, NoFields),
    Given(<< GoodPose, GoodPose, GoodPose, GoodPose >>, [ref |-> ZERO]),
    Given(<< V3, V3 >>, [pos |-> GoodPose]), Given(<< V3, V3, GoodPose >>, [ref |-> ZERO]),
    Given(<< GoodPose, GoodPose, GoodPose >>, [pos |-> GoodPose]), Given(<< ONE, ONE, ONE >>, NoFields) }

Six(n) == List(Times(6, PyInt(n)))
Stiff  == [stx |-> Six(500), time |-> ZERO]
Condition == [axis |-> ZERO, min |-> ZERO, max |-> PyInt(7), ref |-> None]
ConditionAlts == [axis |-> Scalars, min |-> Scalars, max |-> Scalars, ref |-> Coords]

FormCalls ==
  \/ Overloads(AxisArgs, parallel_axis, robot_parallel_axis)
  \/ Overloads(AxisArgs, align_axis, robot_align_axis)
  \/ Overloads(CoordArgs, calc_coord, robot_calc_coord)
  \/ Overloads(CartCoordArgs, set_user_cart_coord, robot_set_user_cart_coord)

UserCoordCalls ==
  \/ Calls([id |-> PyInt(101), pos |-> GoodPose, ref |-> None],
           [id |-> Coords, pos |-> Poses, ref |-> Coords],
           overwrite_user_cart_coord, robot_overwrite_user_cart_coord)
  \/ Calls([id |-> PyInt(101)], [id |-> Coords], get_user_cart_coord, robot_get_user_cart_coord)

ConditionCalls ==
  \/ Calls(Condition && [mod |-> ZERO, pos |-> None],
           ConditionAlts && [mod |-> Scalars, pos |-> Poses],
           check_position_condition, robot_check_position_condition)
  \/ Calls(Condition, ConditionAlts, check_force_condition, robot_check_force_condition)
  \/ Function(Condition, ConditionAlts, robot_check_force_condition)
  \/ Calls([axis |-> PyInt(10), min |-> GoodPose, max |-> GoodPose, ref |-> None, mod |-> None, pos |-> None],
           [axis |-> Scalars, min |-> {None, ONE}, max |-> {None, Str}, ref |-> Coords, mod |-> Scalars],
           check_orientation_condition, robot_check_orientation_condition)
  \/ Calls([axis |-> PyInt(10), min |-> ZERO, max |-> ONE, ref |-> None, mod |-> None, pos |-> GoodPose],
           [min |-> Scalars, max |-> Scalars, ref |-> Coords, mod |-> Scalars, pos |-> Poses \cup {None}],
           check_orientation_condition, robot_check_orientation_condition)

ForceCalls ==
  \/ Calls(Stiff, [stx |-> Poses, time |-> Scalars],
           task_compliance_ctrl, robot_task_compliance_ctrl)
  \/ Calls(Stiff, [stx |-> Poses, time |-> Scalars],
           set_stiffnessx, robot_set_stiffnessx)
  \/ Plain(release_compliance_ctrl, robot_release_compliance_ctrl)
  \/ Calls([fd |-> Six(0), dir |-> Six(0), time |-> ZERO, mod |-> ZERO],
           [fd |-> Poses, dir |-> Poses, time |-> Scalars, mod |-> Scalars],
           set_desired_force, robot_set_desired_force)
  \/ Calls([time |-> ZERO], [time |-> Scalars], release_force, robot_release_force)
  \/ Calls([m |-> ZERO, timeout |-> ZERO, axis |-> ZERO],
           [m |-> Scalars, timeout |-> Scalars, axis |-> Scalars],
           is_done_bolt_tightening, robot_is_done_bolt_tightening)

-----------------------------------------------------------------------------
(* Inputs, outputs and configuration *)

Index == [index |-> ONE]
AnyIndex == [index |-> Scalars]
Name == [name |-> Str]
AnyName == [name |-> Scalars]

ModbusCalls ==
  \/ Calls([ip |-> Str, port |-> ONE, name |-> Str, reg_type |-> ONE, index |-> ONE,
            value |-> ZERO, slaveid |-> PyInt(255)],
           [ip |-> Scalars, port |-> Scalars, name |-> Scalars, reg_type |-> Scalars,
            index |-> Scalars, value |-> Scalars, slaveid |-> Scalars],
           add_modbus_signal, robot_add_modbus_signal)
  \/ Calls(Name, AnyName, del_modbus_signal, robot_del_modbus_signal)
  \/ Calls([iobus |-> Str, val |-> ONE], [iobus |-> Scalars, val |-> Scalars],
           set_modbus_output, robot_set_modbus_output)
  \/ Calls([iobus |-> Str], [iobus |-> Scalars], get_modbus_input, robot_get_modbus_input)

IoCalls ==
  \/ Calls(Index, AnyIndex, get_digital_input, robot_get_digital_input)
  \/ Calls(Index, AnyIndex, get_digital_output, robot_get_digital_output)
  \/ Calls(Index, AnyIndex, get_tool_digital_input, robot_get_tool_digital_input)
  \/ Calls(Index, AnyIndex, get_tool_digital_output, robot_get_tool_digital_output)
  \/ Calls([ch |-> ONE], [ch |-> Scalars], get_analog_input, robot_get_analog_input)
  \/ Calls([index |-> ONE, val |-> None], [index |-> Scalars, val |-> Scalars],
           set_digital_output, robot_set_digital_output)
  \/ Calls([index |-> ONE, val |-> None], [index |-> Scalars, val |-> Scalars],
           set_tool_digital_output, robot_set_tool_digital_output)
  \/ Calls([ch |-> ONE, mod |-> ZERO], [ch |-> Scalars, mod |-> Scalars],
           set_mode_analog_input, robot_set_mode_analog_input)

DrlCalls ==
  \/ Calls([robotSystem |-> ZERO, code |-> Str], [robotSystem |-> Scalars, code |-> Scalars],
           drl_script_run, robot_drl_script_run)
  \/ Calls([stop_mode |-> ONE], [stop_mode |-> Scalars], drl_script_stop, robot_drl_script_stop)
  \/ Plain(drl_script_pause, robot_drl_script_pause)
  \/ Plain(drl_script_resume, robot_drl_script_resume)
  \/ Plain(get_drl_state, robot_get_drl_state)

ConfigCalls ==
  \/ Calls(Name, AnyName, set_tcp, robot_set_tcp)
  \/ Calls(Name, AnyName, set_tool, robot_set_tool)
  \/ Calls(Name, AnyName, set_tool_shape, robot_set_tool_shape)
  \/ Calls(Name, AnyName, del_tcp, robot_del_tcp)
  \/ Calls(Name, AnyName, del_tool, robot_del_tool)
  \/ Plain(get_tcp, robot_get_tcp)
  \/ Plain(get_tool, robot_get_tool)
  \/ Calls([name |-> Str, pos |-> GoodPose], [name |-> Scalars, pos |-> Poses], add_tcp, robot_add_tcp)
  \/ Calls([name |-> Str, weight |-> ONE, cog |-> V3, inertia |-> GoodPose],
           [name |-> Scalars, weight |-> Scalars, cog |-> Poses, inertia |-> Poses],
           add_tool, robot_add_tool)

\* posj(...), posx(...) and posb(...) raise DR_Error too.
Constructors ==
  \/ \E p \in Poses \cup Scalars :
       Invoke(FALSE, FALSE, Raised(posj(p), glob)) \/ Invoke(FALSE, FALSE, Raised(posx(p), glob))
  \/ \E t \in {ZERO, ONE, Str}, p \in {GoodPose, Str}, q \in {None, GoodPose}, r \in {ONE, PyInt(-1)} :
       Invoke(FALSE, FALSE, Raised(posb(t, p, q, r), glob))

-----------------------------------------------------------------------------

Next ==
  \/ ModeCalls \/ CheckCalls \/ StateCalls \/ RefCoordCalls \/ PoseCalls
  \/ KinematicsCalls \/ BasePoseCalls \/ SettingCalls \/ JointMoveCalls
  \/ TaskMoveCalls \/ AxisMoveCalls \/ AlterCalls \/ MotionCalls \/ StreamCalls
  \/ RtConnectCalls \/ RtCalls \/ RtDataCalls \/ FormCalls \/ UserCoordCalls
  \/ ConditionCalls \/ ForceCalls \/ ModbusCalls \/ IoCalls \/ DrlCalls
  \/ ConfigCalls \/ Constructors
  \/ ServicesUp
  \/ ServiceFound
  \/ \E success \in BOOLEAN : Execute(success)
  \/ OthersSetRef
  \/ \E reply \in Replies : Reply(reply)
  \/ Interrupt
  \/ Return

\* on_activate ends, discovery finds the services, the controller handles what
\* it is asked and answers, and the script goes on.
Fairness ==
  /\ WF_vars(ServicesUp)
  /\ WF_vars(ServiceFound)
  /\ WF_vars(\E success \in BOOLEAN : Execute(success))
  /\ WF_vars(\E reply \in Replies : Reply(reply))
  /\ WF_vars(Return)

Spec == Init /\ [][Next]_vars /\ Fairness

-----------------------------------------------------------------------------
(* Properties *)

\* Every variable has its type, and a call is remembered exactly while it is
\* under way or its result is at hand.
TypeOK ==
  /\ DOMAIN glob = DOMAIN InitialSettings
  /\ glob.coord.ty = "int" /\ ctl.ty \in {"int", "foreign"}
  /\ {told, up, root} \subseteq BOOLEAN
  /\ serving \in {"coming", "up"}
  /\ pc \in {"idle", "waiting", "sent", "done", "denied", "lost", "back", "raised"}
  /\ call.kind = CASE pc = "idle" -> "none" [] pc = "back" -> "closed" [] OTHER -> "open"

\* The defaults the setters keep are usable by every function that reads them:
\* six positive numbers, or a positive number and one that is positive or
\* unset.  is_number looks at the first item of a list only, so this rests on
\* the loops of set_velj and set_accj stopping before the assignment.
SettingsUsable ==
  LET Above(v) == IsNum(v) /\ v.n > 0
      Joint(k) == \/ glob[k] = InitialSettings[k]
                  \/ /\ IsList(6, glob[k])
                     /\ \A i \in 1..6 : Above(glob[k].s[i])
      Task(k)  == \/ glob[k] = InitialSettings[k]
                  \/ /\ IsList(2, glob[k])
                     /\ Above(glob[k].s[1])
                     /\ Above(glob[k].s[2]) \/ glob[k].s[2] = PyInt(DR_COND_NONE)
  IN  Joint("velj") /\ Joint("accj") /\ Task("velx") /\ Task("accx")

JointMotions  == {"move_joint", "move_jointx", "move_spline_joint", "servoj_stream", "servoj_rt_stream"}
TaskMotions   == {"move_line", "move_circle", "move_spline_task", "move_blending"}
\* ... of which these two refuse a second velocity that is unset
StrictMotions == {"move_spiral", "servol_stream"}

IsSet(k) == glob[k] # InitialSettings[k]

\* Once a script has set the default velocity and acceleration of a kind of
\* motion, a motion that gives neither is accepted; move_spiral and servol need
\* the second value too, and get_current_posx refuses a default coordinate of
\* DR_TOOL.  Robot objects are exempt: they have no setters.
DefaultsAccepted ==
  pc = "raised" /\ call.plain /\ ~call.o.absolute =>
    LET Fails(svcs, reason) == call.o.svc \in svcs => reason
        Unset(k) == glob[k].s[2] = PyInt(DR_COND_NONE)
    IN  /\ call.o.svc \in JointMotions \cup TaskMotions \cup StrictMotions \cup {"get_current_posx"}
        /\ Fails(JointMotions, ~IsSet("velj") \/ ~IsSet("accj"))
        /\ Fails(TaskMotions, ~IsSet("velx") \/ ~IsSet("accx"))
        /\ Fails(StrictMotions, Unset("velx") \/ Unset("accx"))
        /\ Fails({"get_current_posx"}, glob.coord = PyInt(DR_TOOL))

Underway == pc \in {"waiting", "sent", "done", "denied"}

\* These functions fall back to DR_BASE or DR_TOOL, not to set_ref_coord.
FixedDefault ==
  {"get_current_tool_flange_posx", "get_current_velx", "get_desired_velx", "get_current_rotm",
   "get_tool_force", "fkin", "ikin", "overwrite_user_cart_coord", "move_spiral", "move_periodic",
   "parallel_axis1", "parallel_axis2", "calc_coord", "set_user_cart_coord1",
   "set_user_cart_coord2", "set_user_cart_coord3"}

\* Once set_ref_coord has returned 0, a request that leaves the coordinate to its
\* default names the one in force at the controller, whichever robot object or
\* module function set it and whichever sends the request, until someone else
\* sets it.  Nothing is claimed before the script's first set_ref_coord, nor after
\* one that returned -1 or raised: _g_coord then holds what the controller may
\* not have taken.  A force condition on a rotation axis is asked in DR_TOOL.
DefaultRefIsControllers ==
  LET Defaulted == call.dref /\ "ref" \in DOMAIN call.o.req /\ call.o.svc \notin FixedDefault
  IN  Underway /\ Defaulted /\ told
        => \/ call.o.req.ref = ctl
           \/ /\ call.o.svc = "check_force_condition"
              /\ call.o.req.axis.n \in DR_AXIS_ABC
              /\ call.o.req.ref = PyInt(DR_TOOL)

\* A motion that is sent can move: it has a time, or a velocity and an
\* acceleration.  movej and movejx send the first item of their lists only, so
\* this is claimed where the defaults are used; the time of moveb is not
\* checked and may be negative.
MotionMoves ==
  Underway =>
    LET o == call.o
        q == o.req
        Timed == q.time.n > 0
        First(v) == v.s[1].n > 0
        Some(v)  == \E i \in DOMAIN v.s : v.s[i].n > 0
    IN  /\ o.svc \in {"move_joint", "move_jointx"} /\ call.plain /\ ~o.absolute
             => Timed \/ (q.vel.n > 0 /\ q.acc.n > 0)
        /\ o.svc \in TaskMotions => \/ Timed
                                    \/ First(q.vel) /\ First(q.acc)
                                    \/ o.svc = "move_blending" /\ q.time.n < 0
        /\ o.svc \in {"move_spline_joint", "move_spiral"} => Timed \/ (Some(q.vel) /\ Some(q.acc))

\* A function that waits for its service returns, also when it is called while
\* the controller is still creating its services.
WaitersReturn ==
  ((Underway \/ pc = "lost") /\ call.o.waits) ~> (pc = "idle")

\* "user coord(101~200)": a user coordinate that the checks of set_ref_coord
\* accept can be sent.
UserCoordsSent == pc = "raised" /\ call.o.svc = "set_ref_coord" => call.o.err # "PY"
=============================================================================
