-------------------------- MODULE RobotMotionProofs --------------------------
(***************************************************************************)
(* The same script: a motion that is sent can move, and once the defaults   *)
(* of a kind of motion are set a good call of it is accepted.               *)
(*                                                                          *)
(* Again in two halves.  For each function: what it sends for whatever      *)
(* arguments its checks let through (the motions), or that it sends no      *)
(* motion; and that its good arguments pass its checks and fit the fields   *)
(* of the request, or why they do not.  For the script: a call that is under*)
(* way or was refused came from such a function, with the settings of now.  *)
(***************************************************************************)
EXTENDS RobotScriptProofs

Movers == {"move_joint", "move_jointx", "move_spline_joint", "move_spiral"} \cup TaskMotions

\* What MotionMoves says of a call that came to o
CanMove(o, plain) ==
  LET Timed    == o.req.time.n > 0
      First(v) == v.s[1].n > 0
      Some(v)  == \E i \in DOMAIN v.s : v.s[i].n > 0
  IN  /\ o.svc \in {"move_joint", "move_jointx"} /\ plain /\ ~o.absolute
           => Timed \/ (o.req.vel.n > 0 /\ o.req.acc.n > 0)
      /\ o.svc \in TaskMotions => \/ Timed
                                  \/ First(o.req.vel) /\ First(o.req.acc)
                                  \/ o.svc = "move_blending" /\ o.req.time.n < 0
      /\ o.svc \in {"move_spline_joint", "move_spiral"}
           => Timed \/ (Some(o.req.vel) /\ Some(o.req.acc))

\* What DefaultsAccepted says of a good call of svc that was refused with settings g
Excused(svc, g) ==
  LET Initial(k) == g[k] = InitialSettings[k]
      Unset(k)   == g[k].s[2] = PyInt(DR_COND_NONE)
  IN  /\ svc \in JointMotions \cup TaskMotions \cup StrictMotions \cup {"get_current_posx"}
      /\ svc \in JointMotions => Initial("velj") \/ Initial("accj")
      /\ svc \in TaskMotions => Initial("velx") \/ Initial("accx")
      /\ svc \in StrictMotions => Unset("velx") \/ Unset("accx")
      /\ svc = "get_current_posx" => g.coord = PyInt(DR_TOOL)

\* A call that is sent can move, a good one that is refused has its reason.
Expected(plain, o) ==
  /\ o.err = "ok" => CanMove(o, plain)
  /\ o.err # "ok" /\ plain /\ ~o.absolute => Excused(o.svc, glob)

SoundCall == \E plain, dref, o : Invoke(plain, dref, o) /\ Expected(plain, o)

\* o is what a call comes to that is no motion.
Still(o) == DOMAIN o = Fields /\ o.svc \notin Movers

-----------------------------------------------------------------------------
(* From calls to the script *)

\* A call that is no motion is sound when a good one passes.
LEMMA StillSound ==
  ASSUME NEW plain, NEW dref, NEW o, Invoke(plain, dref, o), Still(o), plain => o.err = "ok"
  PROVE  SoundCall
<1>1. Expected(plain, o)
  BY DEF Expected, CanMove, Still, Movers
<1> QED
  BY <1>1 DEF SoundCall

\* A method is exempt: its object has no setters.
LEMMA MethodSound ==
  ASSUME NEW plain, NEW dref, NEW o, Invoke(plain, dref, Method(o)), Still(o)
  PROVE  SoundCall
<1>1. Method(o).absolute /\ Method(o).svc = o.svc
  BY DEF Method, Still, Fields
<1>2. Expected(plain, Method(o))
  BY <1>1 DEF Expected, CanMove, Still, Movers
<1> QED
  BY <1>2 DEF SoundCall

\* A call of a service that is no motion ...
LEMMA CallStill ==
  ASSUME NEW err, NEW g, NEW svc, NEW answer, NEW req, svc \notin Movers
  PROVE  Still(Call(err, g, svc, answer, req)) /\ Still(CallWaiting(err, g, svc, answer, req))
<1> DEFINE o == Call(err, g, svc, answer, req)
<1>1. DOMAIN o = Fields /\ o.svc = svc
  BY CallForm
<1> HIDE DEF o
<1>2. Still(o) /\ Still([o EXCEPT !.waits = TRUE])
  BY <1>1 DEF Still, Fields
<1> QED
  BY <1>2 DEF o, CallWaiting

\* ... passes when its checks do and its fields fit.
LEMMA CallPasses ==
  ASSUME NEW g, NEW svc, NEW answer, NEW req, \A f \in DOMAIN req : req[f] # Misfit
  PROVE  /\ Call("ok", g, svc, answer, req).err = "ok"
         /\ CallWaiting("ok", g, svc, answer, req).err = "ok"
BY DEF Call, CallWaiting, Outcome, PyIf

\* An exception is no motion.
LEMMA RaisedStill == \A err, g : Still(Raised(err, g))
BY DEF Raised, Outcome, Still, Fields, Movers, TaskMotions

\* The services of motions, one by one
LEMMA MoverNames ==
  ASSUME NEW svc
  PROVE  svc \in Movers <=> svc \in {"move_joint", "move_jointx", "move_spline_joint", "move_spiral",
           "move_line", "move_circle", "move_spline_task", "move_blending"}
BY DEF Movers, TaskMotions

-----------------------------------------------------------------------------
(* The functions that are no motions *)

\* What is done around a motion is none.
LEMMA AroundStill ==
  ASSUME NEW g, NEW a
  PROVE  /\ Still(move_home(g, a))
         /\ Still(move_wait(g, a))
         /\ Still(check_motion(g, a))
         /\ Still(change_operation_speed(g, a))
         /\ Still(alter_motion(g, a))
         /\ Still(disable_alter_motion(g, a))
         /\ Still(set_singular_handling(g, a))
         /\ Still(jog(g, a))
         /\ Still(jog_multi(g, a))
         /\ Still(get_workpiece_weight(g, a))
         /\ Still(reset_workpiece_weight(g, a))
BY CallStill, MoverNames
  DEF move_home, move_wait, check_motion, change_operation_speed, alter_motion,
      disable_alter_motion, set_singular_handling, jog, jog_multi, get_workpiece_weight,
      reset_workpiece_weight, Getter

\* Streamed motions are published, not sent.
LEMMA StreamStill ==
  ASSUME NEW g, NEW a
  PROVE  /\ Still(alter_motion_stream(g, a))
         /\ Still(servoj(g, a))
         /\ Still(servol(g, a))
         /\ Still(speedj(g, a))
         /\ Still(speedl(g, a))
         /\ Still(servoj_rt(g, a))
         /\ Still(servol_rt(g, a))
         /\ Still(speedj_rt(g, a))
         /\ Still(speedl_rt(g, a))
         /\ Still(torque_rt(g, a))
BY CallStill, MoverNames
  DEF alter_motion_stream, servoj, servol, speedj, speedl, servoj_rt, servol_rt,
      speedj_rt, speedl_rt, torque_rt, Publish

\* The realtime services ...
LEMMA RtStill ==
  ASSUME NEW g, NEW a
  PROVE  /\ Still(set_safety_mode(g, a))
         /\ Still(disconnect_rt_control(g, a))
         /\ Still(start_rt_control(g, a))
         /\ Still(stop_rt_control(g, a))
         /\ Still(get_rt_control_output_version_list(g, a))
         /\ Still(get_rt_control_input_version_list(g, a))
         /\ Still(get_rt_control_input_data_list(g, a))
         /\ Still(get_rt_control_output_data_list(g, a))
BY CallStill, MoverNames
  DEF set_safety_mode, disconnect_rt_control, start_rt_control, stop_rt_control,
      get_rt_control_output_version_list, get_rt_control_input_version_list,
      get_rt_control_input_data_list, get_rt_control_output_data_list

\* ... and their settings and data.
LEMMA RtDataStill ==
  ASSUME NEW g, NEW a
  PROVE  /\ Still(read_data_rt(g, a))
         /\ Still(set_rt_control_input(g, a))
         /\ Still(set_rt_control_output(g, a))
         /\ Still(set_velj_rt(g, a))
         /\ Still(set_accj_rt(g, a))
         /\ Still(set_velx_rt(g, a))
         /\ Still(set_accx_rt(g, a))
         /\ Still(write_data_rt(g, a))
BY CallStill, MoverNames
  DEF read_data_rt, set_rt_control_input, set_rt_control_output, set_velj_rt,
      set_accj_rt, set_velx_rt, set_accx_rt, write_data_rt, RtControl

\* Poses and conditions in the coordinate in force.
LEMMA PoseInCoordStill ==
  ASSUME NEW g, NEW a
  PROVE  /\ Still(get_current_posx(g, a))
         /\ Still(get_desired_posx(g, a))
         /\ Still(trans(g, a))
         /\ Still(check_position_condition(g, a))
         /\ Still(check_orientation_condition1(g, a))
         /\ Still(check_orientation_condition2(g, a))
BY CallStill, MoverNames
  DEF get_current_posx, get_desired_posx, trans, check_position_condition,
      check_orientation_condition1, check_orientation_condition2, PoseIn

\* Poses that are read in no coordinate.
LEMMA PoseStill ==
  ASSUME NEW g, NEW a
  PROVE  /\ Still(get_current_solution_space(g, a))
         /\ Still(get_solution_space(g, a))
         /\ Still(get_orientation_error(g, a))
         /\ Still(coord_transform(g, a))
         /\ Still(get_user_cart_coord(g, a))
BY CallStill, MoverNames
  DEF get_current_solution_space, get_solution_space, get_orientation_error,
      coord_transform, get_user_cart_coord, Getter

\* Poses that are read in DR_BASE.
LEMMA PoseFixedStill ==
  ASSUME NEW g, NEW a
  PROVE  /\ Still(get_current_tool_flange_posx(g, a))
         /\ Still(get_current_velx(g, a))
         /\ Still(get_desired_velx(g, a))
         /\ Still(get_current_rotm(g, a))
         /\ Still(get_tool_force(g, a))
         /\ Still(fkin(g, a))
         /\ Still(ikin(g, a))
         /\ Still(overwrite_user_cart_coord(g, a))
BY CallStill, MoverNames
  DEF get_current_tool_flange_posx, get_current_velx, get_desired_velx, get_current_rotm,
      get_tool_force, fkin, ikin, overwrite_user_cart_coord, InBaseOrWorld, PoseIn

\* Compliance and force.
LEMMA ForceStill ==
  ASSUME NEW g, NEW a
  PROVE  /\ Still(task_compliance_ctrl(g, a))
         /\ Still(set_stiffnessx(g, a))
         /\ Still(release_compliance_ctrl(g, a))
         /\ Still(set_desired_force(g, a))
         /\ Still(release_force(g, a))
         /\ Still(is_done_bolt_tightening(g, a))
BY CallStill, MoverNames
  DEF task_compliance_ctrl, set_stiffnessx, release_compliance_ctrl, set_desired_force,
      release_force, is_done_bolt_tightening, Stiffness

\* Modes and states.
LEMMA ModesStill ==
  ASSUME NEW g, NEW a
  PROVE  /\ Still(set_robot_mode(g, a))
         /\ Still(set_robot_system(g, a))
         /\ Still(set_robot_speed_mode(g, a))
         /\ Still(set_safe_stop_reset_type(g, a))
         /\ Still(get_current_pose(g, a))
         /\ Still(get_robot_mode(g, a))
         /\ Still(get_robot_system(g, a))
         /\ Still(get_robot_state(g, a))
         /\ Still(get_robot_speed_mode(g, a))
         /\ Still(get_last_alarm(g, a))
         /\ Still(get_control_mode(g, a))
         /\ Still(get_control_space(g, a))
         /\ Still(get_current_posj(g, a))
         /\ Still(get_current_velj(g, a))
         /\ Still(get_desired_posj(g, a))
         /\ Still(get_desired_velj(g, a))
         /\ Still(get_joint_torque(g, a))
         /\ Still(get_external_torque(g, a))
BY CallStill, MoverNames
  DEF set_robot_mode, set_robot_system, set_robot_speed_mode, set_safe_stop_reset_type,
      get_current_pose, get_robot_mode, get_robot_system, get_robot_state,
      get_robot_speed_mode, get_last_alarm, get_control_mode, get_control_space,
      get_current_posj, get_current_velj, get_desired_posj, get_desired_velj,
      get_joint_torque, get_external_torque, Getter, Command, Reading

\* Inputs and outputs.
LEMMA PortsStill ==
  ASSUME NEW g, NEW a
  PROVE  /\ Still(get_digital_input(g, a))
         /\ Still(get_digital_output(g, a))
         /\ Still(get_tool_digital_input(g, a))
         /\ Still(get_tool_digital_output(g, a))
         /\ Still(get_analog_input(g, a))
         /\ Still(set_digital_output(g, a))
         /\ Still(set_tool_digital_output(g, a))
         /\ Still(set_mode_analog_input(g, a))
         /\ Still(del_modbus_signal(g, a))
         /\ Still(set_modbus_output(g, a))
         /\ Still(get_modbus_input(g, a))
BY CallStill, MoverNames
  DEF get_digital_input, get_digital_output, get_tool_digital_input,
      get_tool_digital_output, get_analog_input, set_digital_output,
      set_tool_digital_output, set_mode_analog_input, del_modbus_signal,
      set_modbus_output, get_modbus_input, Command, Reading, ReadPort, WritePort,
      NamedCommand

\* Tools, TCPs and DRL scripts.
LEMMA ToolStill ==
  ASSUME NEW g, NEW a
  PROVE  /\ Still(set_tcp(g, a))
         /\ Still(get_tcp(g, a))
         /\ Still(set_tool(g, a))
         /\ Still(get_tool(g, a))
         /\ Still(set_tool_shape(g, a))
         /\ Still(del_tcp(g, a))
         /\ Still(del_tool(g, a))
         /\ Still(add_tcp(g, a))
         /\ Still(add_tool(g, a))
         /\ Still(drl_script_run(g, a))
         /\ Still(drl_script_stop(g, a))
         /\ Still(drl_script_pause(g, a))
         /\ Still(drl_script_resume(g, a))
         /\ Still(get_drl_state(g, a))
BY CallStill, MoverNames
  DEF set_tcp, get_tcp, set_tool, get_tool, set_tool_shape, del_tcp, del_tool, add_tcp,
      add_tool, drl_script_run, drl_script_stop, drl_script_pause, drl_script_resume,
      get_drl_state, Getter, Command, NamedCommand

\* The rest, whose requests or services depend on the arguments.
LEMMA OthersStill ==
  ASSUME NEW g, NEW a, NEW extra
  PROVE  /\ Still(connect_rt_control(g, a))
         /\ Still(add_modbus_signal(g, a))
         /\ Still(enable_alter_motion(g, a))
         /\ Still(check_force_condition_limits(g, a, extra))
         /\ Still(check_orientation_condition(g, a))
<1>1. Still(connect_rt_control(g, a))
  BY CallStill, MoverNames DEF connect_rt_control
<1>2. Still(add_modbus_signal(g, a))
  BY CallStill, MoverNames DEF add_modbus_signal, Command
<1>3. Still(enable_alter_motion(g, a))
  BY CallStill, MoverNames DEF enable_alter_motion
<1>4. Still(check_force_condition_limits(g, a, extra))
  BY CallStill, MoverNames DEF check_force_condition_limits
<1>5. Still(check_orientation_condition(g, a))
  BY PoseInCoordStill, RaisedStill DEF check_orientation_condition
<1> QED
  BY <1>1, <1>2, <1>3, <1>4, <1>5

\* A periodic motion has no velocity.
LEMMA PeriodicStill ==
  ASSUME NEW g, NEW a, NEW async
  PROVE  Still(move_periodic(g, a, async))
BY CallStill, MoverNames DEF move_periodic

\* The functions with *args and **kargs, whichever form they take.
LEMMA FormsStill ==
  ASSUME NEW g, NEW a
  PROVE  /\ Still(parallel_axis(g, a))
         /\ Still(align_axis(g, a))
         /\ Still(calc_coord(g, a))
         /\ Still(set_user_cart_coord(g, a))
<1>1. Still(parallel_axis(g, a))
  BY CallStill, MoverNames, RaisedStill DEF parallel_axis
<1>2. Still(align_axis(g, a))
  BY RaisedStill DEF align_axis
<1>3. Still(calc_coord(g, a))
  <2>1. \A err, req : Still(Call(err, g, "calc_coord", "value", req))
    BY CallStill, MoverNames
  <2> QED
    BY <2>1, RaisedStill, Zenon DEF calc_coord
<1>4. Still(set_user_cart_coord(g, a))
  <2> DEFINE f   == CHOOSE f \in CartCoordForm(a) : TRUE
             svc == CASE f.nType \in {0, 3} -> "set_user_cart_coord2"
                      [] f.nType \in {1, 4} -> "set_user_cart_coord3"
                      [] OTHER -> "set_user_cart_coord1"
  <2>1. svc \notin Movers
    BY MoverNames
  <2>2. \/ \E err : set_user_cart_coord(g, a) = Raised(err, g)
        \/ \E err, req : set_user_cart_coord(g, a) = Call(err, g, svc, "value", req)
    BY ZenonT(90) DEF set_user_cart_coord
  <2> QED
    BY <2>1, <2>2, CallStill, RaisedStill
<1> QED
  BY <1>1, <1>2, <1>3, <1>4

\* The functions that set something.
LEMMA SettersStill ==
  ASSUME NEW g, NEW a
  PROVE  /\ Still(set_velj(g, a)) /\ Still(set_accj(g, a))
         /\ Still(set_velx(g, a)) /\ Still(set_accx(g, a))
         /\ Still(set_ref_coord(g, a))
<1>1. \A err, new : Still(Settings(err, g, new))
  BY DEF Settings, Outcome, Still, Fields, Movers, TaskMotions
<1>2. Still(set_ref_coord(g, a))
  <2> DEFINE o == Call(IntIn(a.coord, NamedCoords), g, "set_ref_coord", "status",
                       [coord |-> AsInt8(a.coord)])
  <2>1. Still(o)
    BY CallStill, MoverNames
  <2>2. set_ref_coord(g, a) = o \/ set_ref_coord(g, a) = [o EXCEPT !.g.coord = a.coord]
    BY DEF set_ref_coord
  <2> HIDE DEF o
  <2> QED
    BY <2>1, <2>2 DEF Still, Fields
<1> QED
  BY <1>1, <1>2 DEF set_velj, set_accj, set_velx, set_accx

\* The methods with a text of their own.
LEMMA MethodsStill ==
  ASSUME NEW g, NEW a
  PROVE  \A plain, dref :
           /\ Invoke(plain, dref, robot_move_home(g, a)) => SoundCall
           /\ Invoke(plain, dref, robot_get_tool_force(g, a)) => SoundCall
           /\ Invoke(plain, dref, robot_check_force_condition(g, a)) => SoundCall
           /\ Invoke(plain, dref, robot_check_orientation_condition(g, a)) => SoundCall
<1>1. ASSUME NEW plain, NEW dref, Invoke(plain, dref, robot_move_home(g, a))
      PROVE  SoundCall
  <2> DEFINE o == robot_move_home(g, a)
  <2>1. o.absolute /\ o.svc \notin Movers
    <3>1. Still(move_home(g, a))
      BY AroundStill
    <3> QED
      BY <3>1 DEF robot_move_home, Method, Still, Fields
  <2> HIDE DEF o
  <2>2. Expected(plain, o)
    BY <2>1, MoverNames DEF Expected, CanMove, Movers
  <2> QED
    BY <1>1, <2>2 DEF SoundCall, o
<1>2. ASSUME NEW plain, NEW dref, Invoke(plain, dref, robot_get_tool_force(g, a))
      PROVE  SoundCall
  BY <1>2, MethodSound, CallStill, MoverNames DEF robot_get_tool_force, PoseIn
<1>3. ASSUME NEW plain, NEW dref, Invoke(plain, dref, robot_check_force_condition(g, a))
      PROVE  SoundCall
  BY <1>3, MethodSound, OthersStill DEF robot_check_force_condition
<1>4. ASSUME NEW plain, NEW dref, Invoke(plain, dref, robot_check_orientation_condition(g, a))
      PROVE  SoundCall
  <2>1. \/ robot_check_orientation_condition(g, a) = Method(Raised("PY", g))
        \/ robot_check_orientation_condition(g, a) = Method(check_orientation_condition(g, a))
    BY DEF robot_check_orientation_condition
  <2> QED
    BY <1>4, <2>1, MethodSound, OthersStill, RaisedStill
<1> QED
  BY <1>1, <1>2, <1>3, <1>4

-----------------------------------------------------------------------------
(* Good arguments pass *)

\* A chain of checks passes when each of them does.
LEMMA Chain == \A e1, e2 : e1 ++ e2 = "ok" <=> e1 = "ok" /\ e2 = "ok"
BY DEF ++

\* The scalars of good calls fit the fields they are sent in.
LEMMA ScalarsFit ==
  /\ AsInt8(ZERO) # Misfit /\ AsInt8(ONE) # Misfit /\ AsInt32(ONE) # Misfit
  /\ AsInt8(PyInt(2)) # Misfit /\ AsInt8(PyInt(10)) # Misfit /\ AsInt8(PyInt(101)) # Misfit
  /\ AsFloat64(ToFloat(ZERO)) # Misfit /\ AsFloat64(ToFloat(ONE)) # Misfit
  /\ AsFloat64(ToFloat(PyInt(7))) # Misfit /\ AsFloat64(ToFloat(PyInt(10))) # Misfit
  /\ AsFloat64(ToFloat(PyFloat(0))) # Misfit
  /\ AsFloat64(PyFloat(0)) # Misfit /\ AsFloat64(PyFloat(1)) # Misfit
  /\ AsString(Str) # Misfit
BY DEF AsInt8, AsInt32, AsFloat64, AsString, ToFloat, Fits, Misfit, ZERO, ONE, Str, IsNum,
   PyInt,
       PyFloat, PyValue

\* What they are
LEMMA ScalarForms ==
  /\ ZERO.ty = "int" /\ ZERO.n = 0 /\ ZERO # None
  /\ ONE.ty = "int" /\ ONE.n = 1 /\ ONE # None
  /\ Str.ty = "str"
  /\ \A n : PyInt(n).ty = "int" /\ PyInt(n).n = n /\ PyInt(n) # None
  /\ \A n : PyFloat(n).ty = "float" /\ PyFloat(n).n = n /\ PyFloat(n) # None
BY DEF ZERO, ONE, Str, None, PyInt, PyFloat, PyValue

\* Lists of six or two numbers convert and fit.
LEMMA ListsFit ==
  ASSUME NEW k \in {2, 3, 6}, NEW v, IsSeq(v), Len(v.s) = k, DOMAIN v.s = 1..k,
         \A i \in 1..k : IsNum(v.s[i])
  PROVE  AsFloat64s(k, Floats(v)) # Misfit
<1> DEFINE w == [i \in 1..k |-> PyFloat(v.s[i].n)]
<1>1. Floats(v) = List(w)
  BY DEF Floats
<1>2. Len(w) = k /\ \A i \in 1..k : w[i].ty = "float"
  BY DEF PyFloat, PyValue
<1> HIDE DEF w
<1>3. List(w).ty = "list" /\ List(w).s = w
  BY DEF List, PyValue
<1>4. AsFloat64s(k, List(w)) = List(w)
  BY <1>2, <1>3 DEF AsFloat64s, Fits, IsSeq
<1>5. List(w) # Misfit
  BY <1>3 DEF Misfit, PyValue
<1> QED
  BY <1>1, <1>4, <1>5

\* The first item of a list is the one is_number looks at.
LEMMA LeadingNumber ==
  ASSUME NEW v, NEW e, IsSeq(v), 1 \in DOMAIN v.s, v.s # << >>, IsNum(v.s[1])
  PROVE  is_number(v, e) = "ok"
<1>1. Lead(v) = v.s[1]
  BY DEF Lead, IsSeq, IsNum
<1> QED
  BY <1>1 DEF is_number, IsNum

\* A good pose passes the checks of poses and fits its fields, converted or not.
LEMMA GoodPosePasses ==
  /\ GoodPose.ty = "list" /\ IsList(6, GoodPose) /\ GoodPose # None
  /\ \A e : is_number(GoodPose, e) = "ok"
  /\ get_posj(GoodPose) = "ok" /\ get_posx(GoodPose) = "ok" /\ get_normal_pos(GoodPose) = "ok"
  /\ AsFloat64s(6, Floats(GoodPose)) # Misfit
  /\ AsFloat64s(6, GoodPose) # Misfit
<1>1. GoodPose.ty = "list" /\ IsList(6, GoodPose) /\ IsSeq(GoodPose)
  BY GoodAssumption DEF IsList, IsSeq
<1>2. /\ DOMAIN GoodPose.s = 1..6 /\ Len(GoodPose.s) = 6
      /\ \A i \in 1..6 : IsNum(GoodPose.s[i]) /\ GoodPose.s[i].ty = "float"
  BY GoodAssumption DEF IsList, IsNum
<1>3. GoodPose # None /\ GoodPose # Misfit
  BY <1>1 DEF None, Misfit, PyValue
<1>4. 1 \in DOMAIN GoodPose.s /\ GoodPose.s # << >> /\ IsNum(GoodPose.s[1])
  BY <1>2
<1>5. \A e : is_number(GoodPose, e) = "ok"
  BY <1>1, <1>4, LeadingNumber
<1>6. get_posj(GoodPose) = "ok" /\ get_posx(GoodPose) = "ok" /\ get_normal_pos(GoodPose) = "ok"
  BY <1>1, <1>5 DEF get_posj, get_posx, get_normal_pos, POINT_COUNT
<1>7. AsFloat64s(6, Floats(GoodPose)) # Misfit
  BY <1>1, <1>2, ListsFit
<1>8. AsFloat64s(6, GoodPose) = GoodPose
  BY <1>1, <1>2 DEF AsFloat64s, Fits
<1> QED
  BY <1>1, <1>3, <1>5, <1>6, <1>7, <1>8

\* A coordinate that set_ref_coord kept passes wherever it is the default, but in
\* get_current_posx, which refuses DR_TOOL.
LEMMA NameablePasses ==
  ASSUME NEW c, Nameable(c)
  PROVE  /\ AsInt8(c) # Misfit
         /\ Coord(None, c) = c
         /\ IntIn(c, NamedCoords) = "ok" /\ IntIn(c, AnyCoord) = "ok"
         /\ c # PyInt(DR_TOOL) => IntIn(c, BaseOrWorld \cup UserCoords) = "ok"
<1>1. PICK n \in NamedCoords : n \in -128..127 /\ c = PyInt(n)
  BY DEF Nameable
<1>2. c.ty = "int" /\ c.n = n
  BY <1>1, ScalarForms
<1>3. AsInt8(c) = c /\ c # Misfit
  BY <1>1, <1>2 DEF AsInt8, Fits, Misfit, PyValue
<1>4. n \in AnyCoord /\ (n # DR_TOOL => n \in BaseOrWorld \cup UserCoords)
  BY DEF NamedCoords, AnyCoord, BaseOrWorld, UserCoords, DR_BASE, DR_TOOL, DR_WORLD,
         DR_TC_USER_MIN, DR_TC_USER_MAX
<1>5. c # PyInt(DR_TOOL) => n # DR_TOOL
  BY <1>1
<1> QED
  BY <1>2, <1>3, <1>4, <1>5 DEF IntIn, ++, TypeIf, ValueIf, Coord

\* The coordinates that good calls name, and their default where it is DR_BASE.
LEMMA NamedPass ==
  /\ Nameable(ZERO)
  /\ Coord(None, PyInt(DR_BASE)) = ZERO /\ PyInt(DR_BASE) = ZERO
  /\ EqualsOneOf(ZERO, BaseOrWorld) = "ok"
  /\ EqualsOneOf(ZERO, {DR_BASE, DR_TOOL, DR_WORLD}) = "ok"
  /\ IntIn(ZERO, BaseOrWorld \cup UserCoords) = "ok"
<1>1. 0 \in NamedCoords /\ 0 \in BaseOrWorld /\ 0 \in -128..127
  BY DEF NamedCoords, BaseOrWorld, DR_BASE
<1>2. IsNum(ZERO) /\ ZERO.n = 0 /\ ZERO = PyInt(0) /\ ZERO.ty = "int"
  BY ScalarForms DEF IsNum, ZERO
<1>3. Nameable(ZERO)
  BY <1>1, <1>2 DEF Nameable
<1>4. PyInt(DR_BASE) = ZERO /\ Coord(None, ZERO) = ZERO
  BY DEF ZERO, DR_BASE, Coord
<1> QED
  BY <1>1, <1>2, <1>3, <1>4 DEF EqualsOneOf, IntIn, ++, TypeIf, ValueIf, DR_BASE

\* Modes, states and what is asked about a motion.
LEMMA ModesPass ==
  ASSUME NEW g
  PROVE  /\ set_robot_mode(g, [robot_mode |-> ONE]).err = "ok"
         /\ set_robot_system(g, [robot_system |-> ONE]).err = "ok"
         /\ set_robot_speed_mode(g, [speed_mode |-> ONE]).err = "ok"
         /\ set_safe_stop_reset_type(g, [reset_type |-> ONE]).err = "ok"
         /\ get_current_pose(g, [space_type |-> ONE]).err = "ok"
BY CallPasses, ScalarsFit, ScalarForms
  DEF set_robot_mode, set_robot_system, set_robot_speed_mode, set_safe_stop_reset_type,
      get_current_pose, Command, Reading, IsInt, TypeIf

\* A function without arguments has nothing to refuse.
LEMMA GettersPass ==
  ASSUME NEW g, NEW a
  PROVE  /\ get_robot_mode(g, a).err = "ok" /\ get_robot_system(g, a).err = "ok"
         /\ get_robot_state(g, a).err = "ok" /\ get_robot_speed_mode(g, a).err = "ok"
         /\ get_last_alarm(g, a).err = "ok" /\ get_control_mode(g, a).err = "ok"
         /\ get_control_space(g, a).err = "ok" /\ get_current_posj(g, a).err = "ok"
         /\ get_current_velj(g, a).err = "ok" /\ get_desired_posj(g, a).err = "ok"
         /\ get_desired_velj(g, a).err = "ok" /\ get_joint_torque(g, a).err = "ok"
         /\ get_external_torque(g, a).err = "ok" /\ get_current_solution_space(g, a).err = "ok"
         /\ check_motion(g, a).err = "ok" /\ get_workpiece_weight(g, a).err = "ok"
         /\ reset_workpiece_weight(g, a).err = "ok" /\ disable_alter_motion(g, a).err = "ok"
         /\ release_compliance_ctrl(g, a).err = "ok" /\ drl_script_pause(g, a).err = "ok"
         /\ drl_script_resume(g, a).err = "ok" /\ get_drl_state(g, a).err = "ok"
         /\ get_tcp(g, a).err = "ok" /\ get_tool(g, a).err = "ok"
<1>1. \A svc, answer : Call("ok", g, svc, answer, NoFields).err = "ok"
  BY CallPasses, NoFieldsEmpty
<1> QED
  BY <1>1
  DEF get_robot_mode, get_robot_system, get_robot_state, get_robot_speed_mode, get_last_alarm,
      get_control_mode, get_control_space, get_current_posj, get_current_velj, get_desired_posj,
      get_desired_velj, get_joint_torque, get_external_torque, get_current_solution_space,
      check_motion, get_workpiece_weight, reset_workpiece_weight, disable_alter_motion,
      release_compliance_ctrl, drl_script_pause, drl_script_resume, get_drl_state, get_tcp,
      get_tool, Getter, Command

\* Poses: what get_current_posx refuses, and that the others refuse nothing.
LEMMA PosesPass ==
  ASSUME NEW g, Nameable(g.coord)
  PROVE  /\ get_current_posx(g, InCoord).err = "ok" \/ g.coord = PyInt(DR_TOOL)
         /\ get_desired_posx(g, InCoord).err = "ok"
         /\ get_current_tool_flange_posx(g, InCoord).err = "ok"
         /\ get_current_velx(g, InCoord).err = "ok"
         /\ get_desired_velx(g, InCoord).err = "ok"
         /\ get_current_rotm(g, InCoord).err = "ok"
         /\ get_tool_force(g, InCoord).err = "ok"
<1>1. InCoord.ref = None
  BY DEF InCoord
<1>2. \A svc, answer, ref : AsInt8(ref) # Misfit => PoseIn(g, ref, "ok", svc, answer).err = "ok"
  BY CallPasses DEF PoseIn
<1>3. Coord(InCoord.ref, g.coord) = g.coord /\ AsInt8(g.coord) # Misfit
  BY <1>1, NameablePasses
<1>4. Coord(InCoord.ref, PyInt(DR_BASE)) = ZERO /\ AsInt8(ZERO) # Misfit
  BY <1>1, NamedPass, ScalarsFit
<1>5. ASSUME g.coord # PyInt(DR_TOOL)
      PROVE  get_current_posx(g, InCoord).err = "ok"
  <2>1. IntIn(g.coord, BaseOrWorld \cup UserCoords) = "ok"
    BY <1>5, NameablePasses
  <2> QED
    BY <1>2, <1>3, <2>1 DEF get_current_posx
<1>6. get_desired_posx(g, InCoord).err = "ok"
  BY <1>2, <1>3, NameablePasses DEF get_desired_posx
<1>7. \A svc : InBaseOrWorld(g, InCoord, svc).err = "ok"
  BY <1>2, <1>4, NamedPass DEF InBaseOrWorld
<1>8. get_tool_force(g, InCoord).err = "ok"
  BY <1>2, <1>4, NamedPass DEF get_tool_force
<1> QED
  BY <1>5, <1>6, <1>7, <1>8
  DEF get_current_tool_flange_posx, get_current_velx, get_desired_velx, get_current_rotm

\* Kinematics.
LEMMA KinematicsPass ==
  ASSUME NEW g, Nameable(g.coord)
  PROVE  /\ trans(g, [pos |-> GoodPose, delta |-> GoodPose, ref |-> None, ref_out |-> ZERO]).err = "ok"
         /\ get_solution_space(g, [pos |-> GoodPose]).err = "ok"
         /\ get_orientation_error(g, [xd |-> GoodPose, xc |-> GoodPose, axis |-> ZERO]).err = "ok"
         /\ coord_transform(g, [pose_in |-> GoodPose, ref_in |-> ZERO, ref_out |-> ZERO]).err = "ok"
         /\ fkin(g, [pos |-> GoodPose, ref |-> None]).err = "ok"
         /\ ikin(g, [pos |-> GoodPose, sol_space |-> ZERO, ref |-> None]).err = "ok"
<1>1. IntIn(ZERO, DR_AXIS_XYZ \cup DR_AXIS_ABC) = "ok" /\ IntIn(ZERO, DR_SOLS) = "ok"
  BY ScalarForms DEF IntIn, ++, TypeIf, ValueIf, DR_AXIS_XYZ, DR_SOLS
<1> QED
  BY <1>1, CallPasses, NameablePasses, NamedPass, ScalarsFit, ScalarForms, GoodPosePasses
  DEF trans, get_solution_space, get_orientation_error, coord_transform, fkin, ikin, ++, TypeIf

\* What is done around a motion.
LEMMA AroundPass ==
  ASSUME NEW g, Nameable(g.coord)
  PROVE  /\ move_home(g, [target |-> None]).err = "ok"
         /\ move_wait(g, [time |-> ZERO]).err = "ok"
         /\ change_operation_speed(g, [speed |-> ONE]).err = "ok"
         /\ alter_motion(g, [dposx |-> GoodPose]).err = "ok"
         /\ set_singular_handling(g, [mode |-> ZERO]).err = "ok"
         /\ jog(g, [jog_axis |-> ZERO, ref |-> ZERO, speed |-> ZERO]).err = "ok"
         /\ jog_multi(g, [jog_axis_list |-> GoodPose, ref |-> ZERO, speed |-> ZERO]).err = "ok"
<1>1. IntIn(ONE, 1..100) = "ok" /\ IntIn(ZERO, 0..2) = "ok"
  BY ScalarForms DEF IntIn, ++, TypeIf, ValueIf
<1>2. Number(ZERO) = "ok" /\ NumberNot(ZERO, Negative) = "ok"
  BY ScalarForms DEF Number, NumberNot, Negative, IsNum, ++, TypeIf, ValueIf
<1>3. Coord(None, PyInt(0)) = ZERO
  BY DEF Coord, ZERO
<1> QED
  BY <1>1, <1>2, <1>3, CallPasses, NoFieldsEmpty, ScalarsFit, ScalarForms, GoodPosePasses
  DEF move_home, move_wait, change_operation_speed, alter_motion, set_singular_handling, jog,
      jog_multi, ++, TypeIf

\* Altering a motion and a periodic one.
LEMMA AlterPasses ==
  ASSUME NEW g, Nameable(g.coord)
  PROVE  enable_alter_motion(g, [n |-> ONE, mode |-> ZERO, ref |-> None, limit_dPOS |-> None,
                                 limit_dPOS_per |-> None]).err = "ok"
<1> DEFINE limits == List(Times(2, PyInt(DR_COND_NONE)))
<1>1. AsFloat64s(2, Floats(limits)) # Misfit
  <2>1. /\ IsSeq(limits) /\ Len(limits.s) = 2 /\ DOMAIN limits.s = 1..2
        /\ \A i \in 1..2 : IsNum(limits.s[i])
    BY DEF IsSeq, List, PyValue, Times, IsNum, PyInt
  <2> HIDE DEF limits
  <2> QED
    BY <2>1, ListsFit
<1>2. PyIf(~IsNum(ZERO)) = "ok" /\ ValueIf(ZERO.n \notin {0, 1}) = "ok"
  BY ScalarForms DEF PyIf, IsNum, ValueIf
<1>3. TypeIf(ONE.ty # "int") = "ok" /\ TypeIf(ONE.n < 0) = "ok"
  BY ScalarForms DEF TypeIf
<1>4. IntIn(g.coord, {DR_BASE, DR_TOOL, DR_WORLD} \cup UserCoords) = "ok"
  BY NameablePasses DEF NamedCoords
<1> HIDE DEF limits
<1>5. \A n, mode, ref, l : /\ n # Misfit /\ mode # Misfit /\ ref # Misfit /\ l # Misfit
        => Call("ok", g, "enable_alter_motion", "status",
                [n |-> n, mode |-> mode, ref |-> ref, limit_dpos |-> l, limit_dpos_per |-> l]).err = "ok"
  BY CallPasses
<1> QED
  BY <1>1, <1>2, <1>3, <1>4, <1>5, NameablePasses, ScalarsFit
  DEF enable_alter_motion, ++, limits

\* A periodic motion.
LEMMA PeriodicPasses ==
  ASSUME NEW g, NEW async \in {0, 1}
  PROVE  move_periodic(g, [amp |-> GoodPose, period |-> ONE, atime |-> None, repeat |-> None,
                           ref |-> ONE], async).err = "ok"
<1> DEFINE period == SixOf(ONE)
<1>1. AsFloat64s(6, Floats(period)) # Misfit /\ Len(period.s) = 6
  <2>1. /\ IsSeq(period) /\ Len(period.s) = 6 /\ DOMAIN period.s = 1..6
        /\ \A i \in 1..6 : IsNum(period.s[i])
    BY DEF SixOf, IsSeq, List, PyValue, Times, IsNum, PyInt, POINT_COUNT, ONE
  <2> HIDE DEF period
  <2> QED
    BY <2>1, ListsFit
<1>2. /\ NumberNot(PyInt(0), Negative) = "ok" /\ NumberNot(PyInt(1), Negative) = "ok"
      /\ IsNum(ONE) /\ Coord(ONE, PyInt(DR_TOOL)) = ONE /\ IntIn(ONE, AnyCoord) = "ok"
  BY ScalarForms DEF NumberNot, Negative, IsNum, IntIn, AnyCoord, DR_BASE, DR_TC_USER_MAX,
     Coord,
     ++, TypeIf, ValueIf
<1>3. AsFloat64(ToFloat(PyInt(0))) # Misfit /\ AsInt8(ToInt(PyInt(1))) # Misfit /\ PyInt(async) # Misfit
  BY DEF AsFloat64, ToFloat, AsInt8, ToInt, Fits, IsNum, PyFloat, PyInt, PyValue, Misfit
<1> DEFINE a == [amp |-> GoodPose, period |-> ONE, atime |-> None, repeat |-> None, ref |-> ONE]
<1>4. a.amp = GoodPose /\ a.period = ONE /\ a.atime = None /\ a.repeat = None /\ a.ref = ONE
  OBVIOUS
<1> HIDE DEF a
<1> DEFINE o      == move_periodic(g, a, async)
           per    == SixOf(a.period)
           ref    == Coord(a.ref, PyInt(DR_TOOL))
           atime  == IF a.atime = None THEN PyInt(0) ELSE a.atime
           repeat == IF a.repeat = None THEN PyInt(1) ELSE a.repeat
           err    == TypeIf(a.amp.ty # "list") ++ ValueIf(Len(a.amp.s) # POINT_COUNT)
                       ++ TypeIf(~IsNum(a.period) /\ a.period.ty # "list")
                       ++ ValueIf(Len(per.s) # POINT_COUNT)
                       ++ NumberNot(atime, Negative) ++ NumberNot(repeat, Negative)
                       ++ IntIn(ref, AnyCoord)
           req    == [amp |-> AsFloat64s(6, Floats(a.amp)), periodic |-> AsFloat64s(6, Floats(per)),
                      acc |-> AsFloat64(ToFloat(atime)), repeat |-> AsInt8(ToInt(repeat)),
                      ref |-> AsInt8(ref), sync_type |-> PyInt(async)]
<1>5. o = CallWaiting(err, g, "move_periodic", "status", req)
  BY DEF move_periodic
<1>6. per = period /\ ref = ONE /\ atime = PyInt(0) /\ repeat = PyInt(1)
  BY <1>2, <1>4
<1> HIDE DEF o, per, ref, atime, repeat, period
<1>7. /\ TypeIf(a.amp.ty # "list") = "ok" /\ ValueIf(Len(a.amp.s) # POINT_COUNT) = "ok"
      /\ TypeIf(~IsNum(a.period) /\ a.period.ty # "list") = "ok"
      /\ ValueIf(Len(per.s) # POINT_COUNT) = "ok"
  BY <1>1, <1>2, <1>4, <1>6, GoodPosePasses DEF TypeIf, ValueIf, POINT_COUNT, IsList
<1>8. err = "ok"
  BY <1>2, <1>6, <1>7, Chain
<1>9. \A f \in DOMAIN req : req[f] # Misfit
  BY <1>1, <1>3, <1>4, <1>6, ScalarsFit, GoodPosePasses
<1> HIDE DEF err, req
<1>10. o.err = "ok"
  BY <1>5, <1>8, <1>9, CallPasses
<1> QED
  BY <1>10 DEF o, a

\* Realtime services.
LEMMA RtPass ==
  ASSUME NEW g
  PROVE  /\ set_safety_mode(g, [safety_mode |-> ONE, safety_event |-> ONE]).err = "ok"
         /\ \A a : /\ disconnect_rt_control(g, a).err = "ok" /\ start_rt_control(g, a).err = "ok"
                   /\ stop_rt_control(g, a).err = "ok" /\ read_data_rt(g, a).err = "ok"
                   /\ get_rt_control_output_version_list(g, a).err = "ok"
                   /\ get_rt_control_input_version_list(g, a).err = "ok"
         /\ get_rt_control_input_data_list(g, [version |-> Str]).err = "ok"
         /\ get_rt_control_output_data_list(g, [version |-> Str]).err = "ok"
BY CallPasses, NoFieldsEmpty, ScalarsFit, ScalarForms
  DEF set_safety_mode, disconnect_rt_control, start_rt_control, stop_rt_control, read_data_rt,
      get_rt_control_output_version_list, get_rt_control_input_version_list,
      get_rt_control_input_data_list, get_rt_control_output_data_list, IsType, TypeIf, ++

\* Their settings and data.
LEMMA RtDataPass ==
  ASSUME NEW g
  PROVE  /\ set_rt_control_input(g, RtPeriod).err = "ok"
         /\ set_rt_control_output(g, RtPeriod).err = "ok"
         /\ set_velj_rt(g, [vel |-> GoodPose]).err = "ok"
         /\ set_accj_rt(g, [acc |-> GoodPose]).err = "ok"
         /\ set_velx_rt(g, TwoRates).err = "ok"
         /\ set_accx_rt(g, TwoRates).err = "ok"
         /\ write_data_rt(g, Outside).err = "ok"
<1>1. \A svc : RtControl(g, RtPeriod, svc).err = "ok"
  BY CallPasses, ScalarsFit, ScalarForms DEF RtControl, RtPeriod, IsType, TypeIf, ++
<1>2. set_velj_rt(g, [vel |-> GoodPose]).err = "ok" /\ set_accj_rt(g, [acc |-> GoodPose]).err = "ok"
  BY CallPasses, GoodPosePasses DEF set_velj_rt, set_accj_rt, TypeIf
<1>3. set_velx_rt(g, TwoRates).err = "ok" /\ set_accx_rt(g, TwoRates).err = "ok"
  BY CallPasses, ScalarsFit, ScalarForms DEF set_velx_rt, set_accx_rt, TwoRates, IsType,
     TypeIf, ++
<1>4. write_data_rt(g, Outside).err = "ok"
  <2>1. /\ Outside.external_force_torque = GoodPose /\ Outside.external_digital_input = ONE
        /\ Outside.external_digital_output = ONE /\ Outside.external_analog_input = GoodPose
        /\ Outside.external_analog_output = GoodPose
    BY DEF Outside
  <2> QED
    BY <2>1, CallPasses, ScalarsFit, ScalarForms, GoodPosePasses DEF write_data_rt,
       IsType, TypeIf, ++
<1> QED
  BY <1>1, <1>2, <1>3, <1>4 DEF set_rt_control_input, set_rt_control_output

\* The connection, to the default address and port.
LEMMA RtConnectPasses ==
  ASSUME NEW g
  PROVE  connect_rt_control(g, [ip_address |-> None, port |-> None]).err = "ok"
<1>1. \A port : port # Misfit => CallWaiting("ok", g, "connect_rt_control", "kept",
                                             [ip_address |-> Str, port |-> port]).err = "ok"
  <2>1. Str # Misfit
    BY DEF Str, Misfit, PyValue
  <2> QED
    BY <2>1, CallPasses
<1>2. \A n : PyInt(n) # Misfit
  BY DEF PyInt, PyValue, Misfit
<1>3. None.ty = "NoneType"
  BY DEF None, PyValue
<1> QED
  BY <1>1, <1>2, <1>3 DEF connect_rt_control, ++, TypeIf

\* User coordinates.
LEMMA UserCoordsPass ==
  ASSUME NEW g
  PROVE  /\ overwrite_user_cart_coord(g, [id |-> PyInt(101), pos |-> GoodPose, ref |-> None]).err = "ok"
         /\ get_user_cart_coord(g, [id |-> PyInt(101)]).err = "ok"
BY CallPasses, NamedPass, ScalarsFit, GoodPosePasses
  DEF overwrite_user_cart_coord, get_user_cart_coord, ++

\* Compliance and force, in the coordinate in force.
LEMMA ForcePasses ==
  ASSUME NEW g, Nameable(g.coord)
  PROVE  /\ task_compliance_ctrl(g, Stiff).err = "ok"
         /\ set_stiffnessx(g, Stiff).err = "ok"
         /\ set_desired_force(g, [fd |-> Six(0), dir |-> Six(0), time |-> ZERO, mod |-> ZERO]).err = "ok"
         /\ release_force(g, [time |-> ZERO]).err = "ok"
         /\ is_done_bolt_tightening(g, [m |-> ZERO, timeout |-> ZERO, axis |-> ZERO]).err = "ok"
<1>1. ASSUME NEW n \in Int
      PROVE  SixOrType(Six(n)) = "ok" /\ AsFloat64s(6, Floats(Six(n))) # Misfit
  <2> DEFINE v == Six(n)
  <2>1. /\ IsSeq(v) /\ IsList(6, v) /\ Len(v.s) = 6 /\ DOMAIN v.s = 1..6
        /\ \A i \in 1..6 : IsNum(v.s[i])
    BY DEF Six, IsSeq, IsList, List, PyValue, Times, IsNum, PyInt
  <2> HIDE DEF v
  <2>2. is_number(v, "VALUE") = "ok"
    BY <2>1, LeadingNumber
  <2>3. AsFloat64s(6, Floats(v)) # Misfit
    BY <2>1, ListsFit
  <2> QED
    BY <2>1, <2>2, <2>3 DEF v, SixOrType, TypeIf, ++
<1>2. AsInt8s(6, Six(0)) # Misfit
  BY DEF AsInt8s, AsInt8, Fits, Six, IsSeq, List, PyValue, PyInt, Times, Misfit
<1>3. ShortTime(ZERO) = "ok" /\ Capped(ZERO) # Misfit
  BY ScalarForms DEF ShortTime, NumberNot, IsNum, ++, TypeIf, ValueIf, Capped, AsFloat64, Fits,
     PyFloat, PyValue, Misfit
<1>4. Number(ZERO) = "ok" /\ NumberNot(ZERO, Negative) = "ok" /\ IntIn(ZERO, DR_AXIS_XYZ) = "ok"
  BY ScalarForms DEF Number, NumberNot, Negative, IsNum, IntIn, DR_AXIS_XYZ, ++, TypeIf, ValueIf
<1>5. AsInt8(g.coord) # Misfit
  BY NameablePasses
<1>6. \A svc : Stiffness(g, Stiff, svc).err = "ok"
  <2>1. SixOrType(Six(500)) = "ok" /\ AsFloat64s(6, Floats(Six(500))) # Misfit
    BY <1>1
  <2>2. Stiff.stx = Six(500) /\ Stiff.time = ZERO
    BY DEF Stiff
  <2> QED
    BY <1>3, <1>5, <2>1, <2>2, CallPasses DEF Stiffness, ++
<1>7. set_desired_force(g, [fd |-> Six(0), dir |-> Six(0), time |-> ZERO, mod |-> ZERO]).err = "ok"
  <2>1. SixOrType(Six(0)) = "ok" /\ AsFloat64s(6, Floats(Six(0))) # Misfit
    BY <1>1
  <2> QED
    BY <1>2, <1>3, <1>5, <2>1, CallPasses, ScalarsFit, ScalarForms DEF set_desired_force,
       ++, TypeIf
<1> QED
  BY <1>3, <1>4, <1>6, <1>7, CallPasses, ScalarsFit
  DEF task_compliance_ctrl, set_stiffnessx, release_force, is_done_bolt_tightening, ++

\* Conditions, in the coordinate in force.
LEMMA ConditionsPass ==
  ASSUME NEW g, Nameable(g.coord)
  PROVE  /\ check_position_condition(g, Condition && [mod |-> ZERO, pos |-> None]).err = "ok"
         /\ check_force_condition(g, Condition).err = "ok"
         /\ check_orientation_condition(g, [axis |-> PyInt(10), min |-> GoodPose, max |-> GoodPose,
              ref |-> None, mod |-> None, pos |-> None]).err = "ok"
         /\ check_orientation_condition(g, [axis |-> PyInt(10), min |-> ZERO, max |-> ONE,
              ref |-> None, mod |-> None, pos |-> GoodPose]).err = "ok"
<1> DEFINE seven == PyInt(7)
           ten == PyInt(10)
           zeros == List(Times(6, PyFloat(0)))
<1>1. /\ seven.ty = "int" /\ seven.n = 7 /\ AsFloat64(ToFloat(seven)) # Misfit
      /\ ten.ty = "int" /\ ten.n = 10 /\ AsInt8(ten) # Misfit
  BY ScalarForms, ScalarsFit
<1>2. get_normal_pos(zeros) = "ok" /\ AsFloat64s(6, Floats(zeros)) # Misfit /\ Coord(None, zeros) = zeros
  <2>1. /\ IsSeq(zeros) /\ IsList(6, zeros) /\ Len(zeros.s) = 6 /\ DOMAIN zeros.s = 1..6
        /\ \A i \in 1..6 : IsNum(zeros.s[i])
    BY DEF IsSeq, IsList, List, PyValue, Times, IsNum, PyFloat
  <2> HIDE DEF zeros
  <2>2. is_number(zeros, "VALUE") = "ok"
    BY <2>1, LeadingNumber
  <2> QED
    BY <2>1, <2>2, ListsFit DEF get_normal_pos, POINT_COUNT, Coord
<1>3. \A m \in {ONE, seven} : Number(ZERO) = "ok" /\ Number(m) = "ok" /\ Bounds(ZERO, m) = "ok"
  BY <1>1, ScalarForms DEF Number, Bounds, DR_COND_NONE, IsNum, ++, TypeIf, ValueIf
<1>4. /\ IntIn(ZERO, DR_AXIS_XYZ) = "ok" /\ IntIn(ZERO, DR_AXIS_XYZ \cup DR_AXIS_ABC) = "ok"
      /\ IntIn(ZERO, DR_MV_MODS) = "ok" /\ IntIn(ten, DR_AXIS_ABC) = "ok" /\ IntIn(ZERO, {0}) = "ok"
      /\ IntIn(ONE, {1}) = "ok"
  <2>1. \A v, S : v.ty = "int" /\ v.n \in S => IntIn(v, S) = "ok"
    BY DEF IntIn, ++, TypeIf, ValueIf
  <2>2. 0 \in DR_AXIS_XYZ /\ 0 \in DR_MV_MODS /\ 10 \in DR_AXIS_ABC
    BY DEF DR_AXIS_XYZ, DR_AXIS_ABC, DR_MV_MODS
  <2> QED
    BY <1>1, <2>1, <2>2, ScalarForms
<1>5. IntIn(g.coord, AnyCoord) = "ok" /\ AsInt8(g.coord) # Misfit /\ Coord(None, g.coord) = g.coord
  BY NameablePasses
<1> HIDE DEF seven, ten, zeros
<1>6. check_position_condition(g, Condition && [mod |-> ZERO, pos |-> None]).err = "ok"
  <2> DEFINE a == Condition && [mod |-> ZERO, pos |-> None]
  <2>1. /\ a.axis = ZERO /\ a.min = ZERO /\ a.max = seven /\ a.ref = None /\ a.mod = ZERO
        /\ a.pos = None
    BY DEF &&, Condition, seven
  <2> HIDE DEF a
  <2> DEFINE o   == check_position_condition(g, a)
             ref == Coord(a.ref, g.coord)
             pos == Coord(a.pos, zeros)
             err == IntIn(a.axis, DR_AXIS_XYZ) ++ Number(a.min) ++ Number(a.max)
                      ++ Bounds(a.min, a.max) ++ IntIn(ref, AnyCoord) ++ IntIn(a.mod, DR_MV_MODS)
                      ++ ValueIf(a.mod.n = 1 /\ a.pos = None) ++ get_normal_pos(pos)
             req == [axis |-> AsInt8(a.axis), min |-> AsFloat64(ToFloat(a.min)),
                     max |-> AsFloat64(ToFloat(a.max)), ref |-> AsInt8(ref),
                     mode |-> AsInt8(a.mod), pos |-> AsFloat64s(6, Floats(pos))]
  <2>2. o = Call(err, g, "check_position_condition", "status", req)
    BY DEF check_position_condition, zeros
  <2>3. ref = g.coord /\ pos = zeros
    BY <1>2, <1>5, <2>1
  <2> HIDE DEF o, ref, pos
  <2>4. ValueIf(a.mod.n = 1 /\ a.pos = None) = "ok"
    BY <2>1, ScalarForms DEF ValueIf
  <2>5. IntIn(ref, AnyCoord) = "ok" /\ get_normal_pos(pos) = "ok"
    BY <1>2, <1>5, <2>3
  <2>6. IntIn(a.axis, DR_AXIS_XYZ) = "ok" /\ IntIn(a.mod, DR_MV_MODS) = "ok"
    BY <1>4, <2>1
  <2>7. Number(a.min) = "ok" /\ Number(a.max) = "ok" /\ Bounds(a.min, a.max) = "ok"
    BY <1>3, <2>1
  <2>8. err = "ok"
    BY <2>4, <2>5, <2>6, <2>7, Chain
  <2>9. \A f \in DOMAIN req : req[f] # Misfit
    BY <1>1, <1>2, <1>5, <2>1, <2>3, ScalarsFit
  <2> HIDE DEF err, req
  <2>10. o.err = "ok"
    BY <2>2, <2>8, <2>9, CallPasses
  <2> QED
    BY <2>10 DEF o, a
<1>7. check_force_condition(g, Condition).err = "ok"
  <2>1. Condition.axis = ZERO /\ Condition.min = ZERO /\ Condition.max = seven /\ Condition.ref = None
    BY DEF Condition, seven
  <2>2. /\ ValueIf(ZERO.n = DR_COND_NONE /\ seven.n = DR_COND_NONE) = "ok"
        /\ ZERO.n \notin DR_AXIS_ABC
    BY ScalarForms DEF ValueIf, DR_COND_NONE, DR_AXIS_ABC
  <2>3. \A err, min, max : err = "ok" /\ min # Misfit /\ max # Misfit =>
          Call(err, g, "check_force_condition", "status",
               [axis |-> AsInt8(ZERO), min |-> min, max |-> max, ref |-> AsInt8(g.coord)]).err = "ok"
    BY <1>5, CallPasses, ScalarsFit
  <2> QED
    BY <1>1, <1>3, <1>4, <1>5, <2>1, <2>2, <2>3, ScalarsFit
    DEF check_force_condition, check_force_condition_limits, ++
<1>8. check_orientation_condition(g, [axis |-> PyInt(10), min |-> GoodPose, max |-> GoodPose,
              ref |-> None, mod |-> None, pos |-> None]).err = "ok"
  <2> DEFINE a == [axis |-> ten, min |-> GoodPose, max |-> GoodPose, ref |-> None, mod |-> None,
                   pos |-> None]
  <2>1. /\ a.axis = ten /\ a.min = GoodPose /\ a.max = GoodPose /\ a.ref = None /\ a.mod = None
    OBVIOUS
  <2> HIDE DEF a
  <2>2. LimitType(GoodPose) = "ok" /\ OrientationByPose(a)
    BY <2>1, GoodPosePasses DEF LimitType, TypeIf, OrientationByPose, POINT_COUNT, IsNum
  <2>3. Coord(None, PyInt(0)) = ZERO
    BY DEF Coord, ZERO
  <2>4. check_orientation_condition1(g, a).err = "ok"
    BY <1>1, <1>4, <1>5, <2>1, <2>3, CallPasses, ScalarsFit, GoodPosePasses
    DEF check_orientation_condition1, ++
  <2> QED
    BY <1>4, <2>1, <2>2, <2>4 DEF check_orientation_condition, ++, a, ten
<1>9. check_orientation_condition(g, [axis |-> PyInt(10), min |-> ZERO, max |-> ONE,
              ref |-> None, mod |-> None, pos |-> GoodPose]).err = "ok"
  <2> DEFINE a == [axis |-> ten, min |-> ZERO, max |-> ONE, ref |-> None, mod |-> None,
                   pos |-> GoodPose]
  <2>1. /\ a.axis = ten /\ a.min = ZERO /\ a.max = ONE /\ a.ref = None /\ a.mod = None
        /\ a.pos = GoodPose
    OBVIOUS
  <2> HIDE DEF a
  <2>2. LimitType(ZERO) = "ok" /\ LimitType(ONE) = "ok" /\ ~OrientationByPose(a)
    BY <2>1, ScalarForms DEF LimitType, TypeIf, OrientationByPose, IsNum
  <2>3. /\ Coord(None, PyInt(1)) = ONE
        /\ \A n : Coord(ZERO, PyInt(n)) = ZERO /\ Coord(ONE, PyInt(n)) = ONE
    BY ScalarForms DEF Coord, ONE
  <2>4. ValueIf(GoodPose = None) = "ok"
    BY GoodPosePasses DEF ValueIf
  <2>5. check_orientation_condition2(g, a).err = "ok"
    <3> DEFINE o   == check_orientation_condition2(g, a)
               ref == Coord(a.ref, g.coord)
               mod == Coord(a.mod, PyInt(1))
               min == Coord(a.min, PyInt(DR_COND_NONE))
               max == Coord(a.max, PyInt(DR_COND_NONE))
               err == Number(min) ++ Number(max) ++ Bounds(min, max) ++ IntIn(ref, AnyCoord)
                        ++ IntIn(mod, {1}) ++ ValueIf(a.pos = None) ++ get_normal_pos(a.pos)
               req == [axis |-> AsInt8(a.axis), min |-> AsFloat64(ToFloat(min)),
                       max |-> AsFloat64(ToFloat(max)), ref |-> AsInt8(ref),
                       mode |-> AsInt8(mod), pos |-> AsFloat64s(6, Floats(a.pos))]
    <3>1. o = Call(err, g, "check_orientation_condition2", "status", req)
      BY DEF check_orientation_condition2
    <3>2. ref = g.coord /\ mod = ONE /\ min = ZERO /\ max = ONE
      BY <1>5, <2>1, <2>3
    <3> HIDE DEF o, ref, mod, min, max
    <3>3. Number(min) = "ok" /\ Number(max) = "ok" /\ Bounds(min, max) = "ok"
      BY <1>3, <3>2
    <3>4. IntIn(ref, AnyCoord) = "ok" /\ IntIn(mod, {1}) = "ok"
      BY <1>4, <1>5, <3>2
    <3>5. ValueIf(a.pos = None) = "ok" /\ get_normal_pos(a.pos) = "ok"
      BY <2>1, <2>4, GoodPosePasses
    <3>6. err = "ok"
      BY <3>3, <3>4, <3>5, Chain
    <3>7. \A f \in DOMAIN req : req[f] # Misfit
      BY <1>1, <1>5, <2>1, <3>2, ScalarsFit, GoodPosePasses
    <3> HIDE DEF err, req
    <3>8. o.err = "ok"
      BY <3>1, <3>6, <3>7, CallPasses
    <3> QED
      BY <3>8 DEF o
  <2> QED
    BY <1>4, <2>1, <2>2, <2>5 DEF check_orientation_condition, ++, a, ten
<1> QED
  BY <1>6, <1>7, <1>8, <1>9

\* Inputs and outputs.
LEMMA PortsPass ==
  ASSUME NEW g
  PROVE  /\ get_digital_input(g, Index).err = "ok"
         /\ get_digital_output(g, Index).err = "ok"
         /\ get_tool_digital_input(g, Index).err = "ok"
         /\ get_tool_digital_output(g, Index).err = "ok"
         /\ get_analog_input(g, [ch |-> ONE]).err = "ok"
         /\ set_digital_output(g, [index |-> ONE, val |-> None]).err = "ok"
         /\ set_tool_digital_output(g, [index |-> ONE, val |-> None]).err = "ok"
         /\ set_mode_analog_input(g, [ch |-> ONE, mod |-> ZERO]).err = "ok"
<1>1. /\ IntIn(ONE, DR_DIO_INDEX) = "ok" /\ IntIn(ONE, DR_TDIO_INDEX) = "ok" /\ IntIn(ONE, 1..2) = "ok"
      /\ IntIn(ZERO, DR_ANALOG_MODES) = "ok" /\ IsInt(ONE) = "ok" /\ IsInt(ZERO) = "ok"
  BY ScalarForms DEF IntIn, IsInt, DR_DIO_INDEX, DR_TDIO_INDEX, DR_ANALOG_MODES, ++,
     TypeIf, ValueIf
<1>2. Index.index = ONE
  BY DEF Index
<1>3. ASSUME NEW S \in {DR_DIO_INDEX, DR_TDIO_INDEX}, NEW svc
      PROVE  WritePort(g, ONE, None, S, svc).err = "ok"
  <2>1. ~(ONE.n < 0) /\ PyInt(ON) = ONE
    BY ScalarForms DEF ON, ONE
  <2>2. ValueIf(ONE.n \notin S) = "ok" /\ ValueIf(ONE.n \notin {ON, OFF}) = "ok"
    BY ScalarForms DEF ValueIf, DR_DIO_INDEX, DR_TDIO_INDEX, ON, OFF
  <2>3. \A index, value : index = ONE /\ value = ONE => Call("ok", g, svc, "status",
          [index |-> AsInt8(index), value |-> AsInt8(value)]).err = "ok"
    BY CallPasses, ScalarsFit
  <2> QED
    BY <1>1, <2>1, <2>2, <2>3 DEF WritePort, Command, ++
<1> QED
  BY <1>1, <1>2, <1>3, CallPasses, ScalarsFit
  DEF get_digital_input, get_digital_output, get_tool_digital_input, get_tool_digital_output,
      get_analog_input, set_digital_output, set_tool_digital_output, set_mode_analog_input,
      ReadPort, Reading, Command, ++

\* Modbus signals.
LEMMA ModbusPasses ==
  ASSUME NEW g
  PROVE  /\ add_modbus_signal(g, [ip |-> Str, port |-> ONE, name |-> Str, reg_type |-> ONE,
              index |-> ONE, value |-> ZERO, slaveid |-> PyInt(255)]).err = "ok"
         /\ del_modbus_signal(g, Name).err = "ok"
         /\ set_modbus_output(g, [iobus |-> Str, val |-> ONE]).err = "ok"
         /\ get_modbus_input(g, [iobus |-> Str]).err = "ok"
<1>1. IsStr(Str) = "ok" /\ IsInt(ONE) = "ok" /\ Name.name = Str
  BY ScalarForms DEF IsStr, IsInt, TypeIf, Name
<1>2. /\ IntIn(ONE, UINT16 \ {0}) = "ok" /\ IntIn(ONE, UINT16) = "ok" /\ IntIn(ZERO, UINT16) = "ok"
      /\ IntIn(ONE, DR_MODBUS_TYPES) = "ok" /\ IntIn(PyInt(255), (0..247) \cup {255}) = "ok"
      /\ AsInt32(PyInt(255)) # Misfit
  <2>1. \A v, S : v.ty = "int" /\ v.n \in S => IntIn(v, S) = "ok"
    BY DEF IntIn, ++, TypeIf, ValueIf
  <2>2. 0 \in UINT16 /\ 1 \in UINT16 /\ 1 \in UINT16 \ {0} /\ 1 \in DR_MODBUS_TYPES
    BY DEF UINT16, DR_MODBUS_TYPES
  <2>3. PyInt(255).ty = "int" /\ PyInt(255).n = 255 /\ PyInt(255) # Misfit
    BY DEF PyInt, PyValue, Misfit
  <2>4. AsInt32(PyInt(255)) # Misfit
    BY <2>3 DEF AsInt32, Fits
  <2>5. 255 \in (0..247) \cup {255}
    OBVIOUS
  <2> QED
    BY <2>1, <2>2, <2>3, <2>4, <2>5, ScalarForms
<1>3. PyInt(0) # Misfit
  BY DEF PyInt, PyValue, Misfit
<1>5. add_modbus_signal(g, [ip |-> Str, port |-> ONE, name |-> Str, reg_type |-> ONE,
        index |-> ONE, value |-> ZERO, slaveid |-> PyInt(255)]).err = "ok"
  <2> DEFINE a == [ip |-> Str, port |-> ONE, name |-> Str, reg_type |-> ONE, index |-> ONE,
                   value |-> ZERO, slaveid |-> PyInt(255)]
             value == IF a.reg_type.n \in DR_MODBUS_OUTPUTS THEN AsInt8(a.value) ELSE PyInt(0)
  <2>1. /\ a.ip = Str /\ a.port = ONE /\ a.name = Str /\ a.reg_type = ONE /\ a.index = ONE
        /\ a.value = ZERO /\ a.slaveid = PyInt(255)
    OBVIOUS
  <2> HIDE DEF a
  <2>2. value # Misfit
    BY <1>3, <2>1, ScalarsFit
  <2> DEFINE o   == add_modbus_signal(g, a)
             err == IsStr(a.ip) ++ IntIn(a.port, UINT16 \ {0}) ++ IsStr(a.name)
                      ++ IntIn(a.reg_type, DR_MODBUS_TYPES) ++ IntIn(a.index, UINT16)
                      ++ IntIn(a.value, UINT16) ++ IntIn(a.slaveid, (0..247) \cup {255})
             req == [name |-> AsString(a.name), ip |-> AsString(a.ip), port |-> AsInt32(a.port),
                     reg_type |-> AsInt8(a.reg_type), index |-> AsInt8(a.index),
                     value |-> value, slave_id |-> AsInt32(a.slaveid)]
  <2>3. o = Command(g, err, "config_create_modbus", req)
    BY DEF add_modbus_signal
  <2> HIDE DEF o, value
  <2>4. err = "ok"
    BY <1>1, <1>2, <2>1, Chain
  <2>5. \A f \in DOMAIN req : req[f] # Misfit
    BY <1>2, <2>1, <2>2, ScalarsFit
  <2> HIDE DEF err, req
  <2>6. o.err = "ok"
    BY <2>3, <2>4, <2>5, CallPasses DEF Command
  <2> QED
    BY <2>6 DEF o, a
<1> QED
  BY <1>1, <1>5, CallPasses, ScalarsFit
  DEF del_modbus_signal, set_modbus_output, get_modbus_input, NamedCommand, Command, Reading, ++

\* Tools, TCPs and DRL scripts.
LEMMA ToolPasses ==
  ASSUME NEW g
  PROVE  /\ set_tcp(g, Name).err = "ok" /\ set_tool(g, Name).err = "ok"
         /\ set_tool_shape(g, Name).err = "ok" /\ del_tcp(g, Name).err = "ok"
         /\ del_tool(g, Name).err = "ok"
         /\ add_tcp(g, [name |-> Str, pos |-> GoodPose]).err = "ok"
         /\ add_tool(g, [name |-> Str, weight |-> ONE, cog |-> V3, inertia |-> GoodPose]).err = "ok"
         /\ drl_script_run(g, [robotSystem |-> ZERO, code |-> Str]).err = "ok"
         /\ drl_script_stop(g, [stop_mode |-> ONE]).err = "ok"
<1>1. IsStr(Str) = "ok" /\ IsInt(ONE) = "ok" /\ Name.name = Str
  BY ScalarForms DEF IsStr, IsInt, TypeIf, Name
<1>2. AsFloat64s(3, Floats(V3)) # Misfit
  <2>1. /\ IsSeq(V3) /\ Len(V3.s) = 3 /\ DOMAIN V3.s = 1..3
        /\ \A i \in 1..3 : IsNum(V3.s[i])
    BY DEF V3, IsSeq, List, PyValue, IsNum, PyFloat
  <2> QED
    BY <2>1, ListsFit
<1> QED
  BY <1>1, <1>2, CallPasses, ScalarsFit, GoodPosePasses
  DEF set_tcp, set_tool, set_tool_shape, del_tcp, del_tool, add_tcp, add_tool, drl_script_run,
      drl_script_stop, NamedCommand, Command

\* The functions that set something.
LEMMA SettersPass ==
  ASSUME NEW g
  PROVE  /\ set_velj(g, [vel |-> PyInt(30)]).err = "ok"
         /\ set_accj(g, [acc |-> PyInt(30)]).err = "ok"
         /\ set_velx(g, [vel1 |-> PyInt(30), vel2 |-> PyInt(DR_COND_NONE)]).err = "ok"
         /\ set_accx(g, [acc1 |-> PyInt(30), acc2 |-> PyInt(DR_COND_NONE)]).err = "ok"
         /\ set_ref_coord(g, [coord |-> ZERO]).err = "ok"
<1>1. \A e : JointSetting(PyInt(30), e) = "ok"
  BY ScalarForms DEF JointSetting, IsNum
<1>2. TaskSetting(PyInt(30), PyInt(DR_COND_NONE)) = "ok"
  BY ScalarForms DEF TaskSetting, NumberNot, NotPositive, IsNum, ++, TypeIf, ValueIf
<1>3. \A new : Settings("ok", g, new).err = "ok"
  BY DEF Settings, Outcome
<1>4. set_ref_coord(g, [coord |-> ZERO]).err = "ok"
  <2> DEFINE o == Call(IntIn(ZERO, NamedCoords), g, "set_ref_coord", "status", [coord |-> AsInt8(ZERO)])
  <2>1. o.err = "ok" /\ DOMAIN o = Fields
    BY CallPasses, CallForm, NamedPass, NameablePasses, ScalarsFit
  <2>2. set_ref_coord(g, [coord |-> ZERO]) = [o EXCEPT !.g.coord = ZERO]
    BY <2>1 DEF set_ref_coord
  <2> HIDE DEF o
  <2> QED
    BY <2>1, <2>2 DEF Fields
<1> QED
  BY <1>1, <1>2, <1>3, <1>4 DEF set_velj, set_accj, set_velx, set_accx

-----------------------------------------------------------------------------
(* What the motions send *)

\* A value of k items with integers for numbers
Sized(k, v) ==
  /\ IsSeq(v) /\ Len(v.s) = k /\ DOMAIN v.s = 1..k
  /\ \A i \in 1..k : v.s[i].n \in Int

\* What may be a default of a joint motion, and of a task motion
JointDefault(v) == v = InitialSettings["velj"] \/ JointUsable(v)
TaskDefault(v)  == v = InitialSettings["velx"] \/ TaskUsable(v)

\* The defaults have their numbers ...
LEMMA DefaultsSized ==
  /\ \A v : JointDefault(v) => Sized(6, v) /\ v.ty = "list" /\ \A i \in 1..6 : IsNum(v.s[i])
  /\ \A v : TaskDefault(v) => Sized(2, v) /\ v.ty = "list" /\ \A i \in 1..2 : IsNum(v.s[i])
<1>1. ASSUME NEW v, JointDefault(v)
      PROVE  Sized(6, v) /\ v.ty = "list" /\ \A i \in 1..6 : IsNum(v.s[i])
  <2>1. CASE v = InitialSettings["velj"]
    <3>1. v = List(Times(6, PyFloat(0)))
      BY <2>1 DEF InitialSettings
    <3> QED
      BY <3>1 DEF Sized, IsSeq, IsNum, List, Times, PyFloat, PyValue
  <2>2. CASE JointUsable(v)
    BY <2>2 DEF JointUsable, IsList, Sized, IsSeq, Above
  <2> QED
    BY <1>1, <2>1, <2>2 DEF JointDefault
<1>2. ASSUME NEW v, TaskDefault(v)
      PROVE  Sized(2, v) /\ v.ty = "list" /\ \A i \in 1..2 : IsNum(v.s[i])
  <2>1. DR_COND_NONE \in Int /\ PyInt(DR_COND_NONE).n = DR_COND_NONE /\ IsNum(PyInt(DR_COND_NONE))
    BY ScalarForms DEF DR_COND_NONE, IsNum
  <2>2. CASE v = InitialSettings["velx"]
    <3>1. v = List(<< PyFloat(0), PyInt(DR_COND_NONE) >>)
      BY <2>2 DEF InitialSettings
    <3>2. v.ty = "list" /\ v.s = << PyFloat(0), PyInt(DR_COND_NONE) >>
      BY <3>1 DEF List, PyValue
    <3>3. PyFloat(0).n = 0 /\ IsNum(PyFloat(0))
      BY ScalarForms DEF IsNum
    <3> QED
      BY <2>1, <3>2, <3>3 DEF Sized, IsSeq
  <2>3. CASE TaskUsable(v)
    BY <2>1, <2>3 DEF TaskUsable, IsList, Sized, IsSeq, Above
  <2> QED
    BY <1>2, <2>2, <2>3 DEF TaskDefault
<1> QED
  BY <1>1, <1>2

\* ... and so has every velocity or acceleration a motion works with.
LEMMA JointParamSized ==
  ASSUME NEW x, NEW y, Measured(x), Measured(y), NEW dflt, JointDefault(dflt)
  PROVE  JointParam(x, y, dflt) = Wrong \/ Sized(6, JointParam(x, y, dflt))
<1> DEFINE temp == get_param(x, y)
<1>1. Measured(temp)
  BY DEF get_param
<1> HIDE DEF temp
<1>2. IsNum(temp) => Sized(6, List(Times(6, temp)))
  BY <1>1 DEF Measured, Sized, IsSeq, List, PyValue, Times
<1>3. IsList(6, temp) => Sized(6, temp)
  BY <1>1 DEF Measured, IsList, Sized, IsSeq
<1> QED
  BY <1>2, <1>3, DefaultsSized DEF JointParam, temp, POINT_COUNT

\* The same of a task motion.
LEMMA TaskParamSized ==
  ASSUME NEW x, NEW y, Measured(x), Measured(y), NEW dflt, TaskDefault(dflt)
  PROVE  /\ TaskParam(x, y, dflt) = Wrong \/ Sized(2, TaskParam(x, y, dflt))
         /\ PairParam(x, y, dflt) = Wrong \/ Sized(2, PairParam(x, y, dflt))
<1> DEFINE temp == get_param(x, y)
<1>1. Measured(temp)
  BY DEF get_param
<1> HIDE DEF temp
<1>2. PyInt(DR_COND_NONE).n \in Int
  BY ScalarForms DEF DR_COND_NONE
<1>3. IsNum(temp) => Sized(2, List(<< temp, PyInt(DR_COND_NONE) >>)) /\ Sized(2, List(<< temp, temp >>))
  BY <1>1, <1>2 DEF Measured, Sized, IsSeq, List, PyValue
<1>4. IsList(2, temp) => Sized(2, temp)
  BY <1>1 DEF Measured, IsList, Sized, IsSeq
<1>5. TaskParam(x, y, dflt) = Wrong \/ Sized(2, TaskParam(x, y, dflt))
  BY <1>3, <1>4, DefaultsSized DEF TaskParam, temp, DR_VELX_DT_LEN
<1> QED
  BY <1>3, <1>5 DEF PairParam, temp

\* The time of a motion is a number.
LEMMA TimeMeasured ==
  ASSUME NEW x, NEW y, Measured(x), Measured(y)
  PROVE  TimeParam(x, y).n \in Int
BY ScalarForms DEF TimeParam, get_param, Measured

\* The numbers that are sent are the ones that were checked.
LEMMA SentForm ==
  ASSUME NEW k \in {2, 6}, NEW v, Sized(k, v), AsFloat64s(k, Floats(v)) # Misfit
  PROVE  LET w == AsFloat64s(k, Floats(v))
         IN  DOMAIN w.s = 1..k /\ \A i \in 1..k : w.s[i].n = v.s[i].n
<1> DEFINE w == [i \in DOMAIN v.s |-> PyFloat(v.s[i].n)]
<1>1. AsFloat64s(k, Floats(v)) = Floats(v) /\ Floats(v) = List(w)
  BY DEF AsFloat64s, Fits, Floats, Misfit
<1>2. List(w).s = w
  BY DEF List, PyValue
<1>3. DOMAIN w = 1..k /\ \A i \in 1..k : w[i].n = v.s[i].n
  BY ScalarForms DEF Sized
<1> HIDE DEF w
<1> QED
  BY <1>1, <1>2, <1>3

\* A time that is sent is the one that was checked.
LEMMA TimeSent ==
  ASSUME NEW t, AsFloat64(ToFloat(t)) # Misfit
  PROVE  AsFloat64(ToFloat(t)).n = t.n
BY DEF AsFloat64, ToFloat, Fits, PyFloat, PyValue, Misfit

\* A time that is checked and not left out is positive.
LEMMA TimePositive ==
  ASSUME NEW t, t.n \in Int, TimeOk(t) = "ok", ~NoTime(t)
  PROVE  t.n > 0
<1>1. DR_COND_NONE \in Int
  BY DEF DR_COND_NONE
<1> QED
  BY <1>1 DEF TimeOk, NumberNot, NegativeSet, NoTime, ++, TypeIf, ValueIf

\* check_valid_vel_acc_task lets through what can move along a path.
LEMMA TaskMoving ==
  ASSUME NEW vel, Sized(2, vel), NEW acc, Sized(2, acc), NEW time, time.n \in Int,
         check_valid_vel_acc_task(vel, acc, time) = "ok",
         AsFloat64s(2, Floats(vel)) # Misfit, AsFloat64s(2, Floats(acc)) # Misfit,
         AsFloat64(ToFloat(time)) # Misfit
  PROVE  \/ AsFloat64(ToFloat(time)).n > 0
         \/ /\ AsFloat64s(2, Floats(vel)).s[1].n > 0
            /\ AsFloat64s(2, Floats(acc)).s[1].n > 0
         \/ AsFloat64(ToFloat(time)).n < 0 /\ TimeOk(time) # "ok"
<1>1. /\ AsFloat64s(2, Floats(vel)).s[1].n = vel.s[1].n
      /\ AsFloat64s(2, Floats(acc)).s[1].n = acc.s[1].n
  BY SentForm
<1>2. AsFloat64(ToFloat(time)).n = time.n
  BY TimeSent
<1>3. CASE NoTime(time)
  <2>1. ~(vel.s[1].n <= 0) /\ ~(acc.s[1].n <= 0)
    BY <1>3 DEF check_valid_vel_acc_task, ++, ValueIf, PyIf
  <2>2. vel.s[1].n \in Int /\ acc.s[1].n \in Int
    BY DEF Sized
  <2> QED
    BY <1>1, <2>1, <2>2
<1>4. CASE ~NoTime(time)
  <2>1. time.n # 0
    BY <1>4 DEF NoTime
  <2> QED
    BY <1>2, <1>4, <2>1, TimePositive
<1> QED
  BY <1>3, <1>4

\* An item that is not refused is a number that is not negative.
LEMMA ItemsChecked ==
  ASSUME NEW v, Speeds(v, Negative) = "ok"
  PROVE  v # Wrong /\ \A i \in DOMAIN v.s : IsNum(v.s[i]) /\ ~(v.s[i].n < 0)
<1>1. v # Wrong /\ ItemsNot(v.s, Negative) = "ok"
  BY Chain DEF Speeds, TypeIf
<1> QED
  BY <1>1 DEF ItemsNot, Negative

\* check_valid_vel_acc_joint, after the loops over the items, lets through what
\* can move some axis.
LEMMA JointMoving ==
  ASSUME NEW k \in {2, 6}, NEW vel, Sized(k, vel), NEW acc, Sized(k, acc), NEW time, time.n \in Int,
         Speeds(vel, Negative) = "ok", Speeds(acc, Negative) = "ok", TimeOk(time) = "ok",
         check_valid_vel_acc_joint(vel, acc, time) = "ok"
  PROVE  \/ time.n > 0
         \/ /\ \E i \in 1..k : vel.s[i].n > 0
            /\ \E i \in 1..k : acc.s[i].n > 0
<1>1. CASE NoTime(time)
  <2> DEFINE hits(v) == {i \in DOMAIN v.s : ~IsNum(v.s[i]) \/ v.s[i].n # 0}
  <2>1. hits(vel) # {} /\ hits(acc) # {}
    BY <1>1 DEF check_valid_vel_acc_joint, ++
  <2>2. ASSUME NEW v, Sized(k, v), Speeds(v, Negative) = "ok", hits(v) # {}
        PROVE  \E i \in 1..k : v.s[i].n > 0
    <3>1. PICK i \in 1..k : ~IsNum(v.s[i]) \/ v.s[i].n # 0
      BY <2>2 DEF Sized
    <3>2. IsNum(v.s[i]) /\ ~(v.s[i].n < 0) /\ v.s[i].n \in Int
      BY <2>2, <3>1, ItemsChecked DEF Sized
    <3> QED
      BY <3>1, <3>2
  <2> QED
    BY <2>1, <2>2
<1>2. CASE ~NoTime(time)
  BY <1>2, TimePositive
<1> QED
  BY <1>1, <1>2

\* The defaults of usable settings
LEMMA UsableDefaults ==
  ASSUME NEW g, Usable(g)
  PROVE  JointDefault(g.velj) /\ JointDefault(g.accj) /\ TaskDefault(g.velx) /\ TaskDefault(g.accx)
<1>1. /\ InitialSettings["accj"] = InitialSettings["velj"]
      /\ InitialSettings["accx"] = InitialSettings["velx"]
  BY DEF InitialSettings
<1> QED
  BY <1>1 DEF Usable, JointDefault, TaskDefault

\* The request that leaves, field by field, also where the service is waited for.
LEMMA SentCall ==
  ASSUME NEW err, NEW g, NEW svc, NEW answer, NEW req
  PROVE  /\ \A o \in {Call(err, g, svc, answer, req), CallWaiting(err, g, svc, answer, req)} :
              /\ o.svc = svc
              /\ o.err = "ok" => err = "ok" /\ o.req = req /\ \A f \in DOMAIN req : req[f] # Misfit
<1> DEFINE c == Call(err, g, svc, answer, req)
<1>1. DOMAIN c = Fields /\ c.svc = svc
  BY CallForm
<1>2. c.err = "ok" => err = "ok" /\ c.req = req /\ \A f \in DOMAIN req : req[f] # Misfit
  BY CallForm
<1> HIDE DEF c
<1>3. LET o == [c EXCEPT !.waits = TRUE] IN o.svc = c.svc /\ o.err = c.err /\ o.req = c.req
  BY <1>1 DEF Fields
<1> QED
  BY <1>1, <1>2, <1>3 DEF CallWaiting, c

SpeedNames == {"vel", "acc", "time", "v", "a", "t"}

\* What a task motion comes to, and which checks it passed
TaskChecked(o, vel, acc, time) ==
  /\ o.svc \in TaskMotions
  /\ o.err = "ok" =>
       /\ Speeds(vel, NegativeSet) = "ok" /\ Speeds(acc, NegativeSet) = "ok"
       /\ TimeOk(time) = "ok" \/ o.svc = "move_blending"
       /\ check_valid_vel_acc_task(vel, acc, time) = "ok"
       /\ o.req.vel = AsFloat64s(2, Floats(vel)) /\ o.req.vel # Misfit
       /\ o.req.acc = AsFloat64s(2, Floats(acc)) /\ o.req.acc # Misfit
       /\ o.req.time = AsFloat64(ToFloat(time)) /\ o.req.time # Misfit

\* Such a motion can move.
LEMMA TaskCheckedMoves ==
  ASSUME NEW g, Usable(g), NEW a, \A k \in SpeedNames : Measured(a[k]), NEW o, NEW plain,
         TaskChecked(o, TaskParam(a.vel, a.v, g.velx), TaskParam(a.acc, a.a, g.accx),
                     TimeParam(a.time, a.t)),
         o.err = "ok"
  PROVE  CanMove(o, plain)
<1> DEFINE vel == TaskParam(a.vel, a.v, g.velx)
           acc == TaskParam(a.acc, a.a, g.accx)
           time == TimeParam(a.time, a.t)
<1>1. /\ Measured(a.vel) /\ Measured(a.v) /\ Measured(a.acc) /\ Measured(a.a)
      /\ Measured(a.time) /\ Measured(a.t)
  BY DEF SpeedNames
<1>2. vel = Wrong \/ Sized(2, vel)
  BY <1>1, UsableDefaults, TaskParamSized
<1>3. acc = Wrong \/ Sized(2, acc)
  BY <1>1, UsableDefaults, TaskParamSized
<1>4. time.n \in Int
  BY <1>1, TimeMeasured
<1> HIDE DEF vel, acc, time
<1>5. TaskChecked(o, vel, acc, time)
  BY DEF vel, acc, time
<1>6. vel # Wrong /\ acc # Wrong
  BY <1>5, Chain DEF TaskChecked, Speeds, TypeIf
<1>7. \/ o.req.time.n > 0
      \/ o.req.vel.s[1].n > 0 /\ o.req.acc.s[1].n > 0
      \/ o.req.time.n < 0 /\ TimeOk(time) # "ok"
  BY <1>2, <1>3, <1>4, <1>5, <1>6, TaskMoving DEF TaskChecked
<1>8. o.svc \notin {"move_joint", "move_jointx", "move_spline_joint", "move_spiral"}
  BY <1>5 DEF TaskChecked, TaskMotions
<1> QED
  BY <1>5, <1>7, <1>8 DEF CanMove, TaskChecked

-----------------------------------------------------------------------------
(* Defaults that are set pass *)

\* Nothing is given for a parameter: its default is used.
LEMMA NothingGiven ==
  /\ \A d : JointParam(None, None, d) = d /\ TaskParam(None, None, d) = d
  /\ \A k, d : VectorParam(k, None, None, d) = d
  /\ \A d : PairParam(None, None, d) = d
  /\ TimeParam(None, None) = PyFloat(0) /\ RadiusParam(None, None) = PyFloat(0)
<1>1. get_param(None, None) = None /\ ~IsNum(None)
  BY DEF get_param, IsNum, None, PyValue
<1> QED
  BY <1>1 DEF JointParam, TaskParam, VectorParam, PairParam, TimeParam, RadiusParam

\* A time that is left out passes.
LEMMA NoTimePasses ==
  /\ TimeOk(PyFloat(0)) = "ok" /\ NumberNot(PyFloat(0), Negative) = "ok"
  /\ NoTime(PyFloat(0)) /\ IsNum(PyFloat(0))
<1>1. PyFloat(0).n = 0 /\ IsNum(PyFloat(0))
  BY ScalarForms DEF IsNum
<1> QED
  BY <1>1 DEF TimeOk, NumberNot, NegativeSet, Negative, NoTime, ++, TypeIf, ValueIf

\* k positive numbers
Positive(k, v) ==
  /\ IsList(k, v) /\ DOMAIN v.s = 1..k
  /\ \A i \in 1..k : Above(v.s[i])

\* They pass the loops over the items and the check that something moves.
LEMMA PositivePasses ==
  ASSUME NEW k \in {2, 6}, NEW v, Positive(k, v)
  PROVE  /\ IsSeq(v) /\ Len(v.s) = k /\ v.s # << >> /\ v # Wrong
         /\ \A e : is_number(v, e) = "ok"
         /\ Speeds(v, Negative) = "ok" /\ ItemsNot(v.s, Negative) = "ok"
         /\ AsFloat64s(k, Floats(v)) # Misfit
<1>1. v.ty = "list" /\ IsSeq(v) /\ Len(v.s) = k /\ DOMAIN v.s = 1..k
  BY DEF Positive, IsList, IsSeq
<1>2. \A i \in 1..k : IsNum(v.s[i]) /\ v.s[i].n \in Int /\ v.s[i].n > 0
  BY DEF Positive, Above
<1>3. 1 \in DOMAIN v.s /\ v.s # << >> /\ IsNum(v.s[1])
  BY <1>1, <1>2
<1>4. \A e : is_number(v, e) = "ok"
  BY <1>1, <1>3, LeadingNumber
<1>5. ItemsNot(v.s, Negative) = "ok"
  BY <1>1, <1>2 DEF ItemsNot, Negative
<1>6. v # Wrong
  BY <1>1 DEF Wrong, PyValue
<1>7. AsFloat64s(k, Floats(v)) # Misfit
  BY <1>1, <1>2, ListsFit
<1>8. Speeds(v, Negative) = "ok"
  BY <1>4, <1>5, <1>6 DEF Speeds, ++, TypeIf
<1> QED
  BY <1>1, <1>3, <1>4, <1>5, <1>6, <1>7, <1>8

\* Two lists of them have something that moves ...
LEMMA PositiveMoves ==
  ASSUME NEW k \in {2, 6}, NEW vel, Positive(k, vel), NEW acc, Positive(k, acc), NEW time
  PROVE  check_valid_vel_acc_joint(vel, acc, time) = "ok"
<1> DEFINE hits(v)  == {i \in DOMAIN v.s : ~IsNum(v.s[i]) \/ v.s[i].n # 0}
           first(v) == CHOOSE i \in hits(v) : \A j \in hits(v) : i <= j
<1>1. ASSUME NEW v, Positive(k, v)
      PROVE  hits(v) # {} /\ IsNum(v.s[first(v)])
  <2>1. hits(v) = 1..k
    BY <1>1 DEF Positive, Above
  <2>2. \E i \in hits(v) : \A j \in hits(v) : i <= j
    BY <2>1
  <2>3. first(v) \in hits(v)
    BY <2>2
  <2> QED
    BY <1>1, <2>1, <2>3 DEF Positive, Above
<1> QED
  BY <1>1 DEF check_valid_vel_acc_joint, ++, PyIf

\* ... and so has a positive first number, whether the second is set or not.
LEMMA UsablePasses ==
  ASSUME NEW v, TaskUsable(v)
  PROVE  /\ Speeds(v, NegativeSet) = "ok"
         /\ AsFloat64s(2, Floats(v)) # Misfit
         /\ ~(v.s[1].n <= 0) /\ IsNum(v.s[2]) /\ (v.s[2].n = DR_COND_NONE \/ ~(v.s[2].n <= 0))
<1>1. v.ty = "list" /\ IsSeq(v) /\ Len(v.s) = 2 /\ DOMAIN v.s = 1..2
  BY DEF TaskUsable, IsList, IsSeq
<1>2. IsNum(v.s[1]) /\ v.s[1].n \in Int /\ v.s[1].n > 0
  BY DEF TaskUsable, Above
<1>3. IsNum(v.s[2]) /\ (v.s[2].n = DR_COND_NONE \/ (v.s[2].n \in Int /\ v.s[2].n > 0))
  BY ScalarForms DEF TaskUsable, Above, IsNum
<1>4. 1 \in DOMAIN v.s /\ v.s # << >>
  BY <1>1
<1>5. \A e : is_number(v, e) = "ok"
  BY <1>1, <1>2, <1>4, LeadingNumber
<1>6. ItemsNot(v.s, NegativeSet) = "ok"
  <2>1. \A i \in DOMAIN v.s : IsNum(v.s[i]) /\ ~NegativeSet(v.s[i].n)
    BY <1>1, <1>2, <1>3 DEF NegativeSet
  <2> QED
    BY <2>1 DEF ItemsNot
<1>7. v # Wrong
  BY <1>1 DEF Wrong, PyValue
<1>8. AsFloat64s(2, Floats(v)) # Misfit
  BY <1>1, <1>2, <1>3, ListsFit
<1>9. Speeds(v, NegativeSet) = "ok"
  BY <1>5, <1>6, <1>7 DEF Speeds, ++, TypeIf
<1> QED
  BY <1>2, <1>3, <1>8, <1>9

\* The check of task motions lets two such defaults through.
LEMMA UsableMoves ==
  ASSUME NEW vel, TaskUsable(vel), NEW acc, TaskUsable(acc)
  PROVE  check_valid_vel_acc_task(vel, acc, PyFloat(0)) = "ok"
BY NoTimePasses, UsablePasses DEF check_valid_vel_acc_task, ++, ValueIf, PyIf

-----------------------------------------------------------------------------
(* The task motions *)

\* A good call of a task motion, with its defaults set
TaskReady(g, a) ==
  /\ Usable(g) /\ Nameable(g.coord)
  /\ g.velx # InitialSettings["velx"] /\ g.accx # InitialSettings["accx"]
  /\ \A k \in SpeedNames : a[k] = None
  /\ a.ref = None /\ a.mod = ZERO

\* What task motions have in common passes.
LEMMA TaskReadyPasses ==
  ASSUME NEW g, NEW a, TaskReady(g, a)
  PROVE  LET vel  == TaskParam(a.vel, a.v, g.velx)
             acc  == TaskParam(a.acc, a.a, g.accx)
             time == TimeParam(a.time, a.t)
             ref  == Coord(a.ref, g.coord)
         IN  /\ Speeds(vel, NegativeSet) = "ok" /\ Speeds(acc, NegativeSet) = "ok"
             /\ TimeOk(time) = "ok" /\ check_valid_vel_acc_task(vel, acc, time) = "ok"
             /\ IntIn(ref, AnyCoord) = "ok" /\ IntIn(a.mod, DR_MV_MODS) = "ok"
             /\ AsFloat64s(2, Floats(vel)) # Misfit /\ AsFloat64s(2, Floats(acc)) # Misfit
             /\ AsFloat64(ToFloat(time)) # Misfit
             /\ AsInt8(ref) # Misfit /\ AsInt8(a.mod) # Misfit
<1>1. TaskUsable(g.velx) /\ TaskUsable(g.accx)
  BY DEF TaskReady, Usable
<1>2. /\ TaskParam(a.vel, a.v, g.velx) = g.velx /\ TaskParam(a.acc, a.a, g.accx) = g.accx
      /\ TimeParam(a.time, a.t) = PyFloat(0)
  BY NothingGiven DEF TaskReady, SpeedNames
<1>3. LET ref == Coord(a.ref, g.coord) IN IntIn(ref, AnyCoord) = "ok" /\ AsInt8(ref) # Misfit
  BY NameablePasses DEF TaskReady
<1>4. IntIn(a.mod, DR_MV_MODS) = "ok" /\ AsInt8(a.mod) # Misfit
  BY ScalarsFit, ScalarForms DEF TaskReady, IntIn, DR_MV_MODS, ++, TypeIf, ValueIf
<1> QED
  BY <1>1, <1>2, <1>3, <1>4, UsablePasses, UsableMoves, NoTimePasses, ScalarsFit

\* A radius that is not given, the way of blending and of waiting pass.
LEMMA BlendPasses ==
  ASSUME NEW async
  PROVE  /\ NumberNot(RadiusParam(None, None), Negative) = "ok"
         /\ RadiusSent(RadiusParam(None, None), async) # Misfit
         /\ IntIn(ZERO, DR_MV_RAS) = "ok" /\ PyInt(async) # Misfit
<1>1. RadiusSent(PyFloat(0), async) # Misfit
  BY ScalarsFit DEF RadiusSent
<1>2. IntIn(ZERO, DR_MV_RAS) = "ok" /\ PyInt(async) # Misfit
  BY ScalarForms DEF IntIn, DR_MV_RAS, ++, TypeIf, ValueIf, Misfit, PyValue
<1> QED
  BY <1>1, <1>2, NothingGiven, NoTimePasses

\* movel
LEMMA MovelSound ==
  ASSUME NEW g, NEW a, NEW async
  PROVE  /\ TaskChecked(movel(g, a, async), TaskParam(a.vel, a.v, g.velx),
                        TaskParam(a.acc, a.a, g.accx), TimeParam(a.time, a.t))
         /\ TaskReady(g, a) /\ a.pos = GoodPose /\ a.radius = None /\ a.r = None /\ a.ra = ZERO
              => movel(g, a, async).err = "ok"
<1> DEFINE vel  == TaskParam(a.vel, a.v, g.velx)
           acc  == TaskParam(a.acc, a.a, g.accx)
           time == TimeParam(a.time, a.t)
           ref  == Coord(a.ref, g.coord)
           radius == RadiusParam(a.radius, a.r)
           o    == movel(g, a, async)
           err  == get_normal_pos(a.pos) ++ Speeds(vel, NegativeSet) ++ Speeds(acc, NegativeSet)
                     ++ TimeOk(time) ++ check_valid_vel_acc_task(vel, acc, time)
                     ++ NumberNot(radius, Negative) ++ IntIn(ref, AnyCoord)
                     ++ IntIn(a.mod, DR_MV_MODS) ++ IntIn(a.ra, DR_MV_RAS)
           req  == [pos  |-> AsFloat64s(6, Floats(a.pos)),
                    vel  |-> AsFloat64s(2, Floats(vel)), acc |-> AsFloat64s(2, Floats(acc)),
                    time |-> AsFloat64(ToFloat(time)), radius |-> RadiusSent(radius, async),
                    ref  |-> AsInt8(ref), mode |-> AsInt8(a.mod), blend_type |-> AsInt8(a.ra),
                    sync_type |-> PyInt(async)]
<1>1. o = CallWaiting(err, g, "move_line", "status", req)
  BY DEF movel
<1> HIDE DEF vel, acc, time, ref, o, radius
<1>2. err = "ok" => /\ Speeds(vel, NegativeSet) = "ok" /\ Speeds(acc, NegativeSet) = "ok"
                    /\ TimeOk(time) = "ok" /\ check_valid_vel_acc_task(vel, acc, time) = "ok"
  BY Chain
<1>3. /\ req.vel = AsFloat64s(2, Floats(vel)) /\ req.acc = AsFloat64s(2, Floats(acc))
      /\ req.time = AsFloat64(ToFloat(time)) /\ {"vel", "acc", "time"} \subseteq DOMAIN req
  OBVIOUS
<1>4. "move_line" \in TaskMotions
  BY DEF TaskMotions
<1>5. ASSUME TaskReady(g, a), a.pos = GoodPose, a.radius = None, a.r = None, a.ra = ZERO
      PROVE  err = "ok" /\ \A f \in DOMAIN req : req[f] # Misfit
  <2>1. /\ NumberNot(radius, Negative) = "ok" /\ RadiusSent(radius, async) # Misfit
        /\ IntIn(a.ra, DR_MV_RAS) = "ok" /\ AsInt8(a.ra) # Misfit /\ PyInt(async) # Misfit
    BY <1>5, BlendPasses, ScalarsFit DEF radius
  <2>2. /\ Speeds(vel, NegativeSet) = "ok" /\ Speeds(acc, NegativeSet) = "ok"
        /\ TimeOk(time) = "ok" /\ check_valid_vel_acc_task(vel, acc, time) = "ok"
        /\ IntIn(ref, AnyCoord) = "ok" /\ IntIn(a.mod, DR_MV_MODS) = "ok"
        /\ AsFloat64s(2, Floats(vel)) # Misfit /\ AsFloat64s(2, Floats(acc)) # Misfit
        /\ AsFloat64(ToFloat(time)) # Misfit /\ AsInt8(ref) # Misfit /\ AsInt8(a.mod) # Misfit
    BY <1>5, TaskReadyPasses DEF vel, acc, time, ref
  <2>3. err = "ok"
    BY <1>5, <2>1, <2>2, GoodPosePasses, Chain
  <2> QED
    BY <1>5, <2>1, <2>2, <2>3, GoodPosePasses
<1> HIDE DEF err, req
<1>6. TaskChecked(o, vel, acc, time)
  BY <1>1, <1>2, <1>3, <1>4, SentCall DEF TaskChecked
<1>7. ASSUME TaskReady(g, a), a.pos = GoodPose, a.radius = None, a.r = None, a.ra = ZERO
      PROVE  o.err = "ok"
  BY <1>1, <1>5, <1>7, CallPasses
<1> QED
  BY <1>6, <1>7 DEF vel, acc, time, o

\* Lists of good poses and segments pass, and the arrays they are sent in fit.
LEMMA GoodListsPass ==
  /\ PoseList(GoodJoints, "posj") = "ok" /\ PosesSent(GoodJoints) # Misfit
  /\ PoseList(GoodTask, "posx") = "ok" /\ PosesSent(GoodTask) # Misfit
  /\ AsArrays(ros_listToFloat64MultiArray(
       [i \in DOMAIN GoodSegments.s |-> SegmentSent(GoodSegments.s[i])])) # Misfit
  /\ \A l \in {GoodJoints, GoodTask, GoodSegments} : AsInt8(PyInt(Len(l.s))) # Misfit
  /\ GoodSegments.ty = "list" /\ GoodSegments.s # << >>
  /\ \A i \in DOMAIN GoodSegments.s : GoodSegments.s[i].ty = "posb"
<1>1. \A s : (\A i \in DOMAIN s : s[i] # Misfit) => AsArrays(s) # Misfit
  BY DEF AsArrays, List, Misfit, PyValue
<1>2. ASSUME NEW v, \A i \in DOMAIN v.s : Floats(List(v.s[i].s)) # Misfit
      PROVE  PosesSent(v) # Misfit
  BY <1>1, <1>2 DEF PosesSent, ros_listToFloat64MultiArray
<1>3. AsArrays(ros_listToFloat64MultiArray(
        [i \in DOMAIN GoodSegments.s |-> SegmentSent(GoodSegments.s[i])])) # Misfit
  BY <1>1, GoodAssumption DEF ros_listToFloat64MultiArray
<1>4. ASSUME NEW n \in 1..127
      PROVE  AsInt8(PyInt(n)) # Misfit
  BY DEF AsInt8, PyInt, PyValue, Fits, Misfit
<1>5. /\ PoseList(GoodJoints, "posj") = "ok"
      /\ PoseList(GoodTask, "posx") = "ok"
  BY GoodAssumption DEF PoseList, ++, TypeIf
<1>6. GoodSegments.s # << >>
  <2>1. \A n \in 1..127 : n # 0
    OBVIOUS
  <2>2. Len(GoodSegments.s) # 0
    BY <2>1, GoodAssumption
  <2>3. \A s : s = << >> => Len(s) = 0
    OBVIOUS
  <2> QED
    BY <2>2, <2>3, Zenon
<1> QED
  BY <1>2, <1>3, <1>4, <1>5, <1>6, GoodAssumption

\* movec
LEMMA MovecSound ==
  ASSUME NEW g, NEW a, NEW async
  PROVE  /\ TaskChecked(movec(g, a, async), TaskParam(a.vel, a.v, g.velx),
                        TaskParam(a.acc, a.a, g.accx), TimeParam(a.time, a.t))
         /\ TaskReady(g, a) /\ a.pos1 = GoodPose /\ a.pos2 = GoodPose /\ a.angle = None /\ a.an = None
            /\ a.radius = None /\ a.r = None /\ a.ra = ZERO
              => movec(g, a, async).err = "ok"
<1> DEFINE vel  == TaskParam(a.vel, a.v, g.velx)
           acc  == TaskParam(a.acc, a.a, g.accx)
           time == TimeParam(a.time, a.t)
           ref  == Coord(a.ref, g.coord)
           radius == RadiusParam(a.radius, a.r)
           temp   == get_param(a.angle, a.an)
           angle  == IF temp = None THEN List(<< PyInt(0), PyInt(0) >>)
                     ELSE IF IsNum(temp) THEN List(<< temp, PyInt(0) >>)
                     ELSE IF IsList(2, temp) THEN temp ELSE Wrong
           o    == movec(g, a, async)
           err  == get_normal_pos(a.pos1) ++ get_normal_pos(a.pos2)
                     ++ TypeIf(NormalType(a.pos1) # NormalType(a.pos2))
                     ++ Speeds(vel, NegativeSet) ++ Speeds(acc, NegativeSet)
                     ++ TimeOk(time) ++ check_valid_vel_acc_task(vel, acc, time)
                     ++ NumberNot(radius, Negative) ++ IntIn(ref, AnyCoord)
                     ++ IntIn(a.mod, DR_MV_MODS) ++ Speeds(angle, Negative) ++ IntIn(a.ra, DR_MV_RAS)
           req  == [pos  |-> AsArrays(ros_listToFloat64MultiArray(<< a.pos1.s, a.pos2.s >>)),
                    vel  |-> AsFloat64s(2, Floats(vel)), acc |-> AsFloat64s(2, Floats(acc)),
                    time |-> AsFloat64(ToFloat(time)), radius |-> RadiusSent(radius, async),
                    ref  |-> AsInt8(ref), mode |-> AsInt8(a.mod),
                    angle1 |-> AsFloat64(ToFloat(angle.s[1])),
                    angle2 |-> AsFloat64(ToFloat(angle.s[2])),
                    blend_type |-> AsInt8(a.ra), sync_type |-> PyInt(async)]
<1>1. o = CallWaiting(err, g, "move_circle", "status", req)
  BY DEF movec
<1> HIDE DEF vel, acc, time, ref, o, radius, temp, angle
<1>2. err = "ok" => /\ Speeds(vel, NegativeSet) = "ok" /\ Speeds(acc, NegativeSet) = "ok"
                    /\ TimeOk(time) = "ok" /\ check_valid_vel_acc_task(vel, acc, time) = "ok"
  BY Chain
<1>3. /\ req.vel = AsFloat64s(2, Floats(vel)) /\ req.acc = AsFloat64s(2, Floats(acc))
      /\ req.time = AsFloat64(ToFloat(time)) /\ {"vel", "acc", "time"} \subseteq DOMAIN req
  OBVIOUS
<1>4. "move_circle" \in TaskMotions
  BY DEF TaskMotions
<1>5. ASSUME TaskReady(g, a), a.pos1 = GoodPose, a.pos2 = GoodPose, a.angle = None, a.an = None,
             a.radius = None, a.r = None, a.ra = ZERO
      PROVE  err = "ok" /\ \A f \in DOMAIN req : req[f] # Misfit
  <2>1. /\ NumberNot(radius, Negative) = "ok" /\ RadiusSent(radius, async) # Misfit
        /\ IntIn(a.ra, DR_MV_RAS) = "ok" /\ AsInt8(a.ra) # Misfit /\ PyInt(async) # Misfit
    BY <1>5, BlendPasses, ScalarsFit DEF radius
  <2>2. /\ Speeds(vel, NegativeSet) = "ok" /\ Speeds(acc, NegativeSet) = "ok"
        /\ TimeOk(time) = "ok" /\ check_valid_vel_acc_task(vel, acc, time) = "ok"
        /\ IntIn(ref, AnyCoord) = "ok" /\ IntIn(a.mod, DR_MV_MODS) = "ok"
        /\ AsFloat64s(2, Floats(vel)) # Misfit /\ AsFloat64s(2, Floats(acc)) # Misfit
        /\ AsFloat64(ToFloat(time)) # Misfit /\ AsInt8(ref) # Misfit /\ AsInt8(a.mod) # Misfit
    BY <1>5, TaskReadyPasses DEF vel, acc, time, ref
  <2>3. angle = List(<< PyInt(0), PyInt(0) >>)
    BY <1>5 DEF angle, temp, get_param
  <2>4. /\ Speeds(angle, Negative) = "ok"
        /\ AsFloat64(ToFloat(angle.s[1])) # Misfit /\ AsFloat64(ToFloat(angle.s[2])) # Misfit
    <3>1. angle.ty = "list" /\ angle.s = << ZERO, ZERO >> /\ IsNum(ZERO) /\ ZERO.n = 0
      BY <2>3, ScalarForms DEF List, PyValue, ZERO, IsNum
    <3>2. angle # Wrong /\ IsSeq(angle)
      BY <3>1 DEF Wrong, PyValue, IsSeq
    <3>3. Len(angle.s) = 2 /\ DOMAIN angle.s = 1..2 /\ angle.s[1] = ZERO /\ angle.s[2] = ZERO
      BY <3>1
    <3> HIDE DEF angle
    <3>4. is_number(angle, "VALUE") = "ok"
      BY <3>1, <3>2, <3>3, LeadingNumber
    <3>5. \A i \in 1..2 : angle.s[i] = ZERO
      BY <3>3
    <3>6. ItemsNot(angle.s, Negative) = "ok"
      BY <3>1, <3>3, <3>5 DEF ItemsNot, Negative
    <3>7. Speeds(angle, Negative) = "ok"
      BY <3>2, <3>4, <3>6 DEF Speeds, ++, TypeIf
    <3> QED
      BY <3>3, <3>7, ScalarsFit
  <2>5. AsArrays(ros_listToFloat64MultiArray(<< a.pos1.s, a.pos2.s >>)) # Misfit
    <3>1. Floats(List(GoodPose.s)) # Misfit
      <4> DEFINE v == List(GoodPose.s)
                 w == [i \in DOMAIN v.s |-> PyFloat(v.s[i].n)]
      <4>1. IsSeq(v) /\ \A i \in DOMAIN v.s : IsNum(v.s[i])
        BY GoodAssumption DEF IsSeq, IsNum, List, PyValue
      <4> HIDE DEF v
      <4>2. Floats(v) = List(w)
        BY <4>1 DEF Floats
      <4> HIDE DEF w
      <4>3. List(w) # Misfit
        BY DEF List, PyValue, Misfit
      <4> QED
        BY <4>2, <4>3 DEF v
    <3> DEFINE s == << GoodPose.s, GoodPose.s >>
    <3>2. \A i \in DOMAIN s : s[i] = GoodPose.s
      OBVIOUS
    <3> HIDE DEF s
    <3>3. AsArrays(ros_listToFloat64MultiArray(s)) # Misfit
      BY <3>1, <3>2 DEF AsArrays, ros_listToFloat64MultiArray, List, Misfit, PyValue
    <3> QED
      BY <1>5, <3>3 DEF s
  <2>6. err = "ok"
    <3>1. TypeIf(NormalType(a.pos1) # NormalType(a.pos2)) = "ok"
      BY <1>5 DEF TypeIf
    <3> QED
      BY <1>5, <2>1, <2>2, <2>4, <3>1, GoodPosePasses, Chain
  <2> QED
    BY <1>5, <2>1, <2>2, <2>4, <2>5, <2>6
<1> HIDE DEF err, req
<1>6. TaskChecked(o, vel, acc, time)
  BY <1>1, <1>2, <1>3, <1>4, SentCall DEF TaskChecked
<1>7. ASSUME TaskReady(g, a), a.pos1 = GoodPose, a.pos2 = GoodPose, a.angle = None, a.an = None,
             a.radius = None, a.r = None, a.ra = ZERO
      PROVE  o.err = "ok"
  BY <1>1, <1>5, <1>7, CallPasses
<1> QED
  BY <1>6, <1>7 DEF vel, acc, time, o

\* movesx
LEMMA MovesxSound ==
  ASSUME NEW g, NEW a, NEW async
  PROVE  /\ TaskChecked(movesx(g, a, async), TaskParam(a.vel, a.v, g.velx),
                        TaskParam(a.acc, a.a, g.accx), TimeParam(a.time, a.t))
         /\ TaskReady(g, a) /\ a.pos_list = GoodTask /\ a.vel_opt = ZERO
              => movesx(g, a, async).err = "ok"
<1> DEFINE vel  == TaskParam(a.vel, a.v, g.velx)
           acc  == TaskParam(a.acc, a.a, g.accx)
           time == TimeParam(a.time, a.t)
           ref  == Coord(a.ref, g.coord)
           o    == movesx(g, a, async)
           err  == PoseList(a.pos_list, "posx") ++ Speeds(vel, NegativeSet) ++ Speeds(acc, NegativeSet)
                     ++ TimeOk(time) ++ check_valid_vel_acc_task(vel, acc, time) ++ IntIn(ref, AnyCoord)
                     ++ IntIn(a.mod, DR_MV_MODS) ++ IntIn(a.vel_opt, DR_MVS_VELS)
           req  == [pos  |-> PosesSent(a.pos_list), pos_cnt |-> AsInt8(PyInt(Len(a.pos_list.s))),
                    vel  |-> AsFloat64s(2, Floats(vel)), acc |-> AsFloat64s(2, Floats(acc)),
                    time |-> AsFloat64(ToFloat(time)), ref |-> AsInt8(ref), mode |-> AsInt8(a.mod),
                    opt  |-> AsInt8(a.vel_opt), sync_type |-> PyInt(async)]
<1>1. o = Call(err, g, "move_spline_task", "status", req)
  BY DEF movesx
<1> HIDE DEF vel, acc, time, ref, o
<1>2. err = "ok" => /\ Speeds(vel, NegativeSet) = "ok" /\ Speeds(acc, NegativeSet) = "ok"
                    /\ TimeOk(time) = "ok" /\ check_valid_vel_acc_task(vel, acc, time) = "ok"
  BY Chain
<1>3. /\ req.vel = AsFloat64s(2, Floats(vel)) /\ req.acc = AsFloat64s(2, Floats(acc))
      /\ req.time = AsFloat64(ToFloat(time)) /\ {"vel", "acc", "time"} \subseteq DOMAIN req
  OBVIOUS
<1>4. "move_spline_task" \in TaskMotions
  BY DEF TaskMotions
<1>5. ASSUME TaskReady(g, a), a.pos_list = GoodTask, a.vel_opt = ZERO
      PROVE  err = "ok" /\ \A f \in DOMAIN req : req[f] # Misfit
  <2>1. /\ IntIn(a.vel_opt, DR_MVS_VELS) = "ok" /\ AsInt8(a.vel_opt) # Misfit /\ PyInt(async) # Misfit
    BY <1>5, BlendPasses, ScalarsFit, ScalarForms DEF IntIn, DR_MVS_VELS, ++, TypeIf, ValueIf
  <2>2. /\ Speeds(vel, NegativeSet) = "ok" /\ Speeds(acc, NegativeSet) = "ok"
        /\ TimeOk(time) = "ok" /\ check_valid_vel_acc_task(vel, acc, time) = "ok"
        /\ IntIn(ref, AnyCoord) = "ok" /\ IntIn(a.mod, DR_MV_MODS) = "ok"
        /\ AsFloat64s(2, Floats(vel)) # Misfit /\ AsFloat64s(2, Floats(acc)) # Misfit
        /\ AsFloat64(ToFloat(time)) # Misfit /\ AsInt8(ref) # Misfit /\ AsInt8(a.mod) # Misfit
    BY <1>5, TaskReadyPasses DEF vel, acc, time, ref
  <2>3. err = "ok"
    BY <1>5, <2>1, <2>2, GoodListsPass, Chain
  <2> QED
    BY <1>5, <2>1, <2>2, <2>3, GoodListsPass
<1> HIDE DEF err, req
<1>6. TaskChecked(o, vel, acc, time)
  BY <1>1, <1>2, <1>3, <1>4, SentCall DEF TaskChecked
<1>7. ASSUME TaskReady(g, a), a.pos_list = GoodTask, a.vel_opt = ZERO
      PROVE  o.err = "ok"
  BY <1>1, <1>5, <1>7, CallPasses
<1> QED
  BY <1>6, <1>7 DEF vel, acc, time, o

\* moveb
LEMMA MovebSound ==
  ASSUME NEW g, NEW a, NEW async
  PROVE  /\ TaskChecked(moveb(g, a, async), TaskParam(a.vel, a.v, g.velx),
                        TaskParam(a.acc, a.a, g.accx), TimeParam(a.time, a.t))
         /\ TaskReady(g, a) /\ a.seg_list = GoodSegments
              => moveb(g, a, async).err = "ok"
<1> DEFINE vel  == TaskParam(a.vel, a.v, g.velx)
           acc  == TaskParam(a.acc, a.a, g.accx)
           time == TimeParam(a.time, a.t)
           ref  == Coord(a.ref, g.coord)
           segs == a.seg_list.s
           form == PyIf(\E i \in DOMAIN segs : segs[i].ty # "posb")
           sent == AsArrays(ros_listToFloat64MultiArray([i \in DOMAIN segs |-> SegmentSent(segs[i])]))
           o    == moveb(g, a, async)
           err  == TypeIf(a.seg_list.ty # "list") ++ ValueIf(segs = << >>)
                     ++ form
                     ++ Speeds(vel, NegativeSet) ++ Speeds(acc, NegativeSet)
                     ++ check_valid_vel_acc_task(vel, acc, time) ++ IntIn(ref, AnyCoord)
                     ++ IntIn(a.mod, DR_MV_MODS)
           req  == [segment |-> sent, pos_cnt |-> AsInt8(PyInt(Len(segs))),
                    vel  |-> AsFloat64s(2, Floats(vel)), acc |-> AsFloat64s(2, Floats(acc)),
                    time |-> AsFloat64(ToFloat(time)), ref |-> AsInt8(ref), mode |-> AsInt8(a.mod),
                    sync_type |-> PyInt(async)]
<1>1. o = Call(err, g, "move_blending", "status", req)
  BY DEF moveb
<1> HIDE DEF vel, acc, time, ref, o, segs, form, sent
<1>2. err = "ok" => /\ Speeds(vel, NegativeSet) = "ok" /\ Speeds(acc, NegativeSet) = "ok"
                    /\ check_valid_vel_acc_task(vel, acc, time) = "ok"
  BY Chain
<1>3. /\ req.vel = AsFloat64s(2, Floats(vel)) /\ req.acc = AsFloat64s(2, Floats(acc))
      /\ req.time = AsFloat64(ToFloat(time)) /\ {"vel", "acc", "time"} \subseteq DOMAIN req
  OBVIOUS
<1>4. "move_blending" \in TaskMotions
  BY DEF TaskMotions
<1>5. ASSUME TaskReady(g, a), a.seg_list = GoodSegments
      PROVE  err = "ok" /\ \A f \in DOMAIN req : req[f] # Misfit
  <2>1. /\ TypeIf(a.seg_list.ty # "list") = "ok" /\ ValueIf(segs = << >>) = "ok"
        /\ form = "ok" /\ PyInt(async) # Misfit
    BY <1>5, GoodListsPass, BlendPasses DEF TypeIf, ValueIf, PyIf, segs, form
  <2>2. /\ Speeds(vel, NegativeSet) = "ok" /\ Speeds(acc, NegativeSet) = "ok"
        /\ TimeOk(time) = "ok" /\ check_valid_vel_acc_task(vel, acc, time) = "ok"
        /\ IntIn(ref, AnyCoord) = "ok" /\ IntIn(a.mod, DR_MV_MODS) = "ok"
        /\ AsFloat64s(2, Floats(vel)) # Misfit /\ AsFloat64s(2, Floats(acc)) # Misfit
        /\ AsFloat64(ToFloat(time)) # Misfit /\ AsInt8(ref) # Misfit /\ AsInt8(a.mod) # Misfit
    BY <1>5, TaskReadyPasses DEF vel, acc, time, ref
  <2>3. err = "ok"
    BY <2>1, <2>2, Chain
  <2>4. sent # Misfit /\ AsInt8(PyInt(Len(segs))) # Misfit
    BY <1>5, GoodListsPass DEF segs, sent
  <2> QED
    BY <2>1, <2>2, <2>3, <2>4
<1> HIDE DEF err, req
<1>6. TaskChecked(o, vel, acc, time)
  BY <1>1, <1>2, <1>3, <1>4, SentCall DEF TaskChecked
<1>7. ASSUME TaskReady(g, a), a.seg_list = GoodSegments
      PROVE  o.err = "ok"
  BY <1>1, <1>5, <1>7, CallPasses
<1> QED
  BY <1>6, <1>7 DEF vel, acc, time, o

-----------------------------------------------------------------------------
(* The joint motions, and move_spiral *)

\* A good call of a joint motion, with its defaults set
JointReady(g, a) ==
  /\ Usable(g) /\ Nameable(g.coord)
  /\ g.velj # InitialSettings["velj"] /\ g.accj # InitialSettings["accj"]
  /\ \A k \in SpeedNames : a[k] = None

\* What joint motions have in common passes.
LEMMA JointReadyPasses ==
  ASSUME NEW g, NEW a, JointReady(g, a)
  PROVE  LET vel  == JointParam(a.vel, a.v, g.velj)
             acc  == JointParam(a.acc, a.a, g.accj)
             time == TimeParam(a.time, a.t)
         IN  /\ Speeds(vel, Negative) = "ok" /\ Speeds(acc, Negative) = "ok"
             /\ TimeOk(time) = "ok" /\ check_valid_vel_acc_joint(vel, acc, time) = "ok"
             /\ AsFloat64s(6, Floats(vel)) # Misfit /\ AsFloat64s(6, Floats(acc)) # Misfit
             /\ AsFloat64(ToFloat(vel.s[1])) # Misfit /\ AsFloat64(ToFloat(acc.s[1])) # Misfit
             /\ AsFloat64(ToFloat(time)) # Misfit
<1>1. Positive(6, g.velj) /\ Positive(6, g.accj)
  BY DEF JointReady, Usable, JointUsable, Positive
<1>2. /\ JointParam(a.vel, a.v, g.velj) = g.velj /\ JointParam(a.acc, a.a, g.accj) = g.accj
      /\ TimeParam(a.time, a.t) = PyFloat(0)
  BY NothingGiven DEF JointReady, SpeedNames
<1>3. ASSUME NEW v, Positive(6, v)
      PROVE  AsFloat64(ToFloat(v.s[1])) # Misfit
  <2>1. IsNum(v.s[1])
    BY <1>3 DEF Positive, Above
  <2> QED
    BY <2>1, ScalarForms DEF AsFloat64, ToFloat, Fits, Misfit, PyValue
<1> QED
  BY <1>1, <1>2, <1>3, PositivePasses, PositiveMoves, NoTimePasses, ScalarsFit

\* The initial defaults do not get past check_valid_vel_acc_joint.
LEMMA InitialRefused ==
  ASSUME NEW vel, NEW acc, JointDefault(vel), JointDefault(acc),
         check_valid_vel_acc_joint(vel, acc, PyFloat(0)) = "ok"
  PROVE  JointUsable(vel) /\ JointUsable(acc)
<1> DEFINE hits(v) == {i \in DOMAIN v.s : ~IsNum(v.s[i]) \/ v.s[i].n # 0}
<1>1. hits(vel) # {} /\ hits(acc) # {}
  BY NoTimePasses DEF check_valid_vel_acc_joint, ++
<1>2. \A v : v = InitialSettings["velj"] => hits(v) = {}
  <2>1. InitialSettings["velj"] = List(Times(6, PyFloat(0)))
    BY DEF InitialSettings
  <2> QED
    BY <2>1 DEF List, Times, PyFloat, PyValue, IsNum
<1> QED
  BY <1>1, <1>2 DEF JointDefault

\* movej
LEMMA MovejSound ==
  ASSUME NEW g, NEW a, NEW async, Usable(g), \A k \in SpeedNames : a[k] = None
  PROVE  LET o == movej(g, a, async)
         IN  /\ o.svc = "move_joint"
             /\ o.err = "ok" => o.req.vel.n > 0 /\ o.req.acc.n > 0
             /\ /\ JointReady(g, a) /\ a.pos = GoodPose
                /\ a.radius = None /\ a.r = None /\ a.ra = ZERO /\ a.mod = ZERO
                => o.err = "ok"
<1> DEFINE vel  == JointParam(a.vel, a.v, g.velj)
           acc  == JointParam(a.acc, a.a, g.accj)
           time == TimeParam(a.time, a.t)
           radius == RadiusParam(a.radius, a.r)
           o    == movej(g, a, async)
           err  == get_posj(a.pos) ++ Speeds(vel, Negative) ++ Speeds(acc, Negative)
                     ++ TimeOk(time) ++ check_valid_vel_acc_joint(vel, acc, time)
                     ++ NumberNot(radius, Negative) ++ IntIn(a.mod, DR_MV_MODS)
                     ++ IntIn(a.ra, DR_MV_RAS)
           req  == [pos  |-> AsFloat64s(6, Floats(a.pos)),
                    vel  |-> AsFloat64(ToFloat(vel.s[1])), acc |-> AsFloat64(ToFloat(acc.s[1])),
                    time |-> AsFloat64(ToFloat(time)), radius |-> RadiusSent(radius, async),
                    mode |-> AsInt8(a.mod), blend_type |-> AsInt8(a.ra), sync_type |-> PyInt(async)]
<1>1. o = CallWaiting(err, g, "move_joint", "status", req)
  BY DEF movej
<1>2. vel = g.velj /\ acc = g.accj /\ time = PyFloat(0)
  BY NothingGiven DEF SpeedNames
<1> HIDE DEF vel, acc, time, radius, o
<1>3. err = "ok" => check_valid_vel_acc_joint(vel, acc, time) = "ok"
  BY Chain
<1>4. /\ req.vel = AsFloat64(ToFloat(vel.s[1])) /\ req.acc = AsFloat64(ToFloat(acc.s[1]))
      /\ {"vel", "acc"} \subseteq DOMAIN req
  OBVIOUS
<1>5. ASSUME JointReady(g, a), a.pos = GoodPose, a.radius = None, a.r = None, a.ra = ZERO, a.mod = ZERO
      PROVE  err = "ok" /\ \A f \in DOMAIN req : req[f] # Misfit
  <2>1. /\ NumberNot(radius, Negative) = "ok" /\ RadiusSent(radius, async) # Misfit
        /\ IntIn(a.ra, DR_MV_RAS) = "ok" /\ AsInt8(a.ra) # Misfit /\ PyInt(async) # Misfit
        /\ IntIn(a.mod, DR_MV_MODS) = "ok" /\ AsInt8(a.mod) # Misfit
    BY <1>5, BlendPasses, ScalarsFit DEF radius, DR_MV_MODS, DR_MV_RAS
  <2>2. /\ Speeds(vel, Negative) = "ok" /\ Speeds(acc, Negative) = "ok"
        /\ TimeOk(time) = "ok" /\ check_valid_vel_acc_joint(vel, acc, time) = "ok"
        /\ AsFloat64(ToFloat(vel.s[1])) # Misfit /\ AsFloat64(ToFloat(acc.s[1])) # Misfit
        /\ AsFloat64(ToFloat(time)) # Misfit
    BY <1>5, JointReadyPasses DEF vel, acc, time
  <2>3. err = "ok"
    BY <1>5, <2>1, <2>2, GoodPosePasses, Chain
  <2> QED
    BY <1>5, <2>1, <2>2, <2>3, GoodPosePasses
<1> HIDE DEF err, req
<1>6. ASSUME o.err = "ok"
      PROVE  o.req.vel.n > 0 /\ o.req.acc.n > 0
  <2>1. o.req = req /\ req.vel # Misfit /\ req.acc # Misfit /\ err = "ok"
    BY <1>1, <1>4, <1>6, SentCall
  <2>2. req.vel.n = vel.s[1].n /\ req.acc.n = acc.s[1].n
    BY <1>4, <2>1, TimeSent
  <2>3. JointUsable(vel) /\ JointUsable(acc)
    BY <1>2, <1>3, <2>1, InitialRefused, UsableDefaults
  <2>4. vel.s[1].n > 0 /\ acc.s[1].n > 0
    BY <2>3 DEF JointUsable, Above
  <2> QED
    BY <2>1, <2>2, <2>4
<1>7. ASSUME JointReady(g, a), a.pos = GoodPose, a.radius = None, a.r = None, a.ra = ZERO, a.mod = ZERO
      PROVE  o.err = "ok"
  BY <1>1, <1>5, <1>7, CallPasses
<1>8. o.svc = "move_joint"
  BY <1>1, SentCall
<1> QED
  BY <1>6, <1>7, <1>8 DEF o

\* movejx
LEMMA MovejxSound ==
  ASSUME NEW g, NEW a, NEW async, Usable(g), \A k \in SpeedNames : a[k] = None
  PROVE  LET o == movejx(g, a, async)
         IN  /\ o.svc = "move_jointx"
             /\ o.err = "ok" => o.req.vel.n > 0 /\ o.req.acc.n > 0
             /\ /\ JointReady(g, a) /\ a.pos = GoodPose
                /\ a.radius = None /\ a.r = None /\ a.ra = ZERO /\ a.mod = ZERO
                /\ a.ref = None /\ a.sol = ZERO
                => o.err = "ok"
<1> DEFINE vel  == JointParam(a.vel, a.v, g.velj)
           acc  == JointParam(a.acc, a.a, g.accj)
           time == TimeParam(a.time, a.t)
           radius == RadiusParam(a.radius, a.r)
           ref  == Coord(a.ref, g.coord)
           o    == movejx(g, a, async)
           err  == get_posx(a.pos) ++ Speeds(vel, Negative) ++ Speeds(acc, Negative)
                     ++ TimeOk(time) ++ check_valid_vel_acc_joint(vel, acc, time)
                     ++ NumberNot(radius, Negative) ++ IntIn(ref, AnyCoord)
                     ++ IntIn(a.mod, DR_MV_MODS) ++ IntIn(a.ra, DR_MV_RAS) ++ IntIn(a.sol, DR_SOLS)
           req  == [pos  |-> AsFloat64s(6, Floats(a.pos)),
                    vel  |-> AsFloat64(ToFloat(vel.s[1])), acc |-> AsFloat64(ToFloat(acc.s[1])),
                    time |-> AsFloat64(ToFloat(time)), radius |-> RadiusSent(radius, async),
                    ref  |-> AsInt8(ref), mode |-> AsInt8(a.mod), blend_type |-> AsInt8(a.ra),
                    sol  |-> AsInt8(a.sol), sync_type |-> PyInt(async)]
<1>1. o = CallWaiting(err, g, "move_jointx", "status", req)
  BY DEF movejx
<1>2. vel = g.velj /\ acc = g.accj /\ time = PyFloat(0)
  BY NothingGiven DEF SpeedNames
<1> HIDE DEF vel, acc, time, radius, ref, o
<1>3. err = "ok" => check_valid_vel_acc_joint(vel, acc, time) = "ok"
  BY Chain
<1>4. /\ req.vel = AsFloat64(ToFloat(vel.s[1])) /\ req.acc = AsFloat64(ToFloat(acc.s[1]))
      /\ {"vel", "acc"} \subseteq DOMAIN req
  OBVIOUS
<1>5. ASSUME JointReady(g, a), a.pos = GoodPose, a.radius = None, a.r = None, a.ra = ZERO, a.mod = ZERO,
             a.ref = None, a.sol = ZERO
      PROVE  err = "ok" /\ \A f \in DOMAIN req : req[f] # Misfit
  <2>1. /\ NumberNot(radius, Negative) = "ok" /\ RadiusSent(radius, async) # Misfit
        /\ IntIn(a.ra, DR_MV_RAS) = "ok" /\ AsInt8(a.ra) # Misfit /\ PyInt(async) # Misfit
        /\ IntIn(a.mod, DR_MV_MODS) = "ok" /\ AsInt8(a.mod) # Misfit
    BY <1>5, BlendPasses, ScalarsFit DEF radius, DR_MV_MODS, DR_MV_RAS
  <2>2. /\ Speeds(vel, Negative) = "ok" /\ Speeds(acc, Negative) = "ok"
        /\ TimeOk(time) = "ok" /\ check_valid_vel_acc_joint(vel, acc, time) = "ok"
        /\ AsFloat64(ToFloat(vel.s[1])) # Misfit /\ AsFloat64(ToFloat(acc.s[1])) # Misfit
        /\ AsFloat64(ToFloat(time)) # Misfit
    BY <1>5, JointReadyPasses DEF vel, acc, time
  <2>3. IntIn(ref, AnyCoord) = "ok" /\ AsInt8(ref) # Misfit
    BY <1>5, NameablePasses DEF ref, JointReady
  <2>4. IntIn(a.sol, DR_SOLS) = "ok" /\ AsInt8(a.sol) # Misfit
    BY <1>5, ScalarsFit, ScalarForms DEF IntIn, DR_SOLS, ++, TypeIf, ValueIf
  <2>5. err = "ok"
    BY <1>5, <2>1, <2>2, <2>3, <2>4, GoodPosePasses, Chain
  <2> QED
    BY <1>5, <2>1, <2>2, <2>3, <2>4, <2>5, GoodPosePasses
<1> HIDE DEF err, req
<1>6. ASSUME o.err = "ok"
      PROVE  o.req.vel.n > 0 /\ o.req.acc.n > 0
  <2>1. o.req = req /\ req.vel # Misfit /\ req.acc # Misfit /\ err = "ok"
    BY <1>1, <1>4, <1>6, SentCall
  <2>2. req.vel.n = vel.s[1].n /\ req.acc.n = acc.s[1].n
    BY <1>4, <2>1, TimeSent
  <2>3. JointUsable(vel) /\ JointUsable(acc)
    BY <1>2, <1>3, <2>1, InitialRefused, UsableDefaults
  <2>4. vel.s[1].n > 0 /\ acc.s[1].n > 0
    BY <2>3 DEF JointUsable, Above
  <2> QED
    BY <2>1, <2>2, <2>4
<1>7. ASSUME JointReady(g, a), a.pos = GoodPose, a.radius = None, a.r = None, a.ra = ZERO, a.mod = ZERO,
             a.ref = None, a.sol = ZERO
      PROVE  o.err = "ok"
  BY <1>1, <1>5, <1>7, CallPasses
<1>8. o.svc = "move_jointx"
  BY <1>1, SentCall
<1> QED
  BY <1>6, <1>7, <1>8 DEF o

\* A motion of k items whose checks passed can move.
LEMMA JointSentMoves ==
  ASSUME NEW k \in {2, 6}, NEW vel, Sized(k, vel), NEW acc, Sized(k, acc), NEW time, time.n \in Int,
         Speeds(vel, Negative) = "ok", Speeds(acc, Negative) = "ok", TimeOk(time) = "ok",
         check_valid_vel_acc_joint(vel, acc, time) = "ok",
         NEW q, q.vel = AsFloat64s(k, Floats(vel)), q.acc = AsFloat64s(k, Floats(acc)),
         q.time = AsFloat64(ToFloat(time)), q.vel # Misfit, q.acc # Misfit, q.time # Misfit
  PROVE  \/ q.time.n > 0
         \/ /\ \E i \in DOMAIN q.vel.s : q.vel.s[i].n > 0
            /\ \E i \in DOMAIN q.acc.s : q.acc.s[i].n > 0
<1>1. \/ time.n > 0
      \/ /\ \E i \in 1..k : vel.s[i].n > 0
         /\ \E i \in 1..k : acc.s[i].n > 0
  BY JointMoving
<1>2. q.time.n = time.n
  BY TimeSent
<1>3. DOMAIN q.vel.s = 1..k /\ \A i \in 1..k : q.vel.s[i].n = vel.s[i].n
  <2> DEFINE w == AsFloat64s(k, Floats(vel))
  <2>1. w # Misfit
    OBVIOUS
  <2>2. DOMAIN w.s = 1..k /\ \A i \in 1..k : w.s[i].n = vel.s[i].n
    BY <2>1, SentForm
  <2> QED
    BY <2>2, Zenon
<1>4. DOMAIN q.acc.s = 1..k /\ \A i \in 1..k : q.acc.s[i].n = acc.s[i].n
  <2> DEFINE w == AsFloat64s(k, Floats(acc))
  <2>1. w # Misfit
    OBVIOUS
  <2>2. DOMAIN w.s = 1..k /\ \A i \in 1..k : w.s[i].n = acc.s[i].n
    BY <2>1, SentForm
  <2> QED
    BY <2>2, Zenon
<1> QED
  BY <1>1, <1>2, <1>3, <1>4

\* movesj
LEMMA MovesjSound ==
  ASSUME NEW g, NEW a, NEW async, Usable(g), \A k \in SpeedNames : Measured(a[k])
  PROVE  LET o == movesj(g, a, async)
         IN  /\ o.svc = "move_spline_joint"
             /\ \A plain : o.err = "ok" => CanMove(o, plain)
             /\ JointReady(g, a) /\ a.pos_list = GoodJoints /\ a.mod = ZERO => o.err = "ok"
<1> DEFINE vel  == JointParam(a.vel, a.v, g.velj)
           acc  == JointParam(a.acc, a.a, g.accj)
           time == TimeParam(a.time, a.t)
           o    == movesj(g, a, async)
           err  == PoseList(a.pos_list, "posj") ++ Speeds(vel, Negative) ++ Speeds(acc, Negative)
                     ++ TimeOk(time) ++ check_valid_vel_acc_joint(vel, acc, time)
                     ++ IntIn(a.mod, DR_MV_MODS)
           req  == [pos  |-> PosesSent(a.pos_list), pos_cnt |-> AsInt8(PyInt(Len(a.pos_list.s))),
                    vel  |-> AsFloat64s(6, Floats(vel)), acc |-> AsFloat64s(6, Floats(acc)),
                    time |-> AsFloat64(ToFloat(time)), mode |-> AsInt8(a.mod),
                    sync_type |-> PyInt(async)]
<1>1. o = Call(err, g, "move_spline_joint", "status", req)
  BY DEF movesj
<1>2. /\ Measured(a.vel) /\ Measured(a.v) /\ Measured(a.acc) /\ Measured(a.a)
      /\ Measured(a.time) /\ Measured(a.t)
  BY DEF SpeedNames
<1>3. /\ vel = Wrong \/ Sized(6, vel)
      /\ acc = Wrong \/ Sized(6, acc)
      /\ time.n \in Int
  BY <1>2, UsableDefaults, JointParamSized, TimeMeasured
<1> HIDE DEF vel, acc, time, o
<1>4. err = "ok" => /\ Speeds(vel, Negative) = "ok" /\ Speeds(acc, Negative) = "ok"
                    /\ TimeOk(time) = "ok" /\ check_valid_vel_acc_joint(vel, acc, time) = "ok"
  BY Chain
<1>5. /\ req.vel = AsFloat64s(6, Floats(vel)) /\ req.acc = AsFloat64s(6, Floats(acc))
      /\ req.time = AsFloat64(ToFloat(time)) /\ {"vel", "acc", "time"} \subseteq DOMAIN req
  OBVIOUS
<1>6. ASSUME JointReady(g, a), a.pos_list = GoodJoints, a.mod = ZERO
      PROVE  err = "ok" /\ \A f \in DOMAIN req : req[f] # Misfit
  <2>1. IntIn(a.mod, DR_MV_MODS) = "ok" /\ AsInt8(a.mod) # Misfit /\ PyInt(async) # Misfit
    BY <1>6, BlendPasses, ScalarsFit DEF DR_MV_MODS, DR_MV_RAS
  <2>2. /\ Speeds(vel, Negative) = "ok" /\ Speeds(acc, Negative) = "ok"
        /\ TimeOk(time) = "ok" /\ check_valid_vel_acc_joint(vel, acc, time) = "ok"
        /\ AsFloat64s(6, Floats(vel)) # Misfit /\ AsFloat64s(6, Floats(acc)) # Misfit
        /\ AsFloat64(ToFloat(time)) # Misfit
    BY <1>6, JointReadyPasses DEF vel, acc, time
  <2>3. err = "ok"
    BY <1>6, <2>1, <2>2, GoodListsPass, Chain
  <2> QED
    BY <1>6, <2>1, <2>2, <2>3, GoodListsPass
<1> HIDE DEF err, req
<1>7. o.svc = "move_spline_joint"
  BY <1>1, SentCall
<1>8. ASSUME NEW plain, o.err = "ok"
      PROVE  CanMove(o, plain)
  <2>1. o.req = req /\ req.vel # Misfit /\ req.acc # Misfit /\ req.time # Misfit /\ err = "ok"
    BY <1>1, <1>5, <1>8, SentCall
  <2>2. vel # Wrong /\ acc # Wrong
    BY <1>4, <2>1, ItemsChecked
  <2>3. \/ o.req.time.n > 0
        \/ /\ \E i \in DOMAIN o.req.vel.s : o.req.vel.s[i].n > 0
           /\ \E i \in DOMAIN o.req.acc.s : o.req.acc.s[i].n > 0
    BY <1>3, <1>4, <1>5, <2>1, <2>2, JointSentMoves
  <2> QED
    BY <1>7, <2>3 DEF CanMove, TaskMotions
<1>9. ASSUME JointReady(g, a), a.pos_list = GoodJoints, a.mod = ZERO
      PROVE  o.err = "ok"
  BY <1>1, <1>6, <1>9, CallPasses
<1> QED
  BY <1>7, <1>8, <1>9 DEF o

\* The second values are set, so all of them are.
LEMMA StrictReady ==
  ASSUME NEW g, Usable(g), g.velx.s[2] # PyInt(DR_COND_NONE), g.accx.s[2] # PyInt(DR_COND_NONE)
  PROVE  Positive(2, g.velx) /\ Positive(2, g.accx) /\ TaskUsable(g.velx) /\ TaskUsable(g.accx)
<1>1. ASSUME NEW v, v = InitialSettings["velx"]
      PROVE  v.s[2] = PyInt(DR_COND_NONE)
  <2>1. v = List(<< PyFloat(0), PyInt(DR_COND_NONE) >>)
    BY <1>1 DEF InitialSettings
  <2> QED
    BY <2>1 DEF List, PyValue
<1>2. TaskUsable(g.velx) /\ TaskUsable(g.accx)
  BY <1>1, UsableDefaults DEF TaskDefault
<1> QED
  BY <1>2 DEF TaskUsable, Positive

\* A good call of move_spiral, with all its defaults set
SpiralReady(g, a) ==
  /\ Usable(g)
  /\ g.velx.s[2] # PyInt(DR_COND_NONE) /\ g.accx.s[2] # PyInt(DR_COND_NONE)
  /\ \A k \in SpeedNames : a[k] = None
  /\ a.rev = PyInt(10) /\ a.rmax = PyInt(10) /\ a.lmax = ZERO /\ a.axis = PyInt(2) /\ a.ref = ONE

\* move_spiral
LEMMA MoveSpiralSound ==
  ASSUME NEW g, NEW a, NEW async, Usable(g), \A k \in SpeedNames : Measured(a[k])
  PROVE  LET o == move_spiral(g, a, async)
         IN  /\ o.svc = "move_spiral"
             /\ \A plain : o.err = "ok" => CanMove(o, plain)
             /\ SpiralReady(g, a) => o.err = "ok"
<1> DEFINE vel  == PairParam(a.vel, a.v, g.velx)
           acc  == PairParam(a.acc, a.a, g.accx)
           time == TimeParam(a.time, a.t)
           o    == move_spiral(g, a, async)
           err  == NumberNot(a.rev, NotPositive) ++ NumberNot(a.rmax, NotPositive)
                     ++ Number(a.lmax) ++ Speeds(vel, Negative) ++ Speeds(acc, Negative)
                     ++ TimeOk(time) ++ check_valid_vel_acc_joint(vel, acc, time)
                     ++ IntIn(a.axis, DR_AXIS_XYZ) ++ IntIn(a.ref, {DR_BASE, DR_TOOL} \cup UserCoords)
           req  == [revolution |-> AsFloat64(ToFloat(a.rev)), max_radius |-> AsFloat64(ToFloat(a.rmax)),
                    max_length |-> AsFloat64(ToFloat(a.lmax)),
                    vel  |-> AsFloat64s(2, Floats(vel)), acc |-> AsFloat64s(2, Floats(acc)),
                    time |-> AsFloat64(ToFloat(time)), task_axis |-> AsInt8(a.axis),
                    ref  |-> AsInt8(a.ref), sync_type |-> PyInt(async)]
<1>1. o = CallWaiting(err, g, "move_spiral", "status", req)
  BY DEF move_spiral
<1>2. /\ Measured(a.vel) /\ Measured(a.v) /\ Measured(a.acc) /\ Measured(a.a)
      /\ Measured(a.time) /\ Measured(a.t)
  BY DEF SpeedNames
<1>3. /\ vel = Wrong \/ Sized(2, vel)
      /\ acc = Wrong \/ Sized(2, acc)
      /\ time.n \in Int
  BY <1>2, UsableDefaults, TaskParamSized, TimeMeasured
<1> HIDE DEF vel, acc, time, o
<1>4. err = "ok" => /\ Speeds(vel, Negative) = "ok" /\ Speeds(acc, Negative) = "ok"
                    /\ TimeOk(time) = "ok" /\ check_valid_vel_acc_joint(vel, acc, time) = "ok"
  BY Chain
<1>5. /\ req.vel = AsFloat64s(2, Floats(vel)) /\ req.acc = AsFloat64s(2, Floats(acc))
      /\ req.time = AsFloat64(ToFloat(time)) /\ {"vel", "acc", "time"} \subseteq DOMAIN req
  OBVIOUS
<1>6. ASSUME SpiralReady(g, a)
      PROVE  err = "ok" /\ \A f \in DOMAIN req : req[f] # Misfit
  <2>1. /\ NumberNot(a.rev, NotPositive) = "ok" /\ NumberNot(a.rmax, NotPositive) = "ok"
        /\ Number(a.lmax) = "ok" /\ IntIn(a.axis, DR_AXIS_XYZ) = "ok"
    BY <1>6, ScalarForms
    DEF SpiralReady, NumberNot, NotPositive, Number, IsNum, IntIn, DR_AXIS_XYZ, ++,
        TypeIf, ValueIf
  <2>2. IntIn(a.ref, {DR_BASE, DR_TOOL} \cup UserCoords) = "ok"
    BY <1>6, ScalarForms DEF SpiralReady, IntIn, DR_TOOL, ++, TypeIf, ValueIf
  <2>3. /\ AsFloat64(ToFloat(a.rev)) # Misfit /\ AsFloat64(ToFloat(a.rmax)) # Misfit
        /\ AsFloat64(ToFloat(a.lmax)) # Misfit /\ AsInt8(a.axis) # Misfit /\ AsInt8(a.ref) # Misfit
        /\ PyInt(async) # Misfit
    BY <1>6, BlendPasses, ScalarsFit DEF SpiralReady
  <2>4. Positive(2, vel) /\ Positive(2, acc) /\ time = PyFloat(0)
    BY <1>6, StrictReady, NothingGiven DEF SpiralReady, SpeedNames, vel, acc, time
  <2>5. /\ Speeds(vel, Negative) = "ok" /\ Speeds(acc, Negative) = "ok"
        /\ TimeOk(time) = "ok" /\ check_valid_vel_acc_joint(vel, acc, time) = "ok"
        /\ AsFloat64s(2, Floats(vel)) # Misfit /\ AsFloat64s(2, Floats(acc)) # Misfit
        /\ AsFloat64(ToFloat(time)) # Misfit
    BY <2>4, PositivePasses, PositiveMoves, NoTimePasses, ScalarsFit
  <2>6. err = "ok"
    BY <2>1, <2>2, <2>5, Chain
  <2> QED
    BY <2>3, <2>5, <2>6
<1> HIDE DEF err, req
<1>7. o.svc = "move_spiral"
  BY <1>1, SentCall
<1>8. ASSUME NEW plain, o.err = "ok"
      PROVE  CanMove(o, plain)
  <2>1. o.req = req /\ req.vel # Misfit /\ req.acc # Misfit /\ req.time # Misfit /\ err = "ok"
    BY <1>1, <1>5, <1>8, SentCall
  <2>2. vel # Wrong /\ acc # Wrong
    BY <1>4, <2>1, ItemsChecked
  <2>3. \/ o.req.time.n > 0
        \/ /\ \E i \in DOMAIN o.req.vel.s : o.req.vel.s[i].n > 0
           /\ \E i \in DOMAIN o.req.acc.s : o.req.acc.s[i].n > 0
    BY <1>3, <1>4, <1>5, <2>1, <2>2, JointSentMoves
  <2> QED
    BY <1>7, <2>3 DEF CanMove, TaskMotions
<1>9. ASSUME SpiralReady(g, a)
      PROVE  o.err = "ok"
  BY <1>1, <1>6, <1>9, CallPasses
<1> QED
  BY <1>7, <1>8, <1>9 DEF o

-----------------------------------------------------------------------------
(* The streamed motions *)

\* Lists of one number, good poses, and limits that are left out
LEMMA RepeatedPass ==
  /\ Positive(6, List(Times(6, ONE))) /\ Positive(2, List(Times(2, ONE))) /\ Positive(6, GoodPose)
  /\ NoLimit(6) # Wrong /\ is_number(NoLimit(6), "VALUE") = "ok"
  /\ AsFloat64s(6, Floats(NoLimit(6))) # Misfit
<1>1. ASSUME NEW k \in {2, 6}
      PROVE  Positive(k, List(Times(k, ONE)))
  BY ScalarForms DEF Positive, IsList, Above, List, Times, PyValue, IsNum
<1>2. Positive(6, GoodPose)
  BY GoodAssumption DEF Positive, Above, IsNum
<1> DEFINE v == NoLimit(6)
           c == PyInt(DR_COND_NONE)
<1>3. IsNum(c)
  BY ScalarForms DEF IsNum
<1> HIDE DEF c
<1>4. v = List(Times(6, c))
  BY DEF NoLimit, c
<1>5. v.ty = "list" /\ v.s = Times(6, c)
  BY <1>4 DEF List, PyValue
<1>6. Len(v.s) = 6 /\ DOMAIN v.s = 1..6 /\ v.s # << >> /\ \A i \in 1..6 : v.s[i] = c
  BY <1>5 DEF Times
<1> HIDE DEF v
<1>7. IsSeq(v) /\ v # Wrong /\ 1 \in DOMAIN v.s
  BY <1>5, <1>6 DEF IsSeq, Wrong, PyValue
<1>8. is_number(v, "VALUE") = "ok"
  BY <1>3, <1>6, <1>7, LeadingNumber
<1>9. AsFloat64s(6, Floats(v)) # Misfit
  BY <1>3, <1>6, <1>7, ListsFit
<1> QED
  BY <1>1, <1>2, <1>7, <1>8, <1>9 DEF v

\* What the checks of streams make of positive numbers
LEMMA StreamsPass ==
  /\ \A k \in {2, 6} : \A v : Positive(k, v) => Required(v) = "ok"
  /\ \A v : Positive(6, v) => SixNumbers(v) = "ok"
  /\ \A k, m \in {2, 6} : \A v, w : Positive(k, v) /\ Positive(m, w)
       => check_valid_vel_acc_task(v, w, PyFloat(0)) = "ok"
  /\ TimeOk(ONE) = "ok" /\ \A v, w : check_valid_vel_acc_task(v, w, ONE) = "ok"
<1>1. ASSUME NEW k \in {2, 6}, NEW v, Positive(k, v)
      PROVE  Required(v) = "ok"
  <2>1. v # Missing
    BY <1>1 DEF Positive, IsList, Missing, PyValue
  <2> QED
    BY <1>1, <2>1, PositivePasses DEF Required, ++, ValueIf, TypeIf
<1>2. ASSUME NEW v, Positive(6, v)
      PROVE  SixNumbers(v) = "ok"
  BY <1>2, PositivePasses DEF SixNumbers, ++, ValueIf, TypeIf
<1>3. ASSUME NEW k \in {2, 6}, NEW v, Positive(k, v)
      PROVE  ~(v.s[1].n <= 0) /\ IsNum(v.s[2]) /\ ~(v.s[2].n <= 0)
  BY <1>3 DEF Positive, Above
<1>4. ASSUME NEW k \in {2, 6}, NEW m \in {2, 6}, NEW v, NEW w, Positive(k, v), Positive(m, w)
      PROVE  check_valid_vel_acc_task(v, w, PyFloat(0)) = "ok"
  BY <1>3, <1>4, NoTimePasses DEF check_valid_vel_acc_task, ++, ValueIf, PyIf
<1>5. IsNum(ONE) /\ ~NoTime(ONE) /\ TimeOk(ONE) = "ok"
  BY ScalarForms DEF IsNum, NoTime, DR_COND_NONE, TimeOk, NumberNot, NegativeSet, ++,
     TypeIf, ValueIf
<1>6. \A v, w : check_valid_vel_acc_task(v, w, ONE) = "ok"
  BY <1>5 DEF check_valid_vel_acc_task, ++, PyIf
<1> QED
  BY <1>1, <1>2, <1>4, <1>5, <1>6

\* servoj and servoj_rt pass with their defaults set ...
LEMMA ServojPasses ==
  ASSUME NEW g, NEW a, JointReady(g, a), a.pos = GoodPose
  PROVE  /\ a.mode = None /\ a.m = None => servoj(g, a).err = "ok"
         /\ servoj_rt(g, a).err = "ok"
<1> DEFINE vel  == JointParam(a.vel, a.v, g.velj)
           acc  == JointParam(a.acc, a.a, g.accj)
           time == TimeParam(a.time, a.t)
           m    == get_param(a.mode, a.m)
           mode == IF m = None THEN PyInt(1) ELSE m
<1>1. /\ Speeds(vel, Negative) = "ok" /\ Speeds(acc, Negative) = "ok"
      /\ TimeOk(time) = "ok" /\ check_valid_vel_acc_joint(vel, acc, time) = "ok"
      /\ AsFloat64s(6, Floats(vel)) # Misfit /\ AsFloat64s(6, Floats(acc)) # Misfit
      /\ AsFloat64(ToFloat(time)) # Misfit
  BY JointReadyPasses
<1>2. /\ get_posj(a.pos) = "ok" /\ AsFloat64s(6, Floats(a.pos)) # Misfit
  BY GoodPosePasses
<1>3. ASSUME a.mode = None, a.m = None
      PROVE  IntIn(mode, {0, 1}) = "ok" /\ AsInt8(mode) # Misfit
  <2>1. mode = ONE
    BY <1>3 DEF get_param, ONE
  <2> QED
    BY <2>1, ScalarForms, ScalarsFit DEF IntIn, ++, TypeIf, ValueIf
<1>4. ASSUME a.mode = None, a.m = None
      PROVE  servoj(g, a).err = "ok"
  <2> DEFINE err == get_posj(a.pos) ++ Speeds(vel, Negative) ++ Speeds(acc, Negative) ++ TimeOk(time)
                      ++ IntIn(mode, {0, 1}) ++ check_valid_vel_acc_joint(vel, acc, time)
             req == [pos |-> AsFloat64s(6, Floats(a.pos)), vel |-> AsFloat64s(6, Floats(vel)),
                     acc |-> AsFloat64s(6, Floats(acc)), time |-> AsFloat64(ToFloat(time)),
                     mode |-> AsInt8(mode)]
  <2>1. servoj(g, a) = Call(err, g, "servoj_stream", "stream", req)
    BY DEF servoj, Publish
  <2>2. IntIn(mode, {0, 1}) = "ok" /\ AsInt8(mode) # Misfit
    BY <1>3, <1>4
  <2> HIDE DEF vel, acc, time, mode
  <2>3. err = "ok" /\ \A f \in DOMAIN req : req[f] # Misfit
    BY <1>1, <1>2, <2>2, Chain
  <2> HIDE DEF err, req
  <2> QED
    BY <2>1, <2>3, CallPasses
<1>5. servoj_rt(g, a).err = "ok"
  <2> DEFINE err == get_posj(a.pos) ++ Speeds(vel, Negative) ++ Speeds(acc, Negative) ++ TimeOk(time)
                      ++ check_valid_vel_acc_joint(vel, acc, time)
             req == [pos |-> AsFloat64s(6, Floats(a.pos)), vel |-> AsFloat64s(6, Floats(vel)),
                     acc |-> AsFloat64s(6, Floats(acc)), time |-> AsFloat64(ToFloat(time))]
  <2>1. servoj_rt(g, a) = Call(err, g, "servoj_rt_stream", "stream", req)
    BY DEF servoj_rt, Publish
  <2> HIDE DEF vel, acc, time
  <2>2. err = "ok" /\ \A f \in DOMAIN req : req[f] # Misfit
    BY <1>1, <1>2, Chain
  <2> HIDE DEF err, req
  <2> QED
    BY <2>1, <2>2, CallPasses
<1> QED
  BY <1>4, <1>5

\* ... servol with all of them.
LEMMA ServolPasses ==
  ASSUME NEW g, NEW a, Usable(g), \A k \in SpeedNames : a[k] = None, a.pos = GoodPose,
         g.velx.s[2] # PyInt(DR_COND_NONE), g.accx.s[2] # PyInt(DR_COND_NONE)
  PROVE  servol(g, a).err = "ok"
<1> DEFINE vel  == VectorParam(2, a.vel, a.v, g.velx)
           acc  == VectorParam(2, a.acc, a.a, g.accx)
           time == TimeParam(a.time, a.t)
           err == get_posx(a.pos) ++ Speeds(vel, Negative) ++ Speeds(acc, Negative) ++ TimeOk(time)
                    ++ check_valid_vel_acc_task(vel, acc, time)
           req == [pos |-> AsFloat64s(6, Floats(a.pos)), vel |-> AsFloat64s(2, Floats(vel)),
                   acc |-> AsFloat64s(2, Floats(acc)), time |-> AsFloat64(ToFloat(time))]
<1>1. servol(g, a) = Call(err, g, "servol_stream", "stream", req)
  BY DEF servol, Publish
<1>2. vel = g.velx /\ acc = g.accx /\ time = PyFloat(0)
  BY NothingGiven DEF SpeedNames
<1> HIDE DEF vel, acc, time
<1>3. Positive(2, vel) /\ Positive(2, acc) /\ TaskUsable(vel) /\ TaskUsable(acc)
  BY <1>2, StrictReady
<1>4. /\ Speeds(vel, Negative) = "ok" /\ Speeds(acc, Negative) = "ok"
      /\ TimeOk(time) = "ok" /\ check_valid_vel_acc_task(vel, acc, time) = "ok"
      /\ AsFloat64s(2, Floats(vel)) # Misfit /\ AsFloat64s(2, Floats(acc)) # Misfit
      /\ AsFloat64(ToFloat(time)) # Misfit
  BY <1>2, <1>3, PositivePasses, UsableMoves, NoTimePasses, ScalarsFit
<1>5. err = "ok" /\ \A f \in DOMAIN req : req[f] # Misfit
  BY <1>4, GoodPosePasses, Chain
<1> HIDE DEF err, req
<1> QED
  BY <1>1, <1>5, CallPasses

\* One number stands for two or six.
LEMMA OneGiven ==
  ASSUME NEW dflt
  PROVE  /\ JointParam(ONE, None, dflt) = List(Times(6, ONE))
         /\ VectorParam(6, ONE, None, dflt) = List(Times(6, ONE))
         /\ VectorParam(2, ONE, None, dflt) = List(Times(2, ONE))
         /\ get_param(ONE, None) = ONE /\ TimeParam(ONE, None) = ONE
<1>1. get_param(ONE, None) = ONE /\ IsNum(ONE) /\ ONE # None
  BY ScalarForms DEF get_param, IsNum
<1> QED
  BY <1>1 DEF JointParam, VectorParam, TimeParam, POINT_COUNT

\* The streams that are given their speeds pass.
LEMMA SpeedPasses ==
  ASSUME NEW g, NEW a, a.vel = ONE, a.acc = ONE, a.v = None, a.a = None, a.time = None, a.t = None
  PROVE  speedj(g, a).err = "ok" /\ speedl(g, a).err = "ok"
<1> DEFINE time == TimeParam(a.time, a.t)
<1>1. time = PyFloat(0)
  BY NothingGiven
<1>2. speedj(g, a).err = "ok"
  <2> DEFINE vel == JointParam(a.vel, a.v, Missing)
             acc == JointParam(a.acc, a.a, Missing)
             err == Required(vel) ++ Required(acc) ++ ItemsNot(acc.s, Negative) ++ TimeOk(time)
                      ++ check_valid_vel_acc_joint(vel, acc, time)
             req == [vel |-> AsFloat64s(6, Floats(vel)), acc |-> AsFloat64s(6, Floats(acc)),
                     time |-> AsFloat64(ToFloat(time))]
  <2>1. speedj(g, a) = Call(err, g, "speedj_stream", "stream", req)
    BY DEF speedj, Publish
  <2>2. Positive(6, vel) /\ Positive(6, acc)
    BY OneGiven, RepeatedPass
  <2> HIDE DEF vel, acc, time
  <2>3. /\ Required(vel) = "ok" /\ Required(acc) = "ok" /\ ItemsNot(acc.s, Negative) = "ok"
        /\ TimeOk(time) = "ok" /\ check_valid_vel_acc_joint(vel, acc, time) = "ok"
        /\ AsFloat64s(6, Floats(vel)) # Misfit /\ AsFloat64s(6, Floats(acc)) # Misfit
        /\ AsFloat64(ToFloat(time)) # Misfit
    BY <1>1, <2>2, StreamsPass, PositivePasses, PositiveMoves, NoTimePasses, ScalarsFit
  <2>4. err = "ok" /\ \A f \in DOMAIN req : req[f] # Misfit
    BY <2>3, Chain
  <2> HIDE DEF err, req
  <2> QED
    BY <2>1, <2>4, CallPasses
<1>3. speedl(g, a).err = "ok"
  <2> DEFINE vel == VectorParam(6, a.vel, a.v, Missing)
             acc == VectorParam(2, a.acc, a.a, Missing)
             err == Required(vel) ++ Required(acc) ++ ItemsNot(acc.s, Negative) ++ TimeOk(time)
                      ++ check_valid_vel_acc_task(vel, acc, time)
             req == [vel |-> AsFloat64s(6, Floats(vel)), acc |-> AsFloat64s(2, Floats(acc)),
                     time |-> AsFloat64(ToFloat(time))]
  <2>1. speedl(g, a) = Call(err, g, "speedl_stream", "stream", req)
    BY DEF speedl, Publish
  <2>2. Positive(6, vel) /\ Positive(2, acc)
    BY OneGiven, RepeatedPass
  <2> HIDE DEF vel, acc, time
  <2>3. /\ Required(vel) = "ok" /\ Required(acc) = "ok" /\ ItemsNot(acc.s, Negative) = "ok"
        /\ TimeOk(time) = "ok" /\ check_valid_vel_acc_task(vel, acc, time) = "ok"
        /\ AsFloat64s(6, Floats(vel)) # Misfit /\ AsFloat64s(2, Floats(acc)) # Misfit
        /\ AsFloat64(ToFloat(time)) # Misfit
    BY <1>1, <2>2, StreamsPass, PositivePasses, NoTimePasses, ScalarsFit
  <2>4. err = "ok" /\ \A f \in DOMAIN req : req[f] # Misfit
    BY <2>3, Chain
  <2> HIDE DEF err, req
  <2> QED
    BY <2>1, <2>4, CallPasses
<1> QED
  BY <1>2, <1>3

\* The realtime streams pass: servol_rt with a time ...
LEMMA ServolRtPasses ==
  ASSUME NEW g, NEW a, a.pos = GoodPose, a.time = ONE, a.t = None,
         a.vel = None, a.v = None, a.acc = None, a.a = None
  PROVE  servol_rt(g, a).err = "ok"
<1> DEFINE time == get_param(a.time, a.t)
           vel == VectorParam(6, a.vel, a.v, NoLimit(6))
           acc == VectorParam(6, a.acc, a.a, NoLimit(6))
           err == get_posx(a.pos) ++ ValueIf(time = None) ++ TimeOk(time)
                    ++ TypeIf(vel = Wrong) ++ is_number(vel, "VALUE")
                    ++ TypeIf(acc = Wrong) ++ is_number(acc, "VALUE")
                    ++ check_valid_vel_acc_task(vel, acc, time)
           req == [pos |-> AsFloat64s(6, Floats(a.pos)), vel |-> AsFloat64s(6, Floats(vel)),
                   acc |-> AsFloat64s(6, Floats(acc)), time |-> AsFloat64(ToFloat(time))]
<1>1. servol_rt(g, a) = Call(err, g, "servol_rt_stream", "stream", req)
  BY DEF servol_rt, Publish
<1>2. time = ONE /\ vel = NoLimit(6) /\ acc = NoLimit(6)
  BY OneGiven, NothingGiven
<1> HIDE DEF time, vel, acc
<1>3. /\ ValueIf(time = None) = "ok" /\ TimeOk(time) = "ok"
      /\ TypeIf(vel = Wrong) = "ok" /\ TypeIf(acc = Wrong) = "ok"
      /\ is_number(vel, "VALUE") = "ok" /\ is_number(acc, "VALUE") = "ok"
      /\ check_valid_vel_acc_task(vel, acc, time) = "ok"
      /\ AsFloat64s(6, Floats(vel)) # Misfit /\ AsFloat64s(6, Floats(acc)) # Misfit
      /\ AsFloat64(ToFloat(time)) # Misfit
  BY <1>2, StreamsPass, RepeatedPass, ScalarForms, ScalarsFit DEF ValueIf, TypeIf
<1>4. err = "ok" /\ \A f \in DOMAIN req : req[f] # Misfit
  BY <1>3, GoodPosePasses, Chain
<1> HIDE DEF err, req
<1> QED
  BY <1>1, <1>4, CallPasses

\* ... speedj_rt and torque_rt without one, speedl_rt with one.
LEMMA SpeedRtPasses ==
  ASSUME NEW g
  PROVE  /\ \A a : a.vel = GoodPose /\ a.acc = GoodPose /\ a.time = None /\ a.t = None
                     => speedj_rt(g, a).err = "ok"
         /\ \A a : a.vel = GoodPose /\ a.acc = None /\ a.time = ONE /\ a.t = None
                     => speedl_rt(g, a).err = "ok"
         /\ \A a : a.tor = GoodPose /\ a.time = None /\ a.t = None => torque_rt(g, a).err = "ok"
         /\ \A a : a.pos = GoodPose => alter_motion_stream(g, a).err = "ok"
<1>1. ASSUME NEW a, a.vel = GoodPose, a.acc = GoodPose, a.time = None, a.t = None
      PROVE  speedj_rt(g, a).err = "ok"
  <2> DEFINE time == TimeParam(a.time, a.t)
             err == SixNumbers(a.vel) ++ SixNumbers(a.acc) ++ ItemsNot(a.acc.s, Negative)
                      ++ TimeOk(time) ++ check_valid_vel_acc_joint(a.vel, a.acc, time)
             req == [vel |-> AsFloat64s(6, Floats(a.vel)), acc |-> AsFloat64s(6, Floats(a.acc)),
                     time |-> AsFloat64(ToFloat(time))]
  <2>1. speedj_rt(g, a) = Call(err, g, "speedj_rt_stream", "stream", req)
    BY DEF speedj_rt, Publish
  <2>2. time = PyFloat(0) /\ Positive(6, a.vel) /\ Positive(6, a.acc)
    BY <1>1, NothingGiven, RepeatedPass
  <2> HIDE DEF time
  <2>3. /\ SixNumbers(a.vel) = "ok" /\ SixNumbers(a.acc) = "ok" /\ ItemsNot(a.acc.s, Negative) = "ok"
        /\ TimeOk(time) = "ok" /\ check_valid_vel_acc_joint(a.vel, a.acc, time) = "ok"
        /\ AsFloat64s(6, Floats(a.vel)) # Misfit /\ AsFloat64s(6, Floats(a.acc)) # Misfit
        /\ AsFloat64(ToFloat(time)) # Misfit
    BY <2>2, StreamsPass, PositivePasses, PositiveMoves, NoTimePasses, ScalarsFit
  <2>4. err = "ok" /\ \A f \in DOMAIN req : req[f] # Misfit
    BY <2>3, Chain
  <2> HIDE DEF err, req
  <2> QED
    BY <2>1, <2>4, CallPasses
<1>2. ASSUME NEW a, a.vel = GoodPose, a.acc = None, a.time = ONE, a.t = None
      PROVE  speedl_rt(g, a).err = "ok"
  <2> DEFINE time == TimeParam(a.time, a.t)
             acc == IF a.acc = None THEN NoLimit(6) ELSE a.acc
             given == IF a.acc = None THEN "ok" ELSE SixNumbers(acc) ++ ItemsNot(acc.s, Negative)
             err == SixNumbers(a.vel) ++ given ++ TimeOk(time)
                      ++ check_valid_vel_acc_task(a.vel, acc, time)
             req == [vel |-> AsFloat64s(6, Floats(a.vel)), acc |-> AsFloat64s(6, Floats(acc)),
                     time |-> AsFloat64(ToFloat(time))]
  <2>1. speedl_rt(g, a) = Call(err, g, "speedl_rt_stream", "stream", req)
    BY DEF speedl_rt, Publish
  <2>2. time = ONE /\ acc = NoLimit(6) /\ given = "ok" /\ Positive(6, a.vel)
    BY <1>2, OneGiven, RepeatedPass
  <2> HIDE DEF time, acc, given
  <2>3. /\ SixNumbers(a.vel) = "ok" /\ TimeOk(time) = "ok"
        /\ check_valid_vel_acc_task(a.vel, acc, time) = "ok"
        /\ AsFloat64s(6, Floats(a.vel)) # Misfit /\ AsFloat64s(6, Floats(acc)) # Misfit
        /\ AsFloat64(ToFloat(time)) # Misfit
    BY <2>2, StreamsPass, RepeatedPass, PositivePasses, ScalarsFit
  <2>4. err = "ok" /\ \A f \in DOMAIN req : req[f] # Misfit
    BY <2>2, <2>3, Chain
  <2> HIDE DEF err, req
  <2> QED
    BY <2>1, <2>4, CallPasses
<1>3. ASSUME NEW a, a.tor = GoodPose, a.time = None, a.t = None
      PROVE  torque_rt(g, a).err = "ok"
  <2>1. TimeParam(a.time, a.t) = PyFloat(0) /\ SixNumbers(a.tor) = "ok"
    BY <1>3, NothingGiven, RepeatedPass, StreamsPass
  <2> QED
    BY <1>3, <2>1, CallPasses, Chain, GoodPosePasses, NoTimePasses,
       ScalarsFit DEF torque_rt, Publish
<1>4. ASSUME NEW a, a.pos = GoodPose
      PROVE  alter_motion_stream(g, a).err = "ok"
  BY <1>4, CallPasses, GoodPosePasses DEF alter_motion_stream, Publish
<1> QED
  BY <1>1, <1>2, <1>3, <1>4

-----------------------------------------------------------------------------
(* The calls of the script *)

\* The methods whose service lacks the slash.
LEMMA IoMethodSound ==
  ASSUME NEW plain, NEW dref, NEW o, Invoke(plain, dref, IoMethod(o)), Still(o), plain => o.err = "ok"
  PROVE  SoundCall
<1>1. Still(IoMethod(o)) /\ IoMethod(o).err = o.err
  BY DEF IoMethod, Still, Fields
<1> QED
  BY <1>1, StillSound

\* Modes and the state of the robot.
LEMMA ModeCallsSound ==
  ModeCalls => SoundCall
<1>1. \A plain, dref, a : (plain => a = [robot_mode |-> ONE])
        /\ Invoke(plain, dref, set_robot_mode(glob, a)) => SoundCall
  BY StillSound, ModesStill, ModesPass
<1>2. \A plain, dref, a : Invoke(plain, dref, robot_set_robot_mode(glob, a)) => SoundCall
  BY MethodSound, ModesStill DEF robot_set_robot_mode
<1>3. \A plain, dref, a : (plain => a = [robot_system |-> ONE])
        /\ Invoke(plain, dref, set_robot_system(glob, a)) => SoundCall
  BY StillSound, ModesStill, ModesPass
<1>4. \A plain, dref, a : Invoke(plain, dref, robot_set_robot_system(glob, a)) => SoundCall
  BY MethodSound, ModesStill DEF robot_set_robot_system
<1>5. \A plain, dref, a : (plain => a = [speed_mode |-> ONE])
        /\ Invoke(plain, dref, set_robot_speed_mode(glob, a)) => SoundCall
  BY StillSound, ModesStill, ModesPass
<1>6. \A plain, dref, a : Invoke(plain, dref, robot_set_robot_speed_mode(glob, a)) => SoundCall
  BY MethodSound, ModesStill DEF robot_set_robot_speed_mode
<1>7. \A plain, dref, a : (plain => a = [reset_type |-> ONE])
        /\ Invoke(plain, dref, set_safe_stop_reset_type(glob, a)) => SoundCall
  BY StillSound, ModesStill, ModesPass
<1>8. \A plain, dref, a : Invoke(plain, dref, robot_set_safe_stop_reset_type(glob, a)) => SoundCall
  BY MethodSound, ModesStill DEF robot_set_safe_stop_reset_type
<1>9. \A plain, dref, a : (plain => a = [space_type |-> ONE])
        /\ Invoke(plain, dref, get_current_pose(glob, a)) => SoundCall
  BY StillSound, ModesStill, ModesPass
<1>10. \A plain, dref, a : Invoke(plain, dref, robot_get_current_pose(glob, a)) => SoundCall
  BY MethodSound, ModesStill DEF robot_get_current_pose
<1>11. \A plain, dref, a : Invoke(plain, dref, get_robot_mode(glob, a)) => SoundCall
  BY StillSound, ModesStill, GettersPass
<1>12. \A plain, dref, a : Invoke(plain, dref, robot_get_robot_mode(glob, a)) => SoundCall
  BY MethodSound, ModesStill DEF robot_get_robot_mode
<1>13. \A plain, dref, a : Invoke(plain, dref, get_robot_system(glob, a)) => SoundCall
  BY StillSound, ModesStill, GettersPass
<1>14. \A plain, dref, a : Invoke(plain, dref, robot_get_robot_system(glob, a)) => SoundCall
  BY MethodSound, ModesStill DEF robot_get_robot_system
<1>15. \A plain, dref, a : Invoke(plain, dref, get_robot_state(glob, a)) => SoundCall
  BY StillSound, ModesStill, GettersPass
<1>16. \A plain, dref, a : Invoke(plain, dref, robot_get_robot_state(glob, a)) => SoundCall
  BY MethodSound, ModesStill DEF robot_get_robot_state
<1>17. \A plain, dref, a : Invoke(plain, dref, get_robot_speed_mode(glob, a)) => SoundCall
  BY StillSound, ModesStill, GettersPass
<1>18. \A plain, dref, a : Invoke(plain, dref, robot_get_robot_speed_mode(glob, a)) => SoundCall
  BY MethodSound, ModesStill DEF robot_get_robot_speed_mode
<1> QED
  BY <1>1, <1>2, <1>3, <1>4, <1>5, <1>6, <1>7, <1>8, <1>9, <1>10, <1>11, <1>12, <1>13,
     <1>14, <1>15, <1>16, <1>17, <1>18, Zenon
  DEF ModeCalls, Function, Calls, Plain

\* What the controller measures.
LEMMA StateCallsSound ==
  StateCalls => SoundCall
<1>1. \A plain, dref, a : Invoke(plain, dref, get_last_alarm(glob, a)) => SoundCall
  BY StillSound, ModesStill, GettersPass
<1>2. \A plain, dref, a : Invoke(plain, dref, robot_get_last_alarm(glob, a)) => SoundCall
  BY MethodSound, ModesStill DEF robot_get_last_alarm
<1>3. \A plain, dref, a : Invoke(plain, dref, get_control_mode(glob, a)) => SoundCall
  BY StillSound, ModesStill, GettersPass
<1>4. \A plain, dref, a : Invoke(plain, dref, robot_get_control_mode(glob, a)) => SoundCall
  BY MethodSound, ModesStill DEF robot_get_control_mode
<1>5. \A plain, dref, a : Invoke(plain, dref, get_control_space(glob, a)) => SoundCall
  BY StillSound, ModesStill, GettersPass
<1>6. \A plain, dref, a : Invoke(plain, dref, robot_get_control_space(glob, a)) => SoundCall
  BY MethodSound, ModesStill DEF robot_get_control_space
<1>7. \A plain, dref, a : Invoke(plain, dref, get_current_posj(glob, a)) => SoundCall
  BY StillSound, ModesStill, GettersPass
<1>8. \A plain, dref, a : Invoke(plain, dref, robot_get_current_posj(glob, a)) => SoundCall
  BY MethodSound, ModesStill DEF robot_get_current_posj
<1>9. \A plain, dref, a : Invoke(plain, dref, get_current_velj(glob, a)) => SoundCall
  BY StillSound, ModesStill, GettersPass
<1>10. \A plain, dref, a : Invoke(plain, dref, robot_get_current_velj(glob, a)) => SoundCall
  BY MethodSound, ModesStill DEF robot_get_current_velj
<1>11. \A plain, dref, a : Invoke(plain, dref, get_desired_posj(glob, a)) => SoundCall
  BY StillSound, ModesStill, GettersPass
<1>12. \A plain, dref, a : Invoke(plain, dref, robot_get_desired_posj(glob, a)) => SoundCall
  BY MethodSound, ModesStill DEF robot_get_desired_posj
<1>13. \A plain, dref, a : Invoke(plain, dref, get_desired_velj(glob, a)) => SoundCall
  BY StillSound, ModesStill, GettersPass
<1>14. \A plain, dref, a : Invoke(plain, dref, robot_get_desired_velj(glob, a)) => SoundCall
  BY MethodSound, ModesStill DEF robot_get_desired_velj
<1>15. \A plain, dref, a : Invoke(plain, dref, get_joint_torque(glob, a)) => SoundCall
  BY StillSound, ModesStill, GettersPass
<1>16. \A plain, dref, a : Invoke(plain, dref, robot_get_joint_torque(glob, a)) => SoundCall
  BY MethodSound, ModesStill DEF robot_get_joint_torque
<1>17. \A plain, dref, a : Invoke(plain, dref, get_external_torque(glob, a)) => SoundCall
  BY StillSound, ModesStill, GettersPass
<1>18. \A plain, dref, a : Invoke(plain, dref, robot_get_external_torque(glob, a)) => SoundCall
  BY MethodSound, ModesStill DEF robot_get_external_torque
<1> QED
  BY <1>1, <1>2, <1>3, <1>4, <1>5, <1>6, <1>7, <1>8, <1>9, <1>10, <1>11, <1>12, <1>13,
     <1>14, <1>15, <1>16, <1>17, <1>18, Zenon
  DEF StateCalls, Function, Calls, Plain

\* What is asked about a motion.
LEMMA CheckCallsSound ==
  CheckCalls => SoundCall
<1>1. \A plain, dref, a : Invoke(plain, dref, get_current_solution_space(glob, a)) => SoundCall
  BY StillSound, AroundStill, PoseStill, GettersPass
<1>2. \A plain, dref, a :
        Invoke(plain, dref, robot_get_current_solution_space(glob, a)) => SoundCall
  BY MethodSound, AroundStill, PoseStill DEF robot_get_current_solution_space
<1>3. \A plain, dref, a : Invoke(plain, dref, check_motion(glob, a)) => SoundCall
  BY StillSound, AroundStill, PoseStill, GettersPass
<1>4. \A plain, dref, a : Invoke(plain, dref, robot_check_motion(glob, a)) => SoundCall
  BY MethodSound, AroundStill, PoseStill DEF robot_check_motion
<1>5. \A plain, dref, a : Invoke(plain, dref, get_workpiece_weight(glob, a)) => SoundCall
  BY StillSound, AroundStill, PoseStill, GettersPass
<1>6. \A plain, dref, a : Invoke(plain, dref, robot_get_workpiece_weight(glob, a)) => SoundCall
  BY MethodSound, AroundStill, PoseStill DEF robot_get_workpiece_weight
<1>7. \A plain, dref, a : Invoke(plain, dref, reset_workpiece_weight(glob, a)) => SoundCall
  BY StillSound, AroundStill, PoseStill, GettersPass
<1>8. \A plain, dref, a : Invoke(plain, dref, robot_reset_workpiece_weight(glob, a)) => SoundCall
  BY MethodSound, AroundStill, PoseStill DEF robot_reset_workpiece_weight
<1> QED
  BY <1>1, <1>2, <1>3, <1>4, <1>5, <1>6, <1>7, <1>8, Zenon
  DEF CheckCalls, Function, Calls, Plain

\* The reference coordinate.
LEMMA RefCoordCallsSound ==
  RefCoordCalls => SoundCall
<1>1. \A plain, dref, a : (plain => a = [coord |-> ZERO])
        /\ Invoke(plain, dref, set_ref_coord(glob, a)) => SoundCall
  BY StillSound, SettersStill, SettersPass
<1>2. \A plain, dref, a : Invoke(plain, dref, robot_set_ref_coord(glob, a)) => SoundCall
  BY MethodSound, SettersStill DEF robot_set_ref_coord
<1> QED
  BY <1>1, <1>2, Zenon
  DEF RefCoordCalls, Function, Calls

\* Kinematics, without a default coordinate.
LEMMA KinematicsCallsSound ==
  ASSUME Nameable(glob.coord)
  PROVE  KinematicsCalls => SoundCall
<1>1. \A plain, dref, a : (plain => a = [pos |-> GoodPose])
        /\ Invoke(plain, dref, get_solution_space(glob, a)) => SoundCall
  BY StillSound, PoseStill, KinematicsPass
<1>2. \A plain, dref, a : Invoke(plain, dref, robot_get_solution_space(glob, a)) => SoundCall
  BY MethodSound, PoseStill DEF robot_get_solution_space
<1>3. \A plain, dref, a : (plain => a = [xd |-> GoodPose, xc |-> GoodPose, axis |-> ZERO])
        /\ Invoke(plain, dref, get_orientation_error(glob, a)) => SoundCall
  BY StillSound, PoseStill, KinematicsPass
<1>4. \A plain, dref, a : Invoke(plain, dref, robot_get_orientation_error(glob, a)) => SoundCall
  BY MethodSound, PoseStill DEF robot_get_orientation_error
<1>5. \A plain, dref, a : (plain => a = [pose_in |-> GoodPose, ref_in |-> ZERO, ref_out |-> ZERO])
        /\ Invoke(plain, dref, coord_transform(glob, a)) => SoundCall
  BY StillSound, PoseStill, KinematicsPass
<1>6. \A plain, dref, a : Invoke(plain, dref, robot_coord_transform(glob, a)) => SoundCall
  BY MethodSound, PoseStill DEF robot_coord_transform
<1> QED
  BY <1>1, <1>2, <1>3, <1>4, <1>5, <1>6, Zenon
  DEF KinematicsCalls, Function, Calls

\* Poses in DR_BASE.
LEMMA BasePoseCallsSound ==
  ASSUME Nameable(glob.coord)
  PROVE  BasePoseCalls => SoundCall
<1>1. \A plain, dref, a : (plain => a = InCoord)
        /\ Invoke(plain, dref, get_current_tool_flange_posx(glob, a)) => SoundCall
  BY StillSound, PoseFixedStill, PosesPass, KinematicsPass
<1>2. \A plain, dref, a :
        Invoke(plain, dref, robot_get_current_tool_flange_posx(glob, a)) => SoundCall
  BY MethodSound, PoseFixedStill DEF robot_get_current_tool_flange_posx
<1>3. \A plain, dref, a : (plain => a = InCoord)
        /\ Invoke(plain, dref, get_current_velx(glob, a)) => SoundCall
  BY StillSound, PoseFixedStill, PosesPass, KinematicsPass
<1>4. \A plain, dref, a : Invoke(plain, dref, robot_get_current_velx(glob, a)) => SoundCall
  BY MethodSound, PoseFixedStill DEF robot_get_current_velx
<1>5. \A plain, dref, a : (plain => a = InCoord)
        /\ Invoke(plain, dref, get_desired_velx(glob, a)) => SoundCall
  BY StillSound, PoseFixedStill, PosesPass, KinematicsPass
<1>6. \A plain, dref, a : Invoke(plain, dref, robot_get_desired_velx(glob, a)) => SoundCall
  BY MethodSound, PoseFixedStill DEF robot_get_desired_velx
<1>7. \A plain, dref, a : (plain => a = InCoord)
        /\ Invoke(plain, dref, get_current_rotm(glob, a)) => SoundCall
  BY StillSound, PoseFixedStill, PosesPass, KinematicsPass
<1>8. \A plain, dref, a : Invoke(plain, dref, robot_get_current_rotm(glob, a)) => SoundCall
  BY MethodSound, PoseFixedStill DEF robot_get_current_rotm
<1>9. \A plain, dref, a : (plain => a = InCoord)
        /\ Invoke(plain, dref, get_tool_force(glob, a)) => SoundCall
  BY StillSound, PoseFixedStill, PosesPass, KinematicsPass
<1>10. \A plain, dref, a : Invoke(plain, dref, robot_get_tool_force(glob, a)) => SoundCall
  BY MethodsStill
<1>11. \A plain, dref, a : (plain => a = [pos |-> GoodPose, ref |-> None])
        /\ Invoke(plain, dref, fkin(glob, a)) => SoundCall
  BY StillSound, PoseFixedStill, PosesPass, KinematicsPass
<1>12. \A plain, dref, a : Invoke(plain, dref, robot_fkin(glob, a)) => SoundCall
  BY MethodSound, PoseFixedStill DEF robot_fkin
<1>13. \A plain, dref, a : (plain => a = [pos |-> GoodPose, sol_space |-> ZERO, ref |-> None])
        /\ Invoke(plain, dref, ikin(glob, a)) => SoundCall
  BY StillSound, PoseFixedStill, PosesPass, KinematicsPass
<1>14. \A plain, dref, a : Invoke(plain, dref, robot_ikin(glob, a)) => SoundCall
  BY MethodSound, PoseFixedStill DEF robot_ikin
<1> QED
  BY <1>1, <1>2, <1>3, <1>4, <1>5, <1>6, <1>7, <1>8, <1>9, <1>10, <1>11, <1>12, <1>13,
     <1>14, Zenon
  DEF BasePoseCalls, Function, Calls

\* The default velocities and accelerations.
LEMMA SettingCallsSound ==
  SettingCalls => SoundCall
<1>1. \A plain, dref, a : (plain => a = [vel |-> PyInt(30)])
        /\ Invoke(plain, dref, set_velj(glob, a)) => SoundCall
  BY StillSound, SettersStill, SettersPass
<1>2. \A plain, dref, a : (plain => a = [acc |-> PyInt(30)])
        /\ Invoke(plain, dref, set_accj(glob, a)) => SoundCall
  BY StillSound, SettersStill, SettersPass
<1>3. \A plain, dref, a : (plain => a = [vel1 |-> PyInt(30), vel2 |-> PyInt(DR_COND_NONE)])
        /\ Invoke(plain, dref, set_velx(glob, a)) => SoundCall
  BY StillSound, SettersStill, SettersPass
<1>4. \A plain, dref, a : (plain => a = [acc1 |-> PyInt(30), acc2 |-> PyInt(DR_COND_NONE)])
        /\ Invoke(plain, dref, set_accx(glob, a)) => SoundCall
  BY StillSound, SettersStill, SettersPass
<1> QED
  BY <1>1, <1>2, <1>3, <1>4, Zenon
  DEF SettingCalls, Function

\* A motion that is altered.
LEMMA AlterCallsSound ==
  ASSUME Nameable(glob.coord)
  PROVE  AlterCalls => SoundCall
BY StillSound, OthersStill, AlterPasses, MethodSound, ZenonT(60)
  DEF AlterCalls, Calls, Function, robot_enable_alter_motion

\* What is done around a motion.
LEMMA MotionCallsSound ==
  ASSUME Nameable(glob.coord)
  PROVE  MotionCalls => SoundCall
<1>1. \A plain, dref, a : (plain => a = [target |-> None])
        /\ Invoke(plain, dref, move_home(glob, a)) => SoundCall
  BY StillSound, AroundStill, AroundPass
<1>2. \A plain, dref, a : Invoke(plain, dref, robot_move_home(glob, a)) => SoundCall
  BY MethodsStill
<1>3. \A plain, dref, a : (plain => a = [time |-> ZERO])
        /\ Invoke(plain, dref, move_wait(glob, a)) => SoundCall
  BY StillSound, AroundStill, AroundPass
<1>4. \A plain, dref, a : (plain => a = [speed |-> ONE])
        /\ Invoke(plain, dref, change_operation_speed(glob, a)) => SoundCall
  BY StillSound, AroundStill, AroundPass
<1>5. \A plain, dref, a : Invoke(plain, dref, robot_change_operation_speed(glob, a)) => SoundCall
  BY MethodSound, AroundStill DEF robot_change_operation_speed
<1>6. \A plain, dref, a : (plain => a = [dposx |-> GoodPose])
        /\ Invoke(plain, dref, alter_motion(glob, a)) => SoundCall
  BY StillSound, AroundStill, AroundPass
<1>7. \A plain, dref, a : Invoke(plain, dref, robot_alter_motion(glob, a)) => SoundCall
  BY MethodSound, AroundStill DEF robot_alter_motion
<1>8. \A plain, dref, a : Invoke(plain, dref, disable_alter_motion(glob, a)) => SoundCall
  BY StillSound, AroundStill, GettersPass
<1>9. \A plain, dref, a : Invoke(plain, dref, robot_disable_alter_motion(glob, a)) => SoundCall
  BY MethodSound, AroundStill DEF robot_disable_alter_motion
<1>10. \A plain, dref, a : (plain => a = [mode |-> ZERO])
        /\ Invoke(plain, dref, set_singular_handling(glob, a)) => SoundCall
  BY StillSound, AroundStill, AroundPass
<1>11. \A plain, dref, a : Invoke(plain, dref, robot_set_singular_handling(glob, a)) => SoundCall
  BY MethodSound, AroundStill DEF robot_set_singular_handling
<1>12. \A plain, dref, a : (plain => a = [jog_axis |-> ZERO, ref |-> ZERO, speed |-> ZERO])
        /\ Invoke(plain, dref, jog(glob, a)) => SoundCall
  BY StillSound, AroundStill, AroundPass
<1>13. \A plain, dref, a : Invoke(plain, dref, robot_jog(glob, a)) => SoundCall
  BY MethodSound, AroundStill DEF robot_jog
<1>14. \A plain, dref, a : (plain => a = [jog_axis_list |-> GoodPose, ref |-> ZERO, speed |-> ZERO])
        /\ Invoke(plain, dref, jog_multi(glob, a)) => SoundCall
  BY StillSound, AroundStill, AroundPass
<1>15. \A plain, dref, a : Invoke(plain, dref, robot_jog_multi(glob, a)) => SoundCall
  BY MethodSound, AroundStill DEF robot_jog_multi
<1> QED
  BY <1>1, <1>2, <1>3, <1>4, <1>5, <1>6, <1>7, <1>8, <1>9, <1>10, <1>11, <1>12, <1>13,
     <1>14, <1>15, Zenon
  DEF MotionCalls, Function, Calls, Plain, robot_mwait, robot_set_singularity_handling

\* The realtime connection ...
LEMMA RtConnectCallsSound ==
  RtConnectCalls => SoundCall
BY StillSound, OthersStill, RtConnectPasses, ZenonT(60)
  DEF RtConnectCalls, Function

\* ... its control ...
LEMMA RtCallsSound ==
  RtCalls => SoundCall
<1>1. \A plain, dref, a : (plain => a = [safety_mode |-> ONE, safety_event |-> ONE])
        /\ Invoke(plain, dref, set_safety_mode(glob, a)) => SoundCall
  BY StillSound, RtStill, RtDataStill, RtPass
<1>2. \A plain, dref, a : Invoke(plain, dref, disconnect_rt_control(glob, a)) => SoundCall
  BY StillSound, RtStill, RtDataStill, RtPass
<1>3. \A plain, dref, a : Invoke(plain, dref, start_rt_control(glob, a)) => SoundCall
  BY StillSound, RtStill, RtDataStill, RtPass
<1>4. \A plain, dref, a : Invoke(plain, dref, stop_rt_control(glob, a)) => SoundCall
  BY StillSound, RtStill, RtDataStill, RtPass
<1>5. \A plain, dref, a :
        Invoke(plain, dref, get_rt_control_output_version_list(glob, a)) => SoundCall
  BY StillSound, RtStill, RtDataStill, RtPass
<1>6. \A plain, dref, a :
        Invoke(plain, dref, get_rt_control_input_version_list(glob, a)) => SoundCall
  BY StillSound, RtStill, RtDataStill, RtPass
<1>7. \A plain, dref, a : Invoke(plain, dref, read_data_rt(glob, a)) => SoundCall
  BY StillSound, RtStill, RtDataStill, RtPass
<1>8. \A plain, dref, a : (plain => a = [version |-> Str])
        /\ Invoke(plain, dref, get_rt_control_input_data_list(glob, a)) => SoundCall
  BY StillSound, RtStill, RtDataStill, RtPass
<1> QED
  BY <1>1, <1>2, <1>3, <1>4, <1>5, <1>6, <1>7, <1>8, Zenon
  DEF RtCalls, Function

\* ... and its data.
LEMMA RtDataCallsSound ==
  RtDataCalls => SoundCall
<1>1. \A plain, dref, a : (plain => a = [version |-> Str])
        /\ Invoke(plain, dref, get_rt_control_output_data_list(glob, a)) => SoundCall
  BY StillSound, RtStill, RtDataStill, RtPass, RtDataPass
<1>2. \A plain, dref, a : (plain => a = RtPeriod)
        /\ Invoke(plain, dref, set_rt_control_input(glob, a)) => SoundCall
  BY StillSound, RtStill, RtDataStill, RtPass, RtDataPass
<1>3. \A plain, dref, a : (plain => a = RtPeriod)
        /\ Invoke(plain, dref, set_rt_control_output(glob, a)) => SoundCall
  BY StillSound, RtStill, RtDataStill, RtPass, RtDataPass
<1>4. \A plain, dref, a : (plain => a = [vel |-> GoodPose])
        /\ Invoke(plain, dref, set_velj_rt(glob, a)) => SoundCall
  BY StillSound, RtStill, RtDataStill, RtPass, RtDataPass
<1>5. \A plain, dref, a : (plain => a = [acc |-> GoodPose])
        /\ Invoke(plain, dref, set_accj_rt(glob, a)) => SoundCall
  BY StillSound, RtStill, RtDataStill, RtPass, RtDataPass
<1>6. \A plain, dref, a : (plain => a = TwoRates)
        /\ Invoke(plain, dref, set_velx_rt(glob, a)) => SoundCall
  BY StillSound, RtStill, RtDataStill, RtPass, RtDataPass
<1>7. \A plain, dref, a : (plain => a = TwoRates)
        /\ Invoke(plain, dref, set_accx_rt(glob, a)) => SoundCall
  BY StillSound, RtStill, RtDataStill, RtPass, RtDataPass
<1>8. \A plain, dref, a : (plain => a = Outside)
        /\ Invoke(plain, dref, write_data_rt(glob, a)) => SoundCall
  BY StillSound, RtStill, RtDataStill, RtPass, RtDataPass
<1> QED
  BY <1>1, <1>2, <1>3, <1>4, <1>5, <1>6, <1>7, <1>8, Zenon
  DEF RtDataCalls, Function

\* User coordinates.
LEMMA UserCoordCallsSound ==
  UserCoordCalls => SoundCall
<1>1. \A plain, dref, a : (plain => a = [id |-> PyInt(101), pos |-> GoodPose, ref |-> None])
        /\ Invoke(plain, dref, overwrite_user_cart_coord(glob, a)) => SoundCall
  BY StillSound, PoseFixedStill, PoseStill, UserCoordsPass
<1>2. \A plain, dref, a : Invoke(plain, dref, robot_overwrite_user_cart_coord(glob, a)) => SoundCall
  BY MethodSound, PoseFixedStill, PoseStill DEF robot_overwrite_user_cart_coord
<1>3. \A plain, dref, a : (plain => a = [id |-> PyInt(101)])
        /\ Invoke(plain, dref, get_user_cart_coord(glob, a)) => SoundCall
  BY StillSound, PoseFixedStill, PoseStill, UserCoordsPass
<1>4. \A plain, dref, a : Invoke(plain, dref, robot_get_user_cart_coord(glob, a)) => SoundCall
  BY MethodSound, PoseFixedStill, PoseStill DEF robot_get_user_cart_coord
<1> QED
  BY <1>1, <1>2, <1>3, <1>4, Zenon
  DEF UserCoordCalls, Function, Calls

\* Conditions, in the coordinate in force.
LEMMA ConditionCallsSound ==
  ASSUME Nameable(glob.coord)
  PROVE  ConditionCalls => SoundCall
<1>1. \A plain, dref, a : (plain => a = Condition && [mod |-> ZERO, pos |-> None])
        /\ Invoke(plain, dref, check_position_condition(glob, a)) => SoundCall
  BY StillSound, PoseInCoordStill, OthersStill, ConditionsPass
<1>2. \A plain, dref, a : Invoke(plain, dref, robot_check_position_condition(glob, a)) => SoundCall
  BY MethodSound, PoseInCoordStill, OthersStill DEF robot_check_position_condition
<1>3. \A plain, dref, a : (plain => a = Condition)
        /\ Invoke(plain, dref, check_force_condition(glob, a)) => SoundCall
  BY StillSound, PoseInCoordStill, OthersStill, ConditionsPass DEF check_force_condition
<1>4. \A plain, dref, a : Invoke(plain, dref, robot_check_force_condition(glob, a)) => SoundCall
  BY MethodsStill
<1>5. \A plain, dref, a :
        (plain => a = [axis |-> PyInt(10), min |-> GoodPose, max |-> GoodPose, ref |-> None,
                       mod |-> None, pos |-> None])
        /\ Invoke(plain, dref, check_orientation_condition(glob, a)) => SoundCall
  BY StillSound, PoseInCoordStill, OthersStill, ConditionsPass
<1>6. \A plain, dref, a :
        Invoke(plain, dref, robot_check_orientation_condition(glob, a)) => SoundCall
  BY MethodsStill
<1>7. \A plain, dref, a :
        (plain => a = [axis |-> PyInt(10), min |-> ZERO, max |-> ONE, ref |-> None,
                       mod |-> None, pos |-> GoodPose])
        /\ Invoke(plain, dref, check_orientation_condition(glob, a)) => SoundCall
  BY StillSound, PoseInCoordStill, OthersStill, ConditionsPass
<1> QED
  BY <1>1, <1>2, <1>3, <1>4, <1>5, <1>6, <1>7, Zenon
  DEF ConditionCalls, Function, Calls

\* Compliance and force.
LEMMA ForceCallsSound ==
  ASSUME Nameable(glob.coord)
  PROVE  ForceCalls => SoundCall
<1>1. \A plain, dref, a : (plain => a = Stiff)
        /\ Invoke(plain, dref, task_compliance_ctrl(glob, a)) => SoundCall
  BY StillSound, ForceStill, ForcePasses
<1>2. \A plain, dref, a : Invoke(plain, dref, robot_task_compliance_ctrl(glob, a)) => SoundCall
  BY MethodSound, ForceStill DEF robot_task_compliance_ctrl
<1>3. \A plain, dref, a : (plain => a = Stiff)
        /\ Invoke(plain, dref, set_stiffnessx(glob, a)) => SoundCall
  BY StillSound, ForceStill, ForcePasses
<1>4. \A plain, dref, a : Invoke(plain, dref, robot_set_stiffnessx(glob, a)) => SoundCall
  BY MethodSound, ForceStill DEF robot_set_stiffnessx
<1>5. \A plain, dref, a : Invoke(plain, dref, release_compliance_ctrl(glob, a)) => SoundCall
  BY StillSound, ForceStill, GettersPass
<1>6. \A plain, dref, a : Invoke(plain, dref, robot_release_compliance_ctrl(glob, a)) => SoundCall
  BY MethodSound, ForceStill DEF robot_release_compliance_ctrl
<1>7. \A plain, dref, a : (plain => a = [fd |-> Six(0), dir |-> Six(0), time |-> ZERO, mod |-> ZERO])
        /\ Invoke(plain, dref, set_desired_force(glob, a)) => SoundCall
  BY StillSound, ForceStill, ForcePasses
<1>8. \A plain, dref, a : Invoke(plain, dref, robot_set_desired_force(glob, a)) => SoundCall
  BY MethodSound, ForceStill DEF robot_set_desired_force
<1>9. \A plain, dref, a : (plain => a = [time |-> ZERO])
        /\ Invoke(plain, dref, release_force(glob, a)) => SoundCall
  BY StillSound, ForceStill, ForcePasses
<1>10. \A plain, dref, a : Invoke(plain, dref, robot_release_force(glob, a)) => SoundCall
  BY MethodSound, ForceStill DEF robot_release_force
<1>11. \A plain, dref, a : (plain => a = [m |-> ZERO, timeout |-> ZERO, axis |-> ZERO])
        /\ Invoke(plain, dref, is_done_bolt_tightening(glob, a)) => SoundCall
  BY StillSound, ForceStill, ForcePasses
<1>12. \A plain, dref, a : Invoke(plain, dref, robot_is_done_bolt_tightening(glob, a)) => SoundCall
  BY MethodSound, ForceStill DEF robot_is_done_bolt_tightening
<1> QED
  BY <1>1, <1>2, <1>3, <1>4, <1>5, <1>6, <1>7, <1>8, <1>9, <1>10, <1>11, <1>12, Zenon
  DEF ForceCalls, Function, Calls, Plain

\* Modbus signals.
LEMMA ModbusCallsSound ==
  ModbusCalls => SoundCall
<1>1. \A plain, dref, a :
        (plain => a = [ip |-> Str, port |-> ONE, name |-> Str, reg_type |-> ONE, index |-> ONE,
                       value |-> ZERO, slaveid |-> PyInt(255)])
        /\ Invoke(plain, dref, add_modbus_signal(glob, a)) => SoundCall
  BY StillSound, OthersStill, PortsStill, ModbusPasses
<1>2. \A plain, dref, a : Invoke(plain, dref, robot_add_modbus_signal(glob, a)) => SoundCall
  BY MethodSound, OthersStill, PortsStill DEF robot_add_modbus_signal
<1>3. \A plain, dref, a : (plain => a = Name)
        /\ Invoke(plain, dref, del_modbus_signal(glob, a)) => SoundCall
  BY StillSound, OthersStill, PortsStill, ModbusPasses
<1>4. \A plain, dref, a : Invoke(plain, dref, robot_del_modbus_signal(glob, a)) => SoundCall
  BY MethodSound, OthersStill, PortsStill DEF robot_del_modbus_signal
<1>5. \A plain, dref, a : (plain => a = [iobus |-> Str, val |-> ONE])
        /\ Invoke(plain, dref, set_modbus_output(glob, a)) => SoundCall
  BY StillSound, OthersStill, PortsStill, ModbusPasses
<1>6. \A plain, dref, a : Invoke(plain, dref, robot_set_modbus_output(glob, a)) => SoundCall
  BY MethodSound, OthersStill, PortsStill DEF robot_set_modbus_output
<1>7. \A plain, dref, a : (plain => a = [iobus |-> Str])
        /\ Invoke(plain, dref, get_modbus_input(glob, a)) => SoundCall
  BY StillSound, OthersStill, PortsStill, ModbusPasses
<1>8. \A plain, dref, a : Invoke(plain, dref, robot_get_modbus_input(glob, a)) => SoundCall
  BY MethodSound, OthersStill, PortsStill DEF robot_get_modbus_input
<1> QED
  BY <1>1, <1>2, <1>3, <1>4, <1>5, <1>6, <1>7, <1>8, ZenonT(60)
  DEF ModbusCalls, Function, Calls

\* Inputs and outputs.
LEMMA IoCallsSound ==
  IoCalls => SoundCall
<1>1. \A plain, dref, a : (plain => a = Index)
        /\ Invoke(plain, dref, get_digital_input(glob, a)) => SoundCall
  BY StillSound, PortsStill, PortsPass
<1>2. \A plain, dref, a : (plain => a = Index)
        /\ Invoke(plain, dref, robot_get_digital_input(glob, a)) => SoundCall
  BY IoMethodSound, PortsStill, PortsPass DEF robot_get_digital_input
<1>3. \A plain, dref, a : (plain => a = Index)
        /\ Invoke(plain, dref, get_digital_output(glob, a)) => SoundCall
  BY StillSound, PortsStill, PortsPass
<1>4. \A plain, dref, a : (plain => a = Index)
        /\ Invoke(plain, dref, robot_get_digital_output(glob, a)) => SoundCall
  BY IoMethodSound, PortsStill, PortsPass DEF robot_get_digital_output
<1>5. \A plain, dref, a : (plain => a = Index)
        /\ Invoke(plain, dref, get_tool_digital_input(glob, a)) => SoundCall
  BY StillSound, PortsStill, PortsPass
<1>6. \A plain, dref, a : (plain => a = Index)
        /\ Invoke(plain, dref, robot_get_tool_digital_input(glob, a)) => SoundCall
  BY IoMethodSound, PortsStill, PortsPass DEF robot_get_tool_digital_input
<1>7. \A plain, dref, a : (plain => a = Index)
        /\ Invoke(plain, dref, get_tool_digital_output(glob, a)) => SoundCall
  BY StillSound, PortsStill, PortsPass
<1>8. \A plain, dref, a : (plain => a = Index)
        /\ Invoke(plain, dref, robot_get_tool_digital_output(glob, a)) => SoundCall
  BY IoMethodSound, PortsStill, PortsPass DEF robot_get_tool_digital_output
<1>9. \A plain, dref, a : (plain => a = [ch |-> ONE])
        /\ Invoke(plain, dref, get_analog_input(glob, a)) => SoundCall
  BY StillSound, PortsStill, PortsPass
<1>10. \A plain, dref, a : (plain => a = [ch |-> ONE])
        /\ Invoke(plain, dref, robot_get_analog_input(glob, a)) => SoundCall
  BY IoMethodSound, PortsStill, PortsPass DEF robot_get_analog_input
<1>11. \A plain, dref, a : (plain => a = [index |-> ONE, val |-> None])
        /\ Invoke(plain, dref, set_digital_output(glob, a)) => SoundCall
  BY StillSound, PortsStill, PortsPass
<1>12. \A plain, dref, a : (plain => a = [index |-> ONE, val |-> None])
        /\ Invoke(plain, dref, robot_set_digital_output(glob, a)) => SoundCall
  BY IoMethodSound, PortsStill, PortsPass DEF robot_set_digital_output
<1>13. \A plain, dref, a : (plain => a = [index |-> ONE, val |-> None])
        /\ Invoke(plain, dref, set_tool_digital_output(glob, a)) => SoundCall
  BY StillSound, PortsStill, PortsPass
<1>14. \A plain, dref, a : (plain => a = [index |-> ONE, val |-> None])
        /\ Invoke(plain, dref, robot_set_tool_digital_output(glob, a)) => SoundCall
  BY IoMethodSound, PortsStill, PortsPass DEF robot_set_tool_digital_output
<1>15. \A plain, dref, a : (plain => a = [ch |-> ONE, mod |-> ZERO])
        /\ Invoke(plain, dref, set_mode_analog_input(glob, a)) => SoundCall
  BY StillSound, PortsStill, PortsPass
<1>16. \A plain, dref, a : (plain => a = [ch |-> ONE, mod |-> ZERO])
        /\ Invoke(plain, dref, robot_set_mode_analog_input(glob, a)) => SoundCall
  BY IoMethodSound, PortsStill, PortsPass DEF robot_set_mode_analog_input
<1> QED
  BY <1>1, <1>2, <1>3, <1>4, <1>5, <1>6, <1>7, <1>8, <1>9, <1>10, <1>11, <1>12, <1>13,
     <1>14, <1>15, <1>16, Zenon
  DEF IoCalls, Function, Calls

\* DRL scripts.
LEMMA DrlCallsSound ==
  DrlCalls => SoundCall
<1>1. \A plain, dref, a : (plain => a = [robotSystem |-> ZERO, code |-> Str])
        /\ Invoke(plain, dref, drl_script_run(glob, a)) => SoundCall
  BY StillSound, ToolStill, ToolPasses
<1>2. \A plain, dref, a : Invoke(plain, dref, robot_drl_script_run(glob, a)) => SoundCall
  BY MethodSound, ToolStill DEF robot_drl_script_run
<1>3. \A plain, dref, a : (plain => a = [stop_mode |-> ONE])
        /\ Invoke(plain, dref, drl_script_stop(glob, a)) => SoundCall
  BY StillSound, ToolStill, ToolPasses
<1>4. \A plain, dref, a : Invoke(plain, dref, robot_drl_script_stop(glob, a)) => SoundCall
  BY MethodSound, ToolStill DEF robot_drl_script_stop
<1>5. \A plain, dref, a : Invoke(plain, dref, drl_script_pause(glob, a)) => SoundCall
  BY StillSound, ToolStill, GettersPass
<1>6. \A plain, dref, a : Invoke(plain, dref, robot_drl_script_pause(glob, a)) => SoundCall
  BY MethodSound, ToolStill DEF robot_drl_script_pause
<1>7. \A plain, dref, a : Invoke(plain, dref, drl_script_resume(glob, a)) => SoundCall
  BY StillSound, ToolStill, GettersPass
<1>8. \A plain, dref, a : Invoke(plain, dref, robot_drl_script_resume(glob, a)) => SoundCall
  BY MethodSound, ToolStill DEF robot_drl_script_resume
<1>9. \A plain, dref, a : Invoke(plain, dref, get_drl_state(glob, a)) => SoundCall
  BY StillSound, ToolStill, GettersPass
<1>10. \A plain, dref, a : Invoke(plain, dref, robot_get_drl_state(glob, a)) => SoundCall
  BY MethodSound, ToolStill DEF robot_get_drl_state
<1> QED
  BY <1>1, <1>2, <1>3, <1>4, <1>5, <1>6, <1>7, <1>8, <1>9, <1>10, Zenon
  DEF DrlCalls, Function, Calls, Plain

\* Tools and TCPs.
LEMMA ConfigCallsSound ==
  ConfigCalls => SoundCall
<1>1. \A plain, dref, a : (plain => a = Name) /\ Invoke(plain, dref, set_tcp(glob, a)) => SoundCall
  BY StillSound, ToolStill, ToolPasses
<1>2. \A plain, dref, a : Invoke(plain, dref, robot_set_tcp(glob, a)) => SoundCall
  BY MethodSound, ToolStill DEF robot_set_tcp
<1>3. \A plain, dref, a : (plain => a = Name) /\ Invoke(plain, dref, set_tool(glob, a)) => SoundCall
  BY StillSound, ToolStill, ToolPasses
<1>4. \A plain, dref, a : Invoke(plain, dref, robot_set_tool(glob, a)) => SoundCall
  BY MethodSound, ToolStill DEF robot_set_tool
<1>5. \A plain, dref, a : (plain => a = Name)
        /\ Invoke(plain, dref, set_tool_shape(glob, a)) => SoundCall
  BY StillSound, ToolStill, ToolPasses
<1>6. \A plain, dref, a : Invoke(plain, dref, robot_set_tool_shape(glob, a)) => SoundCall
  BY MethodSound, ToolStill DEF robot_set_tool_shape
<1>7. \A plain, dref, a : (plain => a = Name) /\ Invoke(plain, dref, del_tcp(glob, a)) => SoundCall
  BY StillSound, ToolStill, ToolPasses
<1>8. \A plain, dref, a : Invoke(plain, dref, robot_del_tcp(glob, a)) => SoundCall
  BY MethodSound, ToolStill DEF robot_del_tcp
<1>9. \A plain, dref, a : (plain => a = Name) /\ Invoke(plain, dref, del_tool(glob, a)) => SoundCall
  BY StillSound, ToolStill, ToolPasses
<1>10. \A plain, dref, a : Invoke(plain, dref, robot_del_tool(glob, a)) => SoundCall
  BY MethodSound, ToolStill DEF robot_del_tool
<1>11. \A plain, dref, a : Invoke(plain, dref, get_tcp(glob, a)) => SoundCall
  BY StillSound, ToolStill, GettersPass
<1>12. \A plain, dref, a : Invoke(plain, dref, robot_get_tcp(glob, a)) => SoundCall
  BY MethodSound, ToolStill DEF robot_get_tcp
<1>13. \A plain, dref, a : Invoke(plain, dref, get_tool(glob, a)) => SoundCall
  BY StillSound, ToolStill, GettersPass
<1>14. \A plain, dref, a : Invoke(plain, dref, robot_get_tool(glob, a)) => SoundCall
  BY MethodSound, ToolStill DEF robot_get_tool
<1>15. \A plain, dref, a : (plain => a = [name |-> Str, pos |-> GoodPose])
        /\ Invoke(plain, dref, add_tcp(glob, a)) => SoundCall
  BY StillSound, ToolStill, ToolPasses
<1>16. \A plain, dref, a : Invoke(plain, dref, robot_add_tcp(glob, a)) => SoundCall
  BY MethodSound, ToolStill DEF robot_add_tcp
<1>17. \A plain, dref, a :
        (plain => a = [name |-> Str, weight |-> ONE, cog |-> V3, inertia |-> GoodPose])
        /\ Invoke(plain, dref, add_tool(glob, a)) => SoundCall
  BY StillSound, ToolStill, ToolPasses
<1>18. \A plain, dref, a : Invoke(plain, dref, robot_add_tool(glob, a)) => SoundCall
  BY MethodSound, ToolStill DEF robot_add_tool
<1> QED
  BY <1>1, <1>2, <1>3, <1>4, <1>5, <1>6, <1>7, <1>8, <1>9, <1>10, <1>11, <1>12, <1>13,
     <1>14, <1>15, <1>16, <1>17, <1>18, Zenon
  DEF ConfigCalls, Function, Calls, Plain

\* The functions with *args and **kargs.
LEMMA FormCallsSound ==
  FormCalls => SoundCall
BY StillSound, FormsStill, MethodSound
  DEF FormCalls, Overloads, robot_parallel_axis, robot_align_axis, robot_calc_coord,
      robot_set_user_cart_coord

\* The constructors of poses.
LEMMA ConstructorsSound ==
  Constructors => SoundCall
BY StillSound, RaisedStill DEF Constructors

\* Why a good call may be refused.
LEMMA ExcusedCases ==
  ASSUME NEW svc, NEW g
  PROVE  /\ svc \in JointMotions /\ (g.velj = InitialSettings["velj"] \/ g.accj = InitialSettings["accj"])
              => Excused(svc, g)
         /\ svc \in TaskMotions /\ (g.velx = InitialSettings["velx"] \/ g.accx = InitialSettings["accx"])
              => Excused(svc, g)
         /\ svc \in StrictMotions
              /\ (g.velx.s[2] = PyInt(DR_COND_NONE) \/ g.accx.s[2] = PyInt(DR_COND_NONE))
              => Excused(svc, g)
         /\ svc = "get_current_posx" /\ g.coord = PyInt(DR_TOOL) => Excused(svc, g)
BY DEF Excused, JointMotions, TaskMotions, StrictMotions

\* A call that is no motion and is refused for such a reason is sound.
LEMMA ExcusedSound ==
  ASSUME NEW plain, NEW dref, NEW o, Invoke(plain, dref, o), Still(o),
         plain => o.err = "ok" \/ Excused(o.svc, glob)
  PROVE  SoundCall
<1>1. Expected(plain, o)
  BY DEF Expected, CanMove, Still, Movers
<1> QED
  BY <1>1 DEF SoundCall

\* So is a motion.
LEMMA MotionSound ==
  ASSUME NEW plain, NEW dref, NEW o, Invoke(plain, dref, o), o.err = "ok" => CanMove(o, plain),
         plain => o.err = "ok" \/ Excused(o.svc, glob)
  PROVE  SoundCall
BY DEF SoundCall, Expected

\* Poses in the coordinate in force; get_current_posx refuses DR_TOOL.
LEMMA PoseCallsSound ==
  ASSUME Nameable(glob.coord)
  PROVE  PoseCalls => SoundCall
<1>1. ASSUME NEW plain, NEW dref, NEW a, plain => a = InCoord,
             Invoke(plain, dref, get_current_posx(glob, a))
      PROVE  SoundCall
  <2>1. get_current_posx(glob, a).svc = "get_current_posx"
    BY CallForm DEF get_current_posx, PoseIn
  <2>2. plain => get_current_posx(glob, a).err = "ok" \/ Excused("get_current_posx", glob)
    BY <1>1, PosesPass, ExcusedCases
  <2> QED
    BY <1>1, <2>1, <2>2, ExcusedSound, PoseInCoordStill
<1>2. \A plain, dref, a : Invoke(plain, dref, robot_get_current_posx(glob, a)) => SoundCall
  BY MethodSound, PoseInCoordStill DEF robot_get_current_posx
<1>3. \A plain, dref, a : (plain => a = InCoord)
        /\ Invoke(plain, dref, get_desired_posx(glob, a)) => SoundCall
  BY StillSound, PoseInCoordStill, PosesPass
<1>4. \A plain, dref, a : Invoke(plain, dref, robot_get_desired_posx(glob, a)) => SoundCall
  BY MethodSound, PoseInCoordStill DEF robot_get_desired_posx
<1>5. \A plain, dref, a :
        (plain => a = [pos |-> GoodPose, delta |-> GoodPose, ref |-> None, ref_out |-> ZERO])
        /\ Invoke(plain, dref, trans(glob, a)) => SoundCall
  BY StillSound, PoseInCoordStill, KinematicsPass
<1>6. \A plain, dref, a : Invoke(plain, dref, robot_trans(glob, a)) => SoundCall
  BY MethodSound, PoseInCoordStill DEF robot_trans
<1> QED
  BY <1>1, <1>2, <1>3, <1>4, <1>5, <1>6, Zenon
  DEF PoseCalls, Calls, Function

\* A good call leaves out every speed, and its other arguments are as given.
LEMMA SpeedsLeftOut ==
  ASSUME NEW x, SpeedNames \cap DOMAIN x = {}
  PROVE  /\ DOMAIN (x && SpeedArgs) = DOMAIN x \cup SpeedNames
         /\ \A k \in SpeedNames : (x && SpeedArgs)[k] = None
         /\ \A k \in DOMAIN x : (x && SpeedArgs)[k] = x[k]
<1>1. DOMAIN SpeedArgs = SpeedNames /\ \A k \in SpeedNames : SpeedArgs[k] = None
  BY DEF SpeedArgs, SpeedNames
<1> QED
  BY <1>1 DEF &&

\* Whatever a call gives for its speeds is measured.
LEMMA SpeedsMeasured ==
  ASSUME NEW x, SpeedNames \cap DOMAIN x = {}, NEW y, SpeedNames \cap DOMAIN y = {},
         NEW a \in Args(x && SpeedArgs, y && SpeedAlts)
  PROVE  \A k \in SpeedNames : Measured(a[k])
<1> DEFINE d == x && SpeedArgs
           alts == y && SpeedAlts
<1>1. Measured(None) /\ Measured(PyInt(30)) /\ Measured(ONE)
  BY DEF Measured, None, ONE, PyInt, PyValue
<1>2. \A v \in Velocities \cup Scalars : Measured(v)
  BY ValuesAssumption DEF Measured
<1>3. /\ DOMAIN SpeedAlts = SpeedNames
      /\ \A k \in SpeedNames : SpeedAlts[k] \in {Velocities, Scalars, {PyInt(30)}, {ONE}}
  BY DEF SpeedAlts, SpeedNames
<1>4. \A k \in SpeedNames : k \in DOMAIN alts /\ alts[k] = SpeedAlts[k]
  BY <1>3 DEF &&
<1>5. \A k \in SpeedNames : k \in DOMAIN d /\ d[k] = None
  BY SpeedsLeftOut
<1> HIDE DEF d, alts
<1>6. ASSUME NEW k \in SpeedNames, NEW f \in DOMAIN alts, NEW v \in alts[f], a = [d EXCEPT ![f] = v]
      PROVE  Measured(a[k])
  <2>1. CASE f = k
    <3>1. a[k] = v /\ v \in SpeedAlts[k]
      BY <1>4, <1>5, <1>6, <2>1
    <3>2. \/ SpeedAlts[k] = Velocities \/ SpeedAlts[k] = Scalars
          \/ SpeedAlts[k] = {PyInt(30)} \/ SpeedAlts[k] = {ONE}
      BY <1>3
    <3> QED
      BY <1>1, <1>2, <3>1, <3>2
  <2>2. CASE f # k
    BY <1>1, <1>5, <1>6, <2>2
  <2> QED
    BY <2>1, <2>2
<1>7. a \in Args(d, alts)
  BY DEF d, alts
<1> QED
  BY <1>1, <1>5, <1>6, <1>7, ArgsCases

\* A task motion is sound: it can move, and with its defaults set a good call
\* of it is accepted.
LEMMA TaskMotionSound ==
  ASSUME Usable(glob), Nameable(glob.coord), NEW plain, NEW dref, NEW a, NEW o,
         Invoke(plain, dref, o), \A k \in SpeedNames : Measured(a[k]),
         TaskChecked(o, TaskParam(a.vel, a.v, glob.velx), TaskParam(a.acc, a.a, glob.accx),
                     TimeParam(a.time, a.t)),
         plain => (\A k \in SpeedNames : a[k] = None) /\ a.ref = None /\ a.mod = ZERO,
         plain /\ TaskReady(glob, a) => o.err = "ok"
  PROVE  SoundCall
<1>1. o.err = "ok" => CanMove(o, plain)
  BY TaskCheckedMoves
<1>2. ASSUME plain, o.err # "ok"
      PROVE  Excused(o.svc, glob)
  <2>1. glob.velx = InitialSettings["velx"] \/ glob.accx = InitialSettings["accx"]
    BY <1>2 DEF TaskReady
  <2>2. o.svc \in TaskMotions
    BY DEF TaskChecked
  <2> QED
    BY <2>1, <2>2, ExcusedCases
<1> QED
  BY <1>1, <1>2, MotionSound

\* movejx, whose first items are sent, is sound with its defaults.
LEMMA JointxSound ==
  ASSUME Usable(glob), Nameable(glob.coord), NEW plain, NEW dref, NEW a, NEW async,
         Invoke(plain, dref, movejx(glob, a, async)),
         plain => /\ \A k \in SpeedNames : a[k] = None
                  /\ a.pos = GoodPose /\ a.radius = None /\ a.r = None /\ a.ra = ZERO
                  /\ a.mod = ZERO /\ a.ref = None /\ a.sol = ZERO
  PROVE  SoundCall
<1> DEFINE o == movejx(glob, a, async)
<1>1. o.svc = "move_jointx"
  BY SentCall DEF movejx
<1>2. plain => /\ o.err = "ok" => o.req.vel.n > 0 /\ o.req.acc.n > 0
               /\ JointReady(glob, a) => o.err = "ok"
  BY MovejxSound
<1> HIDE DEF o
<1>3. o.err = "ok" => CanMove(o, plain)
  BY <1>1, <1>2 DEF CanMove, TaskMotions
<1>4. ASSUME plain, o.err # "ok"
      PROVE  Excused(o.svc, glob)
  <2>1. glob.velj = InitialSettings["velj"] \/ glob.accj = InitialSettings["accj"]
    BY <1>2, <1>4 DEF JointReady
  <2>2. o.svc \in JointMotions
    BY <1>1 DEF JointMotions
  <2> QED
    BY <2>1, <2>2, ExcusedCases
<1> QED
  BY <1>3, <1>4, MotionSound DEF o

\* So is movej ...
LEMMA JointSound ==
  ASSUME Usable(glob), Nameable(glob.coord), NEW plain, NEW dref, NEW a, NEW async,
         Invoke(plain, dref, movej(glob, a, async)),
         plain => /\ \A k \in SpeedNames : a[k] = None
                  /\ a.pos = GoodPose /\ a.radius = None /\ a.r = None /\ a.ra = ZERO
                  /\ a.mod = ZERO
  PROVE  SoundCall
<1> DEFINE o == movej(glob, a, async)
<1>1. o.svc = "move_joint"
  BY SentCall DEF movej
<1>2. plain => /\ o.err = "ok" => o.req.vel.n > 0 /\ o.req.acc.n > 0
               /\ JointReady(glob, a) => o.err = "ok"
  BY MovejSound
<1> HIDE DEF o
<1>3. o.err = "ok" => CanMove(o, plain)
  BY <1>1, <1>2 DEF CanMove, TaskMotions
<1>4. ASSUME plain, o.err # "ok"
      PROVE  Excused(o.svc, glob)
  <2>1. glob.velj = InitialSettings["velj"] \/ glob.accj = InitialSettings["accj"]
    BY <1>2, <1>4 DEF JointReady
  <2>2. o.svc \in JointMotions
    BY <1>1 DEF JointMotions
  <2> QED
    BY <2>1, <2>2, ExcusedCases
<1> QED
  BY <1>3, <1>4, MotionSound DEF o

\* ... while the method movej is exempt.
LEMMA RobotMovejSound ==
  ASSUME NEW plain, NEW dref, NEW a, NEW async, Invoke(plain, dref, robot_movej(glob, a, async))
  PROVE  SoundCall
<1> DEFINE c == movej(RobotSettings(glob), a, async)
           o == robot_movej(glob, a, async)
<1>1. c.svc = "move_joint" /\ DOMAIN c = Fields
  <2>1. \A err, g, svc, answer, req : DOMAIN CallWaiting(err, g, svc, answer, req) = Fields
    BY CallForm DEF CallWaiting
  <2> QED
    BY <2>1, SentCall DEF movej
<1> HIDE DEF c
<1>2. o.svc = "move_joint" /\ o.absolute
  BY <1>1 DEF robot_movej, Method, Fields, c
<1> HIDE DEF o
<1>3. Expected(plain, o)
  BY <1>2 DEF Expected, CanMove, TaskMotions
<1> QED
  BY <1>3 DEF SoundCall, o

\* movesj
LEMMA SplineSound ==
  ASSUME Usable(glob), Nameable(glob.coord), NEW plain, NEW dref, NEW a, NEW async,
         Invoke(plain, dref, movesj(glob, a, async)), \A k \in SpeedNames : Measured(a[k]),
         plain => /\ \A k \in SpeedNames : a[k] = None
                  /\ a.pos_list = GoodJoints /\ a.mod = ZERO
  PROVE  SoundCall
<1> DEFINE o == movesj(glob, a, async)
<1>1. /\ o.svc = "move_spline_joint"
      /\ o.err = "ok" => CanMove(o, plain)
      /\ plain /\ JointReady(glob, a) => o.err = "ok"
  BY MovesjSound
<1> HIDE DEF o
<1>2. ASSUME plain, o.err # "ok"
      PROVE  Excused(o.svc, glob)
  <2>1. glob.velj = InitialSettings["velj"] \/ glob.accj = InitialSettings["accj"]
    BY <1>1, <1>2 DEF JointReady
  <2>2. o.svc \in JointMotions
    BY <1>1 DEF JointMotions
  <2> QED
    BY <2>1, <2>2, ExcusedCases
<1> QED
  BY <1>1, <1>2, MotionSound DEF o

\* move_spiral
LEMMA SpiralSound ==
  ASSUME Usable(glob), NEW plain, NEW dref, NEW a, NEW async,
         Invoke(plain, dref, move_spiral(glob, a, async)), \A k \in SpeedNames : Measured(a[k]),
         plain => /\ \A k \in SpeedNames : a[k] = None
                  /\ a.rev = PyInt(10) /\ a.rmax = PyInt(10) /\ a.lmax = ZERO
                  /\ a.axis = PyInt(2) /\ a.ref = ONE
  PROVE  SoundCall
<1> DEFINE o == move_spiral(glob, a, async)
<1>1. /\ o.svc = "move_spiral"
      /\ o.err = "ok" => CanMove(o, plain)
      /\ plain /\ SpiralReady(glob, a) => o.err = "ok"
  BY MoveSpiralSound
<1> HIDE DEF o
<1>2. ASSUME plain, o.err # "ok"
      PROVE  Excused(o.svc, glob)
  <2>1. glob.velx.s[2] = PyInt(DR_COND_NONE) \/ glob.accx.s[2] = PyInt(DR_COND_NONE)
    BY <1>1, <1>2 DEF SpiralReady
  <2>2. o.svc \in StrictMotions
    BY <1>1 DEF StrictMotions
  <2> QED
    BY <2>1, <2>2, ExcusedCases
<1> QED
  BY <1>1, <1>2, MotionSound DEF o

\* The same with the arguments of a motion that blends.
LEMMA BlendLeftOut ==
  ASSUME NEW x, (SpeedNames \cup DOMAIN BlendArgs) \cap DOMAIN x = {}
  PROVE  LET d == x && BlendArgs && SpeedArgs
         IN  /\ SpeedNames \cap DOMAIN (x && BlendArgs) = {}
             /\ \A k \in SpeedNames : d[k] = None
             /\ d.radius = None /\ d.r = None /\ d.ra = ZERO /\ d.mod = ZERO
             /\ \A k \in DOMAIN x : d[k] = x[k]
<1> DEFINE z == x && BlendArgs
<1>1. DOMAIN z = DOMAIN x \cup {"radius", "r", "ra", "mod"}
  BY DEF BlendArgs, &&
<1>2. z.radius = None /\ z.r = None /\ z.ra = ZERO /\ z.mod = ZERO
  BY DEF BlendArgs, &&
<1>3. \A k \in DOMAIN x : z[k] = x[k]
  BY DEF BlendArgs, &&
<1>4. SpeedNames \cap DOMAIN z = {}
  BY <1>1 DEF SpeedNames
<1> HIDE DEF z
<1>5. /\ \A k \in SpeedNames : (z && SpeedArgs)[k] = None
      /\ \A k \in DOMAIN z : (z && SpeedArgs)[k] = z[k]
  BY <1>4, SpeedsLeftOut
<1>6. LET d == z && SpeedArgs
      IN  /\ \A k \in SpeedNames : d[k] = None
          /\ d.radius = None /\ d.r = None /\ d.ra = ZERO /\ d.mod = ZERO
          /\ \A k \in DOMAIN x : d[k] = x[k]
  BY <1>1, <1>2, <1>3, <1>5
<1> QED
  BY <1>4, <1>6 DEF z

\* Neither the arguments of a blend nor their alternatives are speeds.
LEMMA BlendMeasured ==
  ASSUME NEW x, (SpeedNames \cup DOMAIN BlendArgs) \cap DOMAIN x = {},
         NEW y, SpeedNames \cap DOMAIN y = {},
         NEW a \in Args(x && BlendArgs && SpeedArgs, y && BlendAlts && SpeedAlts)
  PROVE  \A k \in SpeedNames : Measured(a[k])
<1>1. SpeedNames \cap DOMAIN (y && BlendAlts) = {}
  BY DEF BlendAlts, SpeedNames, &&
<1>2. SpeedNames \cap DOMAIN (x && BlendArgs) = {}
  BY BlendLeftOut
<1> QED
  BY <1>1, <1>2, SpeedsMeasured

\* The good call is one of the calls.
LEMMA GoodIsCalled ==
  ASSUME NEW d, NEW alts
  PROVE  d \in Args(d, alts)
BY DEF Args

\* movej and movesj
LEMMA JointMoveCallsSound ==
  ASSUME Usable(glob), Nameable(glob.coord)
  PROVE  JointMoveCalls => SoundCall
<1> DEFINE x1 == [pos |-> GoodPose]
           y1 == [pos |-> Poses]
           x2 == [pos_list |-> GoodJoints, mod |-> ZERO]
           y2 == [pos_list |-> PoseLists, mod |-> Scalars]
<1>1. Motions(x1 && BlendArgs && SpeedArgs, y1 && BlendAlts && SpeedAlts, movej, robot_movej)
        => SoundCall
  <2> DEFINE d    == x1 && BlendArgs && SpeedArgs
             alts == y1 && BlendAlts && SpeedAlts
  <2>1. (SpeedNames \cup DOMAIN BlendArgs) \cap DOMAIN x1 = {} /\ SpeedNames \cap DOMAIN y1 = {}
    BY DEF SpeedNames, BlendArgs
  <2>2. /\ \A k \in SpeedNames : d[k] = None
        /\ d.pos = GoodPose
        /\ d.radius = None /\ d.r = None /\ d.ra = ZERO /\ d.mod = ZERO
    <3>1. \A k \in DOMAIN x1 : d[k] = x1[k]
      BY <2>1, BlendLeftOut
    <3> QED
      BY <2>1, <3>1, BlendLeftOut
  <2>3. \A a \in Args(d, alts) : \A k \in SpeedNames : Measured(a[k])
    BY <2>1, BlendMeasured
  <2> HIDE DEF x1, y1, d, alts
  <2>4. d \in Args(d, alts)
    BY GoodIsCalled
  <2>5. \A plain, dref, a, async :
             /\ \A k \in SpeedNames : Measured(a[k])
             /\ plain => a = d
             /\ Invoke(plain, dref, movej(glob, a, async))
          => SoundCall
    BY <2>2, JointSound
  <2>6. \A plain, dref, a, async : Invoke(plain, dref, robot_movej(glob, a, async)) => SoundCall
    BY RobotMovejSound
  <2> QED
    BY <2>3, <2>4, <2>5, <2>6, Zenon DEF Motions, Function, d, alts
<1>2. Motions(x2 && SpeedArgs, y2 && SpeedAlts, movesj, robot_movesj)
        => SoundCall
  <2> DEFINE d    == x2 && SpeedArgs
             alts == y2 && SpeedAlts
  <2>1. SpeedNames \cap DOMAIN x2 = {} /\ SpeedNames \cap DOMAIN y2 = {}
    BY DEF SpeedNames
  <2>2. /\ \A k \in SpeedNames : d[k] = None
        /\ d.pos_list = GoodJoints /\ d.mod = ZERO
    <3>1. \A k \in DOMAIN x2 : d[k] = x2[k]
      BY <2>1, SpeedsLeftOut
    <3> QED
      BY <2>1, <3>1, SpeedsLeftOut
  <2>3. \A a \in Args(d, alts) : \A k \in SpeedNames : Measured(a[k])
    BY <2>1, SpeedsMeasured
  <2> HIDE DEF x2, y2, d, alts
  <2>4. d \in Args(d, alts)
    BY GoodIsCalled
  <2>5. \A plain, dref, a, async :
             /\ \A k \in SpeedNames : Measured(a[k])
             /\ plain => a = d
             /\ Invoke(plain, dref, movesj(glob, a, async))
          => SoundCall
    BY <2>2, SplineSound
  <2> QED
    BY <2>3, <2>4, <2>5, Zenon DEF Motions, Function, robot_movesj, d, alts
<1>3. \A plain, dref, a : Invoke(plain, dref, robot_movej(glob, a, 0)) => SoundCall
  BY RobotMovejSound
<1> QED
  BY <1>1, <1>2, <1>3, Zenon DEF JointMoveCalls, Function

\* movejx and the task motions
LEMMA TaskMoveCallsSound ==
  ASSUME Usable(glob), Nameable(glob.coord)
  PROVE  TaskMoveCalls => SoundCall
<1> DEFINE x1 == [pos |-> GoodPose, ref |-> None, sol |-> ZERO]
           y1 == [pos |-> Poses, ref |-> Coords, sol |-> Scalars]
           x2 == [pos |-> GoodPose, ref |-> None]
           y2 == [pos |-> Poses, ref |-> Coords]
           x3 == [pos1 |-> GoodPose, pos2 |-> GoodPose, ref |-> None, angle |-> None,
                  an |-> None]
           y3 == [pos1 |-> Poses, pos2 |-> Poses, ref |-> Coords, angle |-> Velocities,
                  an |-> {ONE}]
           x4 == [pos_list |-> GoodTask, ref |-> None, mod |-> ZERO, vel_opt |-> ZERO]
           y4 == [pos_list |-> PoseLists, ref |-> Coords, mod |-> Scalars,
                  vel_opt |-> Scalars]
           x5 == [seg_list |-> GoodSegments, ref |-> None, mod |-> ZERO]
           y5 == [seg_list |-> Segments, ref |-> Coords, mod |-> Scalars]
<1>1. Motions(x1 && BlendArgs && SpeedArgs, y1 && BlendAlts && SpeedAlts, movejx, robot_movejx)
        => SoundCall
  <2> DEFINE d    == x1 && BlendArgs && SpeedArgs
             alts == y1 && BlendAlts && SpeedAlts
  <2>1. (SpeedNames \cup DOMAIN BlendArgs) \cap DOMAIN x1 = {} /\ SpeedNames \cap DOMAIN y1 = {}
    BY DEF SpeedNames, BlendArgs
  <2>2. /\ \A k \in SpeedNames : d[k] = None
        /\ d.pos = GoodPose /\ d.ref = None /\ d.sol = ZERO
        /\ d.radius = None /\ d.r = None /\ d.ra = ZERO /\ d.mod = ZERO
    <3>1. \A k \in DOMAIN x1 : d[k] = x1[k]
      BY <2>1, BlendLeftOut
    <3> QED
      BY <2>1, <3>1, BlendLeftOut
  <2>3. \A a \in Args(d, alts) : \A k \in SpeedNames : Measured(a[k])
    BY <2>1, BlendMeasured
  <2> HIDE DEF x1, y1, d, alts
  <2>4. d \in Args(d, alts)
    BY GoodIsCalled
  <2>5. \A plain, dref, a, async :
             /\ \A k \in SpeedNames : Measured(a[k])
             /\ plain => a = d
             /\ Invoke(plain, dref, movejx(glob, a, async))
          => SoundCall
    BY <2>2, JointxSound
  <2> QED
    BY <2>3, <2>4, <2>5, Zenon DEF Motions, Function, robot_movejx, d, alts
<1>2. Motions(x2 && BlendArgs && SpeedArgs, y2 && BlendAlts && SpeedAlts, movel, robot_movel)
        => SoundCall
  <2> DEFINE d    == x2 && BlendArgs && SpeedArgs
             alts == y2 && BlendAlts && SpeedAlts
  <2>1. (SpeedNames \cup DOMAIN BlendArgs) \cap DOMAIN x2 = {} /\ SpeedNames \cap DOMAIN y2 = {}
    BY DEF SpeedNames, BlendArgs
  <2>2. /\ \A k \in SpeedNames : d[k] = None
        /\ d.pos = GoodPose /\ d.ref = None
        /\ d.radius = None /\ d.r = None /\ d.ra = ZERO /\ d.mod = ZERO
    <3>1. \A k \in DOMAIN x2 : d[k] = x2[k]
      BY <2>1, BlendLeftOut
    <3> QED
      BY <2>1, <3>1, BlendLeftOut
  <2>3. \A a \in Args(d, alts) : \A k \in SpeedNames : Measured(a[k])
    BY <2>1, BlendMeasured
  <2> HIDE DEF x2, y2, d, alts
  <2>4. d \in Args(d, alts)
    BY GoodIsCalled
  <2>5. \A plain, dref, a, async :
             /\ \A k \in SpeedNames : Measured(a[k])
             /\ plain => a = d
             /\ Invoke(plain, dref, movel(glob, a, async))
          => SoundCall
    BY <2>2, MovelSound, TaskMotionSound
  <2> QED
    BY <2>3, <2>4, <2>5, Zenon DEF Motions, Function, robot_movel, d, alts
<1>3. Motions(x3 && BlendArgs && SpeedArgs, y3 && BlendAlts && SpeedAlts, movec, robot_movec)
        => SoundCall
  <2> DEFINE d    == x3 && BlendArgs && SpeedArgs
             alts == y3 && BlendAlts && SpeedAlts
  <2>1. (SpeedNames \cup DOMAIN BlendArgs) \cap DOMAIN x3 = {} /\ SpeedNames \cap DOMAIN y3 = {}
    BY DEF SpeedNames, BlendArgs
  <2>2. /\ \A k \in SpeedNames : d[k] = None
        /\ d.pos1 = GoodPose /\ d.pos2 = GoodPose /\ d.ref = None /\ d.angle = None
        /\ d.an = None
        /\ d.radius = None /\ d.r = None /\ d.ra = ZERO /\ d.mod = ZERO
    <3>1. \A k \in DOMAIN x3 : d[k] = x3[k]
      BY <2>1, BlendLeftOut
    <3> QED
      BY <2>1, <3>1, BlendLeftOut
  <2>3. \A a \in Args(d, alts) : \A k \in SpeedNames : Measured(a[k])
    BY <2>1, BlendMeasured
  <2> HIDE DEF x3, y3, d, alts
  <2>4. d \in Args(d, alts)
    BY GoodIsCalled
  <2>5. \A plain, dref, a, async :
             /\ \A k \in SpeedNames : Measured(a[k])
             /\ plain => a = d
             /\ Invoke(plain, dref, movec(glob, a, async))
          => SoundCall
    BY <2>2, MovecSound, TaskMotionSound
  <2> QED
    BY <2>3, <2>4, <2>5, Zenon DEF Motions, Function, robot_movec, d, alts
<1>4. Motions(x4 && SpeedArgs, y4 && SpeedAlts, movesx, robot_movesx)
        => SoundCall
  <2> DEFINE d    == x4 && SpeedArgs
             alts == y4 && SpeedAlts
  <2>1. SpeedNames \cap DOMAIN x4 = {} /\ SpeedNames \cap DOMAIN y4 = {}
    BY DEF SpeedNames
  <2>2. /\ \A k \in SpeedNames : d[k] = None
        /\ d.pos_list = GoodTask /\ d.ref = None /\ d.mod = ZERO /\ d.vel_opt = ZERO
    <3>1. \A k \in DOMAIN x4 : d[k] = x4[k]
      BY <2>1, SpeedsLeftOut
    <3> QED
      BY <2>1, <3>1, SpeedsLeftOut
  <2>3. \A a \in Args(d, alts) : \A k \in SpeedNames : Measured(a[k])
    BY <2>1, SpeedsMeasured
  <2> HIDE DEF x4, y4, d, alts
  <2>4. d \in Args(d, alts)
    BY GoodIsCalled
  <2>5. \A plain, dref, a, async :
             /\ \A k \in SpeedNames : Measured(a[k])
             /\ plain => a = d
             /\ Invoke(plain, dref, movesx(glob, a, async))
          => SoundCall
    BY <2>2, MovesxSound, TaskMotionSound
  <2> QED
    BY <2>3, <2>4, <2>5, Zenon DEF Motions, Function, robot_movesx, d, alts
<1>5. Motions(x5 && SpeedArgs, y5 && SpeedAlts, moveb, robot_moveb)
        => SoundCall
  <2> DEFINE d    == x5 && SpeedArgs
             alts == y5 && SpeedAlts
  <2>1. SpeedNames \cap DOMAIN x5 = {} /\ SpeedNames \cap DOMAIN y5 = {}
    BY DEF SpeedNames
  <2>2. /\ \A k \in SpeedNames : d[k] = None
        /\ d.seg_list = GoodSegments /\ d.ref = None /\ d.mod = ZERO
    <3>1. \A k \in DOMAIN x5 : d[k] = x5[k]
      BY <2>1, SpeedsLeftOut
    <3> QED
      BY <2>1, <3>1, SpeedsLeftOut
  <2>3. \A a \in Args(d, alts) : \A k \in SpeedNames : Measured(a[k])
    BY <2>1, SpeedsMeasured
  <2> HIDE DEF x5, y5, d, alts
  <2>4. d \in Args(d, alts)
    BY GoodIsCalled
  <2>5. \A plain, dref, a, async :
             /\ \A k \in SpeedNames : Measured(a[k])
             /\ plain => a = d
             /\ Invoke(plain, dref, moveb(glob, a, async))
          => SoundCall
    BY <2>2, MovebSound, TaskMotionSound
  <2> QED
    BY <2>3, <2>4, <2>5, Zenon DEF Motions, Function, robot_moveb, d, alts
<1> QED
  BY <1>1, <1>2, <1>3, <1>4, <1>5, Zenon DEF TaskMoveCalls

\* move_spiral, and move_periodic, which takes no speeds
LEMMA AxisMoveCallsSound ==
  ASSUME Usable(glob)
  PROVE  AxisMoveCalls => SoundCall
<1> DEFINE x1 == [rev |-> PyInt(10), rmax |-> PyInt(10), lmax |-> ZERO,
                  axis |-> PyInt(2), ref |-> ONE]
           y1 == [rev |-> Scalars, rmax |-> Scalars, lmax |-> Scalars, axis |-> Scalars,
                  ref |-> Coords]
<1>1. Motions(x1 && SpeedArgs, y1 && SpeedAlts, move_spiral, robot_move_spiral)
        => SoundCall
  <2> DEFINE d    == x1 && SpeedArgs
             alts == y1 && SpeedAlts
  <2>1. SpeedNames \cap DOMAIN x1 = {} /\ SpeedNames \cap DOMAIN y1 = {}
    BY DEF SpeedNames
  <2>2. /\ \A k \in SpeedNames : d[k] = None
        /\ d.rev = PyInt(10) /\ d.rmax = PyInt(10) /\ d.lmax = ZERO /\ d.axis = PyInt(2)
        /\ d.ref = ONE
    <3>1. \A k \in DOMAIN x1 : d[k] = x1[k]
      BY <2>1, SpeedsLeftOut
    <3> QED
      BY <2>1, <3>1, SpeedsLeftOut
  <2>3. \A a \in Args(d, alts) : \A k \in SpeedNames : Measured(a[k])
    BY <2>1, SpeedsMeasured
  <2> HIDE DEF x1, y1, d, alts
  <2>4. d \in Args(d, alts)
    BY GoodIsCalled
  <2>5. \A plain, dref, a, async :
             /\ \A k \in SpeedNames : Measured(a[k])
             /\ plain => a = d
             /\ Invoke(plain, dref, move_spiral(glob, a, async))
          => SoundCall
    BY <2>2, SpiralSound
  <2> QED
    BY <2>3, <2>4, <2>5, Zenon DEF Motions, Function, robot_move_spiral, d, alts
<1>2. \A plain, dref, a : \A async \in {0, 1} :
        (plain => a = [amp |-> GoodPose, period |-> ONE, atime |-> None, repeat |-> None, ref |-> ONE])
        /\ Invoke(plain, dref, move_periodic(glob, a, async)) => SoundCall
  BY StillSound, PeriodicStill, PeriodicPasses
<1>3. 0 \in {0, 1} /\ 1 \in {0, 1}
  OBVIOUS
<1> QED
  BY <1>1, <1>2, <1>3, Zenon
  DEF AxisMoveCalls, Motions, Function, robot_move_periodic

\* The streams that take joint speeds by default ...
LEMMA ServojSound ==
  ASSUME Usable(glob), Nameable(glob.coord), NEW plain, NEW dref, NEW a,
         plain => (\A k \in SpeedNames : a[k] = None) /\ a.pos = GoodPose
  PROVE  /\ (plain => a.mode = None /\ a.m = None) /\ Invoke(plain, dref, servoj(glob, a)) => SoundCall
         /\ Invoke(plain, dref, servoj_rt(glob, a)) => SoundCall
<1>1. servoj(glob, a).svc = "servoj_stream" /\ servoj_rt(glob, a).svc = "servoj_rt_stream"
  BY CallForm DEF servoj, servoj_rt, Publish
<1>2. \/ glob.velj = InitialSettings["velj"] \/ glob.accj = InitialSettings["accj"]
      \/ plain => JointReady(glob, a)
  BY DEF JointReady
<1>3. \/ glob.velj = InitialSettings["velj"] \/ glob.accj = InitialSettings["accj"]
      \/ plain => /\ a.mode = None /\ a.m = None => servoj(glob, a).err = "ok"
                  /\ servoj_rt(glob, a).err = "ok"
  BY <1>2, ServojPasses
<1>4. \/ plain => /\ a.mode = None /\ a.m = None => servoj(glob, a).err = "ok"
                  /\ servoj_rt(glob, a).err = "ok"
      \/ Excused("servoj_stream", glob) /\ Excused("servoj_rt_stream", glob)
  <2>1. {"servoj_stream", "servoj_rt_stream"} \subseteq JointMotions
    BY DEF JointMotions
  <2> QED
    BY <1>3, <2>1, ExcusedCases
<1>5. Still(servoj(glob, a)) /\ Still(servoj_rt(glob, a))
  BY StreamStill
<1>6. ASSUME plain => a.mode = None /\ a.m = None, Invoke(plain, dref, servoj(glob, a))
      PROVE  SoundCall
  <2>1. plain => servoj(glob, a).err = "ok" \/ Excused(servoj(glob, a).svc, glob)
    BY <1>1, <1>4, <1>6
  <2> QED
    BY <1>5, <1>6, <2>1, ExcusedSound
<1>7. ASSUME Invoke(plain, dref, servoj_rt(glob, a))
      PROVE  SoundCall
  <2>1. plain => servoj_rt(glob, a).err = "ok" \/ Excused(servoj_rt(glob, a).svc, glob)
    BY <1>1, <1>4
  <2> QED
    BY <1>5, <1>7, <2>1, ExcusedSound
<1> QED
  BY <1>6, <1>7

\* ... and the one that takes task speeds.
LEMMA ServolSound ==
  ASSUME Usable(glob), NEW plain, NEW dref, NEW a, Invoke(plain, dref, servol(glob, a)),
         plain => (\A k \in SpeedNames : a[k] = None) /\ a.pos = GoodPose
  PROVE  SoundCall
<1>1. servol(glob, a).svc = "servol_stream"
  BY CallForm DEF servol, Publish
<1>2. "servol_stream" \in StrictMotions
  BY DEF StrictMotions
<1>3. plain => servol(glob, a).err = "ok" \/ Excused("servol_stream", glob)
  BY <1>2, ServolPasses, ExcusedCases
<1>4. Still(servol(glob, a))
  BY StreamStill
<1> QED
  BY <1>1, <1>3, <1>4, ExcusedSound

\* Streams.
LEMMA StreamCallsSound ==
  ASSUME Usable(glob), Nameable(glob.coord)
  PROVE  StreamCalls => SoundCall
<1> DEFINE d1 == [pos |-> GoodPose, mode |-> None, m |-> None] && SpeedArgs
           d2 == [pos |-> GoodPose] && SpeedArgs
           d3 == [SpeedArgs EXCEPT !.vel = ONE, !.acc = ONE]
           d4 == [SpeedArgs EXCEPT !.time = ONE] && [pos |-> GoodPose]
           d5 == [vel |-> GoodPose, acc |-> GoodPose, time |-> None, t |-> None]
           d6 == [vel |-> GoodPose, acc |-> None, time |-> ONE, t |-> None]
           d7 == [tor |-> GoodPose, time |-> None, t |-> None]
<1>1. (\A k \in SpeedNames : d1[k] = None) /\ d1.pos = GoodPose /\ d1.mode = None /\ d1.m = None
  BY SpeedsLeftOut DEF SpeedNames
<1>2. (\A k \in SpeedNames : d2[k] = None) /\ d2.pos = GoodPose
  BY SpeedsLeftOut DEF SpeedNames
<1>3. d3.vel = ONE /\ d3.acc = ONE /\ d3.v = None /\ d3.a = None /\ d3.time = None /\ d3.t = None
  BY DEF SpeedArgs
<1>4. /\ d4.pos = GoodPose /\ d4.time = ONE /\ d4.t = None
      /\ d4.vel = None /\ d4.v = None /\ d4.acc = None /\ d4.a = None
  BY DEF SpeedArgs, &&
<1>5. /\ d5.vel = GoodPose /\ d5.acc = GoodPose /\ d5.time = None /\ d5.t = None
      /\ d6.vel = GoodPose /\ d6.acc = None /\ d6.time = ONE /\ d6.t = None
      /\ d7.tor = GoodPose /\ d7.time = None /\ d7.t = None
  OBVIOUS
<1>6. [pos |-> GoodPose].pos = GoodPose
  OBVIOUS
<1> HIDE DEF d1, d2, d3, d4, d5, d6, d7
<1>7. \A plain, dref, a : (plain => a = [pos |-> GoodPose])
        /\ Invoke(plain, dref, alter_motion_stream(glob, a)) => SoundCall
  BY <1>6, StillSound, StreamStill, SpeedRtPasses
<1>8. \A plain, dref, a : (plain => a = d1) /\ Invoke(plain, dref, servoj(glob, a)) => SoundCall
  BY <1>1, ServojSound
<1>9. \A plain, dref, a : (plain => a = d2) /\ Invoke(plain, dref, servol(glob, a)) => SoundCall
  BY <1>2, ServolSound
<1>10. \A plain, dref, a : (plain => a = d3) /\ Invoke(plain, dref, speedj(glob, a)) => SoundCall
  BY <1>3, StillSound, StreamStill, SpeedPasses
<1>11. \A plain, dref, a : (plain => a = d3) /\ Invoke(plain, dref, speedl(glob, a)) => SoundCall
  BY <1>3, StillSound, StreamStill, SpeedPasses
<1>12. \A plain, dref, a : (plain => a = d2) /\ Invoke(plain, dref, servoj_rt(glob, a)) => SoundCall
  BY <1>2, ServojSound
<1>13. \A plain, dref, a : (plain => a = d4) /\ Invoke(plain, dref, servol_rt(glob, a)) => SoundCall
  BY <1>4, StillSound, StreamStill, ServolRtPasses
<1>14. \A plain, dref, a : (plain => a = d5) /\ Invoke(plain, dref, speedj_rt(glob, a)) => SoundCall
  BY <1>5, StillSound, StreamStill, SpeedRtPasses
<1>15. \A plain, dref, a : (plain => a = d6) /\ Invoke(plain, dref, speedl_rt(glob, a)) => SoundCall
  BY <1>5, StillSound, StreamStill, SpeedRtPasses
<1>16. \A plain, dref, a : (plain => a = d7) /\ Invoke(plain, dref, torque_rt(glob, a)) => SoundCall
  BY <1>5, StillSound, StreamStill, SpeedRtPasses
<1> QED
  BY <1>7, <1>8, <1>9, <1>10, <1>11, <1>12, <1>13, <1>14, <1>15, <1>16, Zenon
  DEF StreamCalls, Function, d1, d2, d3, d4, d5, d6, d7

\* Every step of the script is a sound call, or one of the steps of a call that
\* is under way.
LEMMA StepsSound ==
  ASSUME Usable(glob), Nameable(glob.coord), Next
  PROVE  \/ SoundCall
         \/ ServicesUp
         \/ ServiceFound
         \/ \E success \in BOOLEAN : Execute(success)
         \/ OthersSetRef
         \/ \E reply \in Replies : Reply(reply)
         \/ Interrupt
         \/ Return
BY ModeCallsSound, CheckCallsSound, StateCallsSound, RefCoordCallsSound, PoseCallsSound,
   KinematicsCallsSound, BasePoseCallsSound, SettingCallsSound, JointMoveCallsSound,
   TaskMoveCallsSound, AxisMoveCallsSound, AlterCallsSound, MotionCallsSound,
   StreamCallsSound, RtConnectCallsSound, RtCallsSound, RtDataCallsSound, FormCallsSound,
   UserCoordCallsSound, ConditionCallsSound, ForceCallsSound, ModbusCallsSound,
   IoCallsSound, DrlCallsSound, ConfigCallsSound, ConstructorsSound
  DEF Next

-----------------------------------------------------------------------------
(* The invariant is kept *)

\* A call that is under way can move; one that was refused has its reason.
MotionInv == MotionMoves /\ DefaultsAccepted

\* While no call is under way and none was refused there is nothing to show.
LEMMA NothingAtHand == ~Underway /\ pc # "raised" => MotionInv
BY DEF MotionInv, MotionMoves, DefaultsAccepted, Underway

\* The same in the next state.
LEMMA NothingLeft == pc' \in {"idle", "lost", "back"} => MotionInv'
BY DEF MotionInv, MotionMoves, DefaultsAccepted, Underway

\* A motion that is sent, or waits for its service, can move.
LEMMA SentMoves ==
  ASSUME NEW plain, NEW dref, NEW o, CanMove(o, plain),
         pc' \in {"waiting", "sent"}, call' = Open(plain, dref, o)
  PROVE  MotionInv'
<1>1. call'.o = o /\ call'.plain = plain
  BY DEF Open
<1>2. MotionMoves'
  BY <1>1 DEF MotionMoves, CanMove
<1>3. DefaultsAccepted'
  BY DEF DefaultsAccepted
<1> QED
  BY <1>2, <1>3 DEF MotionInv

\* A good call that is refused has its reason.
LEMMA RefusedHasReason ==
  ASSUME NEW plain, NEW dref, NEW o, plain /\ ~o.absolute => Excused(o.svc, glob),
         pc' = "raised", call' = Open(plain, dref, o), UNCHANGED glob
  PROVE  MotionInv'
<1>1. call'.o = o /\ call'.plain = plain
  BY DEF Open
<1>2. MotionMoves'
  BY DEF MotionMoves, Underway
<1>3. DefaultsAccepted'
  BY <1>1 DEF DefaultsAccepted, Excused, IsSet
<1> QED
  BY <1>2, <1>3 DEF MotionInv

\* A call, whichever way it goes.
LEMMA SoundCallKeeps ==
  ASSUME SoundCall
  PROVE  MotionInv'
<1>1. PICK plain, dref, o : Invoke(plain, dref, o) /\ Expected(plain, o)
  BY DEF SoundCall
<1>2. pc = "idle"
  BY <1>1 DEF Invoke
<1>3. CASE Raise(plain, dref, o)
  BY <1>1, <1>3, RefusedHasReason DEF Raise, Expected
<1>4. CASE Set(o)
  BY <1>2, <1>4, NothingLeft DEF Set
<1>5. CASE Published(o)
  BY <1>5, NothingLeft DEF Published
<1>6. CASE Send(plain, dref, o)
  BY <1>1, <1>6, SentMoves, NothingLeft DEF Send, Expected
<1> QED
  BY <1>1, <1>3, <1>4, <1>5, <1>6 DEF Invoke

\* The steps of a call that is under way.
LEMMA OtherStepsKeep ==
  ASSUME MotionInv, \/ ServicesUp
                    \/ ServiceFound
                    \/ \E success \in BOOLEAN : Execute(success)
                    \/ OthersSetRef
                    \/ \E reply \in Replies : Reply(reply)
                    \/ Interrupt
                    \/ Return
                    \/ UNCHANGED vars
  PROVE  MotionInv'
<1>1. CASE ServicesUp \/ OthersSetRef \/ UNCHANGED vars
  <2>1. UNCHANGED << pc, call, glob >>
    BY <1>1 DEF ServicesUp, OthersSetRef, vars
  <2>2. MotionMoves'
    BY <2>1 DEF MotionInv, MotionMoves, Underway
  <2>3. DefaultsAccepted'
    BY <2>1 DEF MotionInv, DefaultsAccepted, IsSet
  <2> QED
    BY <2>2, <2>3 DEF MotionInv
<1>2. CASE ServiceFound \/ \E success \in BOOLEAN : Execute(success)
  <2>1. pc \in {"waiting", "sent"} /\ pc' \in {"sent", "done", "denied"} /\ UNCHANGED call
    BY <1>2 DEF ServiceFound, Execute
  <2>2. MotionMoves'
    BY <2>1 DEF MotionInv, MotionMoves, Underway
  <2>3. DefaultsAccepted'
    BY <2>1 DEF DefaultsAccepted
  <2> QED
    BY <2>2, <2>3 DEF MotionInv
<1>3. CASE (\E reply \in Replies : Reply(reply)) \/ Interrupt \/ Return
  <2>1. pc' \in {"back", "idle"}
    BY <1>3 DEF Reply, Interrupt, Return
  <2> QED
    BY <2>1, NothingLeft
<1> QED
  BY <1>1, <1>2, <1>3

\* Together with the settings that stay usable the invariant is inductive.
LEMMA MotionInvariance == Spec => []MotionInv
<1>1. Init => MotionInv
  BY NothingAtHand DEF Init, Underway
<1>2. ScriptInv /\ MotionInv /\ [Next]_vars => MotionInv'
  <2> SUFFICES ASSUME ScriptInv, MotionInv, [Next]_vars
               PROVE  MotionInv'
    OBVIOUS
  <2>1. Usable(glob) /\ Nameable(glob.coord)
    BY DEF ScriptInv, SettingsKept
  <2> QED
    BY <2>1, StepsSound, SoundCallKeeps, OtherStepsKeep
<1> QED
  BY <1>1, <1>2, Invariance, PTL DEF Spec

-----------------------------------------------------------------------------
(* The results *)

\* A motion whose request is under way can move, whatever arguments, defaults
\* and coordinates a script gave: it has a time, or a velocity and an
\* acceleration.  movesj and move_spiral send a velocity of which some item is
\* positive, the task motions one whose first item is; movej and movejx do so
\* where they use the defaults of the module.  moveb alone may send a negative time.
THEOREM MotionsMove == Spec => []MotionMoves
<1>1. MotionInv => MotionMoves
  BY DEF MotionInv
<1> QED
  BY <1>1, MotionInvariance, PTL

\* No good call of any function of the module is refused, for any sequence of
\* calls before it, except a motion whose defaults were not set (for move_spiral
\* and servol, both values of them) and get_current_posx in DR_TOOL.
THEOREM DefaultsAreAccepted == Spec => []DefaultsAccepted
<1>1. MotionInv => DefaultsAccepted
  BY DEF MotionInv
<1> QED
  BY <1>1, MotionInvariance, PTL
=============================================================================
