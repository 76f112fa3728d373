----------------------------- MODULE CDsrRobot -----------------------------
(***************************************************************************)
(* The robot objects of DSR_ROBOT2.py.  A method has the text of the module *)
(* function of its name, except that it fills a request the object keeps,   *)
(* never waits for the service, and calls it by a name that starts with a   *)
(* slash, outside the namespace of the node; the I/O names lack the slash.  *)
(* The object's robot_id and robot_model reach none of these names.         *)
(*                                                                          *)
(* movejx, movel ... move_periodic, mwait and set_singularity_handling call *)
(* the module functions, so the methods _movejx ... _move_wait are dead     *)
(* code.  An object has no setters: its velocities stay what __init__ made  *)
(* them.  set_ref_coord and every default coordinate use the module's       *)
(* variable, shared by all objects.                                         *)
(***************************************************************************)
EXTENDS StreamApi, CoordApi, IoApi

IoMethod(o) == [o EXCEPT !.waits = FALSE]
Method(o)   == [o EXCEPT !.waits = FALSE, !.absolute = TRUE]

\* self._g_velj, self._g_accj
RobotSettings(g) == [InitialSettings EXCEPT !.coord = g.coord]

-----------------------------------------------------------------------------
(* Motions: one goes through the object, the others through the module *)

robot_movej(g, a, async) == [Method(movej(RobotSettings(g), a, async)) EXCEPT !.g = g]

robot_movejx(g, a, async)        == movejx(g, a, async)
robot_movel(g, a, async)         == movel(g, a, async)
robot_movec(g, a, async)         == movec(g, a, async)
robot_movesj(g, a, async)        == movesj(g, a, async)
robot_movesx(g, a, async)        == movesx(g, a, async)
robot_moveb(g, a, async)         == moveb(g, a, async)
robot_move_spiral(g, a, async)   == move_spiral(g, a, async)
robot_move_periodic(g, a, async) == move_periodic(g, a, async)
robot_mwait(g, a)                == move_wait(g, a)
robot_set_singularity_handling(g, a) == set_singular_handling(g, a)

\* The answer is evaluated into ret, and 0 returned.
robot_move_home(g, a) ==
  LET o == Method(move_home(g, a))
  IN  IF o.err = "ok" THEN [o EXCEPT !.answer = "ignored"] ELSE o

-----------------------------------------------------------------------------
(* Methods that differ from their function *)

\* DR_TOOL is refused, and nothing is assigned before the call.
robot_get_tool_force(g, a) ==
  LET ref == Coord(a.ref, PyInt(DR_BASE))
  IN  Method(PoseIn(g, ref, EqualsOneOf(ref, BaseOrWorld), "get_tool_force", "value"))

robot_check_force_condition(g, a) ==
  LET NegativeLimit(v) == ValueIf(NegativeSet(v.n))
  IN  Method(check_force_condition_limits(g, a, NegativeLimit(a.min) ++ NegativeLimit(a.max)))

\* The request for angles is an attribute that does not exist.
robot_check_orientation_condition(g, a) ==
  LET o == Method(check_orientation_condition(g, a))
  IN  IF o.err = "ok" /\ ~OrientationByPose(a) THEN Method(Raised("PY", g)) ELSE o

-----------------------------------------------------------------------------
(* Robot modes, states and poses *)

robot_set_robot_mode(g, a) == Method(set_robot_mode(g, a))
robot_get_robot_mode(g, a) == Method(get_robot_mode(g, a))
robot_set_robot_system(g, a) == Method(set_robot_system(g, a))
robot_get_robot_system(g, a) == Method(get_robot_system(g, a))
robot_get_robot_state(g, a) == Method(get_robot_state(g, a))
robot_set_robot_speed_mode(g, a) == Method(set_robot_speed_mode(g, a))
robot_get_robot_speed_mode(g, a) == Method(get_robot_speed_mode(g, a))
robot_set_safe_stop_reset_type(g, a) == Method(set_safe_stop_reset_type(g, a))
robot_get_current_pose(g, a) == Method(get_current_pose(g, a))
robot_get_last_alarm(g, a) == Method(get_last_alarm(g, a))
robot_get_control_mode(g, a) == Method(get_control_mode(g, a))
robot_get_control_space(g, a) == Method(get_control_space(g, a))
robot_get_current_posj(g, a) == Method(get_current_posj(g, a))
robot_get_current_velj(g, a) == Method(get_current_velj(g, a))
robot_get_desired_posj(g, a) == Method(get_desired_posj(g, a))
robot_get_desired_velj(g, a) == Method(get_desired_velj(g, a))
robot_get_current_posx(g, a) == Method(get_current_posx(g, a))
robot_get_current_tool_flange_posx(g, a) == Method(get_current_tool_flange_posx(g, a))
robot_get_current_velx(g, a) == Method(get_current_velx(g, a))
robot_get_desired_posx(g, a) == Method(get_desired_posx(g, a))
robot_get_desired_velx(g, a) == Method(get_desired_velx(g, a))
robot_get_current_solution_space(g, a) == Method(get_current_solution_space(g, a))
robot_get_current_rotm(g, a) == Method(get_current_rotm(g, a))
robot_get_joint_torque(g, a) == Method(get_joint_torque(g, a))
robot_get_external_torque(g, a) == Method(get_external_torque(g, a))
robot_get_solution_space(g, a) == Method(get_solution_space(g, a))
robot_get_orientation_error(g, a) == Method(get_orientation_error(g, a))
robot_trans(g, a) == Method(trans(g, a))
robot_fkin(g, a) == Method(fkin(g, a))
robot_ikin(g, a) == Method(ikin(g, a))

-----------------------------------------------------------------------------
(* Coordinate, motion and force *)

\* Mutant: the object keeps the coordinate to itself.
robot_set_ref_coord_own(g, a) == [Method(set_ref_coord(g, a)) EXCEPT !.g = g]

robot_set_ref_coord(g, a) == Method(set_ref_coord(g, a))
robot_check_motion(g, a) == Method(check_motion(g, a))
robot_change_operation_speed(g, a) == Method(change_operation_speed(g, a))
robot_enable_alter_motion(g, a) == Method(enable_alter_motion(g, a))
robot_alter_motion(g, a) == Method(alter_motion(g, a))
robot_disable_alter_motion(g, a) == Method(disable_alter_motion(g, a))
robot_set_singular_handling(g, a) == Method(set_singular_handling(g, a))
robot_jog(g, a) == Method(jog(g, a))
robot_jog_multi(g, a) == Method(jog_multi(g, a))
robot_get_workpiece_weight(g, a) == Method(get_workpiece_weight(g, a))
robot_reset_workpiece_weight(g, a) == Method(reset_workpiece_weight(g, a))
robot_parallel_axis(g, a) == Method(parallel_axis(g, a))
robot_align_axis(g, a) == Method(align_axis(g, a))
robot_is_done_bolt_tightening(g, a) == Method(is_done_bolt_tightening(g, a))
robot_release_compliance_ctrl(g, a) == Method(release_compliance_ctrl(g, a))
robot_task_compliance_ctrl(g, a) == Method(task_compliance_ctrl(g, a))
robot_set_stiffnessx(g, a) == Method(set_stiffnessx(g, a))
robot_calc_coord(g, a) == Method(calc_coord(g, a))
robot_set_user_cart_coord(g, a) == Method(set_user_cart_coord(g, a))
robot_overwrite_user_cart_coord(g, a) == Method(overwrite_user_cart_coord(g, a))
robot_get_user_cart_coord(g, a) == Method(get_user_cart_coord(g, a))
robot_set_desired_force(g, a) == Method(set_desired_force(g, a))
robot_release_force(g, a) == Method(release_force(g, a))
robot_check_position_condition(g, a) == Method(check_position_condition(g, a))
robot_coord_transform(g, a) == Method(coord_transform(g, a))

-----------------------------------------------------------------------------
(* Modbus, tool, TCP and DRL *)

robot_add_modbus_signal(g, a) == Method(add_modbus_signal(g, a))
robot_del_modbus_signal(g, a) == Method(del_modbus_signal(g, a))
robot_set_modbus_output(g, a) == Method(set_modbus_output(g, a))
robot_get_modbus_input(g, a) == Method(get_modbus_input(g, a))
robot_set_tcp(g, a) == Method(set_tcp(g, a))
robot_get_tcp(g, a) == Method(get_tcp(g, a))
robot_set_tool(g, a) == Method(set_tool(g, a))
robot_get_tool(g, a) == Method(get_tool(g, a))
robot_set_tool_shape(g, a) == Method(set_tool_shape(g, a))
robot_add_tcp(g, a) == Method(add_tcp(g, a))
robot_del_tcp(g, a) == Method(del_tcp(g, a))
robot_add_tool(g, a) == Method(add_tool(g, a))
robot_del_tool(g, a) == Method(del_tool(g, a))
robot_drl_script_run(g, a) == Method(drl_script_run(g, a))
robot_drl_script_stop(g, a) == Method(drl_script_stop(g, a))
robot_drl_script_pause(g, a) == Method(drl_script_pause(g, a))
robot_drl_script_resume(g, a) == Method(drl_script_resume(g, a))
robot_get_drl_state(g, a) == Method(get_drl_state(g, a))

-----------------------------------------------------------------------------
(* Inputs and outputs *)

robot_get_digital_input(g, a) == IoMethod(get_digital_input(g, a))
robot_get_analog_input(g, a) == IoMethod(get_analog_input(g, a))
robot_get_tool_digital_input(g, a) == IoMethod(get_tool_digital_input(g, a))
robot_set_digital_output(g, a) == IoMethod(set_digital_output(g, a))
robot_get_digital_output(g, a) == IoMethod(get_digital_output(g, a))
robot_set_mode_analog_input(g, a) == IoMethod(set_mode_analog_input(g, a))
robot_set_tool_digital_output(g, a) == IoMethod(set_tool_digital_output(g, a))
robot_get_tool_digital_output(g, a) == IoMethod(get_tool_digital_output(g, a))
=============================================================================
