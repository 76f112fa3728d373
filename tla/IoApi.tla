------------------------------- MODULE IoApi -------------------------------
(***************************************************************************)
(* The rest of DSR_ROBOT2.py: robot modes and states, inputs and outputs,   *)
(* Modbus, tool and TCP configuration, DRL scripts.  The two functions that *)
(* write analog outputs keep a memory of their own and are in AnalogIo.     *)
(* Conventions as in MotionApi.                                             *)
(***************************************************************************)
EXTENDS MotionApi

DR_DIO_INDEX  == 1..16
DR_TDIO_INDEX == 1..6
OFF == 0
ON  == 1
DR_ANALOG_MODES == {0, 1}
\* DR_MODBUS_DIG_INPUT, DIG_OUTPUT, REG_INPUT, REG_OUTPUT
DR_MODBUS_TYPES   == 0..3
DR_MODBUS_OUTPUTS == {1, 3}
UINT16 == 0..65535

IsInt(v) == TypeIf(v.ty # "int")
IsStr(v) == TypeIf(v.ty # "str")

Command(g, err, svc, req) == Call(err, g, svc, "status", req)
Reading(g, err, svc, req) == Call(err, g, svc, "value", req)

-----------------------------------------------------------------------------
(* Modes and states *)

set_robot_mode(g, a) ==
  CallWaiting(IsInt(a.robot_mode), g, "set_robot_mode", "status",
              [robot_mode |-> AsInt8(a.robot_mode)])
set_robot_system(g, a) ==
  Command(g, IsInt(a.robot_system), "set_robot_system", [robot_system |-> AsInt8(a.robot_system)])
set_robot_speed_mode(g, a) ==
  Command(g, IsInt(a.speed_mode), "set_robot_speed_mode", [speed_mode |-> AsInt8(a.speed_mode)])
set_safe_stop_reset_type(g, a) ==
  Command(g, IsInt(a.reset_type), "set_safe_stop_reset_type", [reset_type |-> AsInt8(a.reset_type)])
get_current_pose(g, a) ==
  Reading(g, IsInt(a.space_type), "get_current_pose", [space_type |-> AsInt8(a.space_type)])

get_robot_mode(g, a)       == Getter(g, "get_robot_mode")
get_robot_system(g, a)     == Getter(g, "get_robot_system")
get_robot_state(g, a)      == Getter(g, "get_robot_state")
get_robot_speed_mode(g, a) == Getter(g, "get_robot_speed_mode")
get_last_alarm(g, a)       == Getter(g, "get_last_alarm")
get_control_mode(g, a)     == Getter(g, "get_control_mode")
get_control_space(g, a)    == Getter(g, "get_control_space")
get_current_posj(g, a)     == Getter(g, "get_current_posj")
get_current_velj(g, a)     == Getter(g, "get_current_velj")
get_desired_posj(g, a)     == Getter(g, "get_desired_posj")
get_desired_velj(g, a)     == Getter(g, "get_desired_velj")
get_joint_torque(g, a)     == Getter(g, "get_joint_torque")
get_external_torque(g, a)  == Getter(g, "get_external_torque")

-----------------------------------------------------------------------------
(* Inputs and outputs *)

ReadPort(g, index, S, svc) == Reading(g, IntIn(index, S), svc, [index |-> AsInt8(index)])

get_digital_input(g, a)       == ReadPort(g, a.index, DR_DIO_INDEX, "get_ctrl_box_digital_input")
get_digital_output(g, a)      == ReadPort(g, a.index, DR_DIO_INDEX, "get_ctrl_box_digital_output")
get_tool_digital_input(g, a)  == ReadPort(g, a.index, DR_TDIO_INDEX, "get_tool_digital_input")
get_tool_digital_output(g, a) == ReadPort(g, a.index, DR_TDIO_INDEX, "get_tool_digital_output")

get_analog_input(g, a) ==
  Reading(g, IntIn(a.ch, 1..2), "get_ctrl_box_analog_input", [channel |-> AsInt8(a.ch)])

\* Without a value the sign of the index says ON or OFF.
WritePort(g, index, val, S, svc) ==
  LET simple == val = None
      port   == IF simple /\ index.n < 0 THEN PyInt(-index.n) ELSE index
      value  == IF simple THEN PyInt(IF index.n < 0 THEN OFF ELSE ON) ELSE val
  IN  Command(g, IsInt(index) ++ IsInt(value) ++ ValueIf(port.n \notin S)
                 ++ ValueIf(value.n \notin {ON, OFF}),
              svc, [index |-> AsInt8(port), value |-> AsInt8(value)])

set_digital_output(g, a) ==
  WritePort(g, a.index, a.val, DR_DIO_INDEX, "set_ctrl_box_digital_output")
set_tool_digital_output(g, a) ==
  WritePort(g, a.index, a.val, DR_TDIO_INDEX, "set_tool_digital_output")

set_mode_analog_input(g, a) ==
  Command(g, IsInt(a.ch) ++ IsInt(a.mod) ++ IntIn(a.ch, 1..2) ++ IntIn(a.mod, DR_ANALOG_MODES),
    "set_ctrl_box_analog_input_type", [channel |-> AsInt8(a.ch), mode |-> AsInt8(a.mod)])

\* index and value are accepted up to 65535 and sent as int8
add_modbus_signal(g, a) ==
  Command(g, IsStr(a.ip) ++ IntIn(a.port, UINT16 \ {0}) ++ IsStr(a.name)
             ++ IntIn(a.reg_type, DR_MODBUS_TYPES) ++ IntIn(a.index, UINT16)
             ++ IntIn(a.value, UINT16) ++ IntIn(a.slaveid, (0..247) \cup {255}),
    "config_create_modbus",
    [name |-> AsString(a.name), ip |-> AsString(a.ip), port |-> AsInt32(a.port),
     reg_type |-> AsInt8(a.reg_type), index |-> AsInt8(a.index),
     value |-> IF a.reg_type.n \in DR_MODBUS_OUTPUTS THEN AsInt8(a.value) ELSE PyInt(0),
     slave_id |-> AsInt32(a.slaveid)])

NamedCommand(g, name, svc) == Command(g, IsStr(name), svc, [name |-> AsString(name)])

del_modbus_signal(g, a) == NamedCommand(g, a.name, "config_delete_modbus")
set_modbus_output(g, a) ==
  Command(g, IsStr(a.iobus) ++ IsInt(a.val), "set_modbus_output",
          [name |-> AsString(a.iobus), value |-> AsInt32(a.val)])
get_modbus_input(g, a) ==
  Reading(g, IsStr(a.iobus), "get_modbus_input", [name |-> AsString(a.iobus)])

-----------------------------------------------------------------------------
(* Tool, TCP and DRL *)

set_tcp(g, a)        == NamedCommand(g, a.name, "set_current_tcp")
get_tcp(g, a)        == Getter(g, "get_current_tcp")
set_tool(g, a)       == NamedCommand(g, a.name, "set_current_tool")
get_tool(g, a)       == Getter(g, "get_current_tool")
set_tool_shape(g, a) == NamedCommand(g, a.name, "set_tool_shape")
del_tcp(g, a)        == NamedCommand(g, a.name, "config_delete_tcp")
del_tool(g, a)       == NamedCommand(g, a.name, "config_delete_tool")

\* Only the name is checked: the conversions and the fields do the rest.
add_tcp(g, a) ==
  Command(g, IsStr(a.name), "config_create_tcp",
          [name |-> AsString(a.name), pos |-> AsFloat64s(6, Floats(a.pos))])
add_tool(g, a) ==
  Command(g, IsStr(a.name), "config_create_tool",
          [name |-> AsString(a.name), weight |-> AsFloat64(ToFloat(a.weight)),
           cog |-> AsFloat64s(3, Floats(a.cog)), inertia |-> AsFloat64s(6, Floats(a.inertia))])

drl_script_run(g, a) ==
  Command(g, IsStr(a.code), "drl_start",
          [robot_system |-> AsInt8(a.robotSystem), code |-> AsString(a.code)])
drl_script_stop(g, a) ==
  Command(g, IsInt(a.stop_mode), "drl_stop", [stop_mode |-> AsInt8(a.stop_mode)])
drl_script_pause(g, a)  == Command(g, "ok", "drl_pause", NoFields)
drl_script_resume(g, a) == Command(g, "ok", "drl_resume", NoFields)
get_drl_state(g, a)     == Getter(g, "get_drl_state")
=============================================================================
