----------------------------- MODULE StreamApi -----------------------------
(***************************************************************************)
(* The streamed motions of DSR_ROBOT2.py (servoj ... torque_rt), published  *)
(* on topics, and its realtime services.  Conventions as in MotionApi.      *)
(***************************************************************************)
EXTENDS MotionApi

\* isinstance(x, list) also holds of a posj or a posx
VectorParam(k, x, y, dflt) ==
  LET p == get_param(x, y)
  IN  IF p = None THEN dflt
      ELSE IF IsNum(p) THEN List(Times(k, p))
      ELSE IF IsSeq(p) /\ Len(p.s) = k THEN p ELSE Wrong

Missing == PyValue("missing", 0, << >>)

\* A parameter that has no default: "Missing required argument"
Required(v) == ValueIf(v = Missing) ++ TypeIf(v = Wrong) ++ is_number(v, "VALUE")

NoLimit(k) == List(Times(k, PyInt(DR_COND_NONE)))

\* if not isinstance(v, list) ... if len(v) != 6 ... if not is_number(v)
SixNumbers(v) == TypeIf(~IsSeq(v)) ++ ValueIf(Len(v.s) # 6) ++ is_number(v, "VALUE")

alter_motion_stream(g, a) ==
  Publish(get_posx(a.pos), g, "alter_motion_stream", [pos |-> AsFloat64s(6, Floats(a.pos))])

servoj(g, a) ==
  LET vel  == JointParam(a.vel, a.v, g.velj)
      acc  == JointParam(a.acc, a.a, g.accj)
      time == TimeParam(a.time, a.t)
      m    == get_param(a.mode, a.m)
      mode == IF m = None THEN PyInt(1) ELSE m
  IN  Publish(get_posj(a.pos) ++ Speeds(vel, Negative) ++ Speeds(acc, Negative) ++ TimeOk(time)
         ++ IntIn(mode, {0, 1}) ++ check_valid_vel_acc_joint(vel, acc, time),
      g, "servoj_stream",
      [pos |-> AsFloat64s(6, Floats(a.pos)), vel |-> AsFloat64s(6, Floats(vel)),
       acc |-> AsFloat64s(6, Floats(acc)), time |-> AsFloat64(ToFloat(time)), mode |-> AsInt8(mode)])

\* The default velx holds DR_COND_NONE unless set_velx got two values, and a
\* negative item is refused here.
servol(g, a) ==
  LET vel  == VectorParam(2, a.vel, a.v, g.velx)
      acc  == VectorParam(2, a.acc, a.a, g.accx)
      time == TimeParam(a.time, a.t)
  IN  Publish(get_posx(a.pos) ++ Speeds(vel, Negative) ++ Speeds(acc, Negative) ++ TimeOk(time)
         ++ check_valid_vel_acc_task(vel, acc, time),
      g, "servol_stream",
      [pos |-> AsFloat64s(6, Floats(a.pos)), vel |-> AsFloat64s(2, Floats(vel)),
       acc |-> AsFloat64s(2, Floats(acc)), time |-> AsFloat64(ToFloat(time))])

speedj(g, a) ==
  LET vel  == JointParam(a.vel, a.v, Missing)
      acc  == JointParam(a.acc, a.a, Missing)
      time == TimeParam(a.time, a.t)
  IN  Publish(Required(vel) ++ Required(acc) ++ ItemsNot(acc.s, Negative) ++ TimeOk(time)
         ++ check_valid_vel_acc_joint(vel, acc, time),
      g, "speedj_stream",
      [vel |-> AsFloat64s(6, Floats(vel)), acc |-> AsFloat64s(6, Floats(acc)),
       time |-> AsFloat64(ToFloat(time))])

\* The task check refuses a first velocity that is not positive, so without a
\* time the tool cannot be driven backwards along x.
speedl(g, a) ==
  LET vel  == VectorParam(6, a.vel, a.v, Missing)
      acc  == VectorParam(2, a.acc, a.a, Missing)
      time == TimeParam(a.time, a.t)
  IN  Publish(Required(vel) ++ Required(acc) ++ ItemsNot(acc.s, Negative) ++ TimeOk(time)
         ++ check_valid_vel_acc_task(vel, acc, time),
      g, "speedl_stream",
      [vel |-> AsFloat64s(6, Floats(vel)), acc |-> AsFloat64s(2, Floats(acc)),
       time |-> AsFloat64(ToFloat(time))])

servoj_rt(g, a) ==
  LET vel  == JointParam(a.vel, a.v, g.velj)
      acc  == JointParam(a.acc, a.a, g.accj)
      time == TimeParam(a.time, a.t)
  IN  Publish(get_posj(a.pos) ++ Speeds(vel, Negative) ++ Speeds(acc, Negative) ++ TimeOk(time)
         ++ check_valid_vel_acc_joint(vel, acc, time),
      g, "servoj_rt_stream",
      [pos |-> AsFloat64s(6, Floats(a.pos)), vel |-> AsFloat64s(6, Floats(vel)),
       acc |-> AsFloat64s(6, Floats(acc)), time |-> AsFloat64(ToFloat(time))])

servol_rt(g, a) ==
  LET time == get_param(a.time, a.t)
      vel  == VectorParam(6, a.vel, a.v, NoLimit(6))
      acc  == VectorParam(6, a.acc, a.a, NoLimit(6))
  IN  Publish(get_posx(a.pos) ++ ValueIf(time = None) ++ TimeOk(time)
         ++ TypeIf(vel = Wrong) ++ is_number(vel, "VALUE")
         ++ TypeIf(acc = Wrong) ++ is_number(acc, "VALUE")
         ++ check_valid_vel_acc_task(vel, acc, time),
      g, "servol_rt_stream",
      [pos |-> AsFloat64s(6, Floats(a.pos)), vel |-> AsFloat64s(6, Floats(vel)),
       acc |-> AsFloat64s(6, Floats(acc)), time |-> AsFloat64(ToFloat(time))])

speedj_rt(g, a) ==
  LET time == TimeParam(a.time, a.t)
  IN  Publish(SixNumbers(a.vel) ++ SixNumbers(a.acc) ++ ItemsNot(a.acc.s, Negative)
         ++ TimeOk(time) ++ check_valid_vel_acc_joint(a.vel, a.acc, time),
      g, "speedj_rt_stream",
      [vel |-> AsFloat64s(6, Floats(a.vel)), acc |-> AsFloat64s(6, Floats(a.acc)),
       time |-> AsFloat64(ToFloat(time))])

speedl_rt(g, a) ==
  LET time == TimeParam(a.time, a.t)
      acc  == IF a.acc = None THEN NoLimit(6) ELSE a.acc
  IN  Publish(SixNumbers(a.vel)
         ++ (IF a.acc = None THEN "ok" ELSE SixNumbers(acc) ++ ItemsNot(acc.s, Negative))
         ++ TimeOk(time) ++ check_valid_vel_acc_task(a.vel, acc, time),
      g, "speedl_rt_stream",
      [vel |-> AsFloat64s(6, Floats(a.vel)), acc |-> AsFloat64s(6, Floats(acc)),
       time |-> AsFloat64(ToFloat(time))])

torque_rt(g, a) ==
  LET time == TimeParam(a.time, a.t)
  IN  Publish(SixNumbers(a.tor) ++ TimeOk(time), g, "torque_rt_stream",
      [tor |-> AsFloat64s(6, Floats(a.tor)), time |-> AsFloat64(ToFloat(time))])

-----------------------------------------------------------------------------
(* Realtime services: every one waits for its service, and has assigned its *)
(* return value before the call.                                            *)

IsType(v, ty) == TypeIf(v.ty # ty)

set_safety_mode(g, a) ==
  CallWaiting(IsType(a.safety_mode, "int") ++ IsType(a.safety_event, "int"),
    g, "set_safety_mode", "status",
    [safety_mode |-> AsInt8(a.safety_mode), safety_event |-> AsInt8(a.safety_event)])

\* The defaults are the address and the port of the realtime controller.
connect_rt_control(g, a) ==
  CallWaiting(TypeIf(a.ip_address \notin {None, Str}) ++ TypeIf(a.port.ty \notin {"NoneType", "int"}),
    g, "connect_rt_control", "kept",
    [ip_address |-> Str, port |-> IF a.port = None THEN PyInt(12347) ELSE AsUint32(a.port)])

disconnect_rt_control(g, a) == CallWaiting("ok", g, "disconnect_rt_control", "kept", NoFields)
start_rt_control(g, a)      == CallWaiting("ok", g, "start_rt_control", "kept", NoFields)
stop_rt_control(g, a)       == CallWaiting("ok", g, "stop_rt_control", "kept", NoFields)

get_rt_control_output_version_list(g, a) ==
  CallWaiting("ok", g, "get_rt_control_output_version_list", "read", NoFields)
get_rt_control_input_version_list(g, a) ==
  CallWaiting("ok", g, "get_rt_control_input_version_list", "read", NoFields)
get_rt_control_input_data_list(g, a) ==
  CallWaiting(IsType(a.version, "str"), g, "get_rt_control_input_data_list", "read",
              [version |-> AsString(a.version)])
get_rt_control_output_data_list(g, a) ==
  CallWaiting(IsType(a.version, "str"), g, "get_rt_control_output_data_list", "read",
              [version |-> AsString(a.version)])
read_data_rt(g, a) == CallWaiting("ok", g, "read_data_rt", "read", NoFields)

RtControl(g, a, svc) ==
  CallWaiting(IsType(a.version, "str") ++ IsType(a.period, "float") ++ IsType(a.loss, "int"),
    g, svc, "kept",
    [version |-> AsString(a.version), period |-> AsFloat64(a.period), loss |-> AsInt32(a.loss)])

set_rt_control_input(g, a)  == RtControl(g, a, "set_rt_control_input")
set_rt_control_output(g, a) == RtControl(g, a, "set_rt_control_output")

\* The six items are not converted: an int among them is refused by the field.
set_velj_rt(g, a) ==
  CallWaiting(TypeIf(~IsList(6, a.vel)), g, "set_velj_rt", "kept", [vel |-> AsFloat64s(6, a.vel)])
set_accj_rt(g, a) ==
  CallWaiting(TypeIf(~IsList(6, a.acc)), g, "set_accj_rt", "kept", [acc |-> AsFloat64s(6, a.acc)])

set_velx_rt(g, a) ==
  CallWaiting(IsType(a.trans, "float") ++ IsType(a.rotation, "float"), g, "set_velx_rt", "kept",
    [trans |-> AsFloat64(a.trans), rotation |-> AsFloat64(a.rotation)])
set_accx_rt(g, a) ==
  CallWaiting(IsType(a.trans, "float") ++ IsType(a.rotation, "float"), g, "set_accx_rt", "kept",
    [trans |-> AsFloat64(a.trans), rotation |-> AsFloat64(a.rotation)])

write_data_rt(g, a) ==
  CallWaiting(TypeIf(~IsList(6, a.external_force_torque))
      ++ IsType(a.external_digital_input, "int") ++ IsType(a.external_digital_output, "int")
      ++ TypeIf(~IsList(6, a.external_analog_input)) ++ TypeIf(~IsList(6, a.external_analog_output)),
    g, "write_data_rt", "kept",
    [external_force_torque   |-> AsFloat64s(6, a.external_force_torque),
     external_digital_input  |-> AsInt32(a.external_digital_input),
     external_digital_output |-> AsInt32(a.external_digital_output),
     external_analog_input   |-> AsFloat64s(6, a.external_analog_input),
     external_analog_output  |-> AsFloat64s(6, a.external_analog_output)])
=============================================================================
