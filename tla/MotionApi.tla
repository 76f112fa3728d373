----------------------------- MODULE MotionApi -----------------------------
(***************************************************************************)
(* The settings and the motion functions of DSR_ROBOT2.py.  Each operator   *)
(* is one Python function: g is the environment it reads (the default       *)
(* velocities and accelerations, the reference coordinate), a the record of *)
(* its arguments under their Python names, and the result its Outcome.      *)
(***************************************************************************)
EXTENDS DrCommon

DR_MV_MODS == {0, 1}
DR_MV_RAS  == {0, 1}
DR_MVS_VELS == {0, 1}
DR_SOLS    == 0..7
DR_VELX_DT_LEN == 2

InitialSettings ==
  [velj |-> List(Times(6, PyFloat(0))), accj |-> List(Times(6, PyFloat(0))),
   velx |-> List(<< PyFloat(0), PyInt(DR_COND_NONE) >>),
   accx |-> List(<< PyFloat(0), PyInt(DR_COND_NONE) >>),
   coord |-> PyInt(DR_BASE)]

-----------------------------------------------------------------------------
(* The settings *)

NotPositive(n) == n <= 0
Negative(n)    == n < 0

\* Mutant: the loop over the items is missing.
JointSettingFirstOnly(v, scalarErr) ==
  IF IsNum(v) THEN IF v.n <= 0 THEN scalarErr ELSE "ok"
  ELSE IF IsList(POINT_COUNT, v) THEN is_number(v, "TYPE") ELSE "TYPE"

JointSetting(v, scalarErr) ==
  IF IsNum(v) THEN IF v.n <= 0 THEN scalarErr ELSE "ok"
  ELSE IF IsList(POINT_COUNT, v)
       THEN is_number(v, "TYPE") ++ ItemsNot(v.s, NotPositive)
       ELSE "TYPE"

\* Mutant: one number is kept as it is.
SixOfAsGiven(v) == v

SixOf(v) == IF IsNum(v) THEN List(Times(POINT_COUNT, v)) ELSE v

set_velj(g, a) == Settings(JointSetting(a.vel, "TYPE"), g, [g EXCEPT !.velj = SixOf(a.vel)])
set_accj(g, a) == Settings(JointSetting(a.acc, "VALUE"), g, [g EXCEPT !.accj = SixOf(a.acc)])

TaskSetting(v1, v2) ==
     NumberNot(v1, NotPositive)
  ++ NumberNot(v2, LAMBDA n : n # DR_COND_NONE /\ n <= 0)

set_velx(g, a) ==
  Settings(TaskSetting(a.vel1, a.vel2), g, [g EXCEPT !.velx = List(<< a.vel1, a.vel2 >>)])
set_accx(g, a) ==
  Settings(TaskSetting(a.acc1, a.acc2), g, [g EXCEPT !.accx = List(<< a.acc1, a.acc2 >>)])

-----------------------------------------------------------------------------
(* Parameters the motions share *)

Wrong == PyValue("wrong", 0, << >>)

\* vel or v, acc or a of a joint motion: one number stands for six
JointParam(x, y, dflt) ==
  LET temp == get_param(x, y)
  IN  IF temp = None THEN dflt
      ELSE IF IsNum(temp) THEN List(Times(POINT_COUNT, temp))
      ELSE IF IsList(POINT_COUNT, temp) THEN temp ELSE Wrong

\* vel or v, acc or a of a task motion: one number leaves the second one unset
TaskParam(x, y, dflt) ==
  LET temp == get_param(x, y)
  IN  IF temp = None THEN dflt
      ELSE IF IsNum(temp) THEN List(<< temp, PyInt(DR_COND_NONE) >>)
      ELSE IF IsList(DR_VELX_DT_LEN, temp) THEN temp ELSE Wrong

\* move_spiral repeats one number for both
PairParam(x, y, dflt) ==
  LET temp == get_param(x, y)
  IN  IF IsNum(temp) THEN List(<< temp, temp >>) ELSE TaskParam(x, y, dflt)

Speeds(v, Bad(_)) ==
  TypeIf(v = Wrong) ++ is_number(v, "VALUE") ++ ItemsNot(v.s, Bad)

NegativeSet(n) == n < 0 /\ n # DR_COND_NONE

TimeParam(x, y) ==
  LET t == get_param(x, y) IN IF t = None THEN PyFloat(0) ELSE t

\* the blending state is never switched on, so no radius is 0.0
RadiusParam(x, y) == TimeParam(x, y)

TimeOk(t) == NumberNot(t, NegativeSet)

NoTime(t) == t.n \in {0, DR_COND_NONE}

\* Each loop stops at the first item that is not 0.0.
check_valid_vel_acc_joint(vel, acc, time) ==
  LET Moving(v) ==
        LET hits  == {i \in DOMAIN v.s : ~IsNum(v.s[i]) \/ v.s[i].n # 0}
            first == CHOOSE i \in hits : \A j \in hits : i <= j
        IN  IF hits = {} THEN "VALUE" ELSE PyIf(~IsNum(v.s[first]))
  IN  IF NoTime(time) THEN Moving(vel) ++ Moving(acc) ELSE "ok"

\* Mutant: speeds are not looked at.
check_valid_vel_acc_task_time_only(vel, acc, time) == PyIf(~IsNum(time))

check_valid_vel_acc_task(vel, acc, time) ==
  LET Moving(v) == ValueIf(v.s[1].n <= 0) ++ PyIf(~IsNum(v.s[2]))
                   ++ ValueIf(v.s[2].n # DR_COND_NONE /\ v.s[2].n <= 0)
  IN  PyIf(~IsNum(time))
      ++ (IF NoTime(time) THEN Moving(vel) ++ Moving(acc) ELSE "ok")

Coord(ref, dflt) == IF ref = None THEN dflt ELSE ref

RadiusSent(radius, async) ==
  AsFloat64(IF async = 1 THEN PyFloat(0) ELSE ToFloat(radius))

-----------------------------------------------------------------------------
(* The motions; async is 0 in movej ... and 1 in amovej ... *)

movej(g, a, async) ==
  LET vel    == JointParam(a.vel, a.v, g.velj)
      acc    == JointParam(a.acc, a.a, g.accj)
      time   == TimeParam(a.time, a.t)
      radius == RadiusParam(a.radius, a.r)
  IN  CallWaiting(get_posj(a.pos) ++ Speeds(vel, Negative) ++ Speeds(acc, Negative)
         ++ TimeOk(time) ++ check_valid_vel_acc_joint(vel, acc, time)
         ++ NumberNot(radius, Negative) ++ IntIn(a.mod, DR_MV_MODS) ++ IntIn(a.ra, DR_MV_RAS),
      g, "move_joint", "status",
      [pos  |-> AsFloat64s(6, Floats(a.pos)),
       vel  |-> AsFloat64(ToFloat(vel.s[1])), acc |-> AsFloat64(ToFloat(acc.s[1])),
       time |-> AsFloat64(ToFloat(time)), radius |-> RadiusSent(radius, async),
       mode |-> AsInt8(a.mod), blend_type |-> AsInt8(a.ra), sync_type |-> PyInt(async)])

movejx(g, a, async) ==
  LET vel    == JointParam(a.vel, a.v, g.velj)
      acc    == JointParam(a.acc, a.a, g.accj)
      time   == TimeParam(a.time, a.t)
      radius == RadiusParam(a.radius, a.r)
      ref    == Coord(a.ref, g.coord)
  IN  CallWaiting(get_posx(a.pos) ++ Speeds(vel, Negative) ++ Speeds(acc, Negative)
         ++ TimeOk(time) ++ check_valid_vel_acc_joint(vel, acc, time)
         ++ NumberNot(radius, Negative) ++ IntIn(ref, AnyCoord)
         ++ IntIn(a.mod, DR_MV_MODS) ++ IntIn(a.ra, DR_MV_RAS) ++ IntIn(a.sol, DR_SOLS),
      g, "move_jointx", "status",
      [pos  |-> AsFloat64s(6, Floats(a.pos)),
       vel  |-> AsFloat64(ToFloat(vel.s[1])), acc |-> AsFloat64(ToFloat(acc.s[1])),
       time |-> AsFloat64(ToFloat(time)), radius |-> RadiusSent(radius, async),
       ref  |-> AsInt8(ref), mode |-> AsInt8(a.mod), blend_type |-> AsInt8(a.ra),
       sol  |-> AsInt8(a.sol), sync_type |-> PyInt(async)])

movel(g, a, async) ==
  LET vel    == TaskParam(a.vel, a.v, g.velx)
      acc    == TaskParam(a.acc, a.a, g.accx)
      time   == TimeParam(a.time, a.t)
      radius == RadiusParam(a.radius, a.r)
      ref    == Coord(a.ref, g.coord)
  IN  CallWaiting(get_normal_pos(a.pos) ++ Speeds(vel, NegativeSet) ++ Speeds(acc, NegativeSet)
         ++ TimeOk(time) ++ check_valid_vel_acc_task(vel, acc, time)
         ++ NumberNot(radius, Negative) ++ IntIn(ref, AnyCoord)
         ++ IntIn(a.mod, DR_MV_MODS) ++ IntIn(a.ra, DR_MV_RAS),
      g, "move_line", "status",
      [pos  |-> AsFloat64s(6, Floats(a.pos)),
       vel  |-> AsFloat64s(2, Floats(vel)), acc |-> AsFloat64s(2, Floats(acc)),
       time |-> AsFloat64(ToFloat(time)), radius |-> RadiusSent(radius, async),
       ref  |-> AsInt8(ref), mode |-> AsInt8(a.mod), blend_type |-> AsInt8(a.ra),
       sync_type |-> PyInt(async)])

movec(g, a, async) ==
  LET vel    == TaskParam(a.vel, a.v, g.velx)
      acc    == TaskParam(a.acc, a.a, g.accx)
      time   == TimeParam(a.time, a.t)
      radius == RadiusParam(a.radius, a.r)
      ref    == Coord(a.ref, g.coord)
      temp   == get_param(a.angle, a.an)
      angle  == IF temp = None THEN List(<< PyInt(0), PyInt(0) >>)
                ELSE IF IsNum(temp) THEN List(<< temp, PyInt(0) >>)
                ELSE IF IsList(2, temp) THEN temp ELSE Wrong
  IN  CallWaiting(get_normal_pos(a.pos1) ++ get_normal_pos(a.pos2)
         ++ TypeIf(NormalType(a.pos1) # NormalType(a.pos2))
         ++ Speeds(vel, NegativeSet) ++ Speeds(acc, NegativeSet)
         ++ TimeOk(time) ++ check_valid_vel_acc_task(vel, acc, time)
         ++ NumberNot(radius, Negative) ++ IntIn(ref, AnyCoord)
         ++ IntIn(a.mod, DR_MV_MODS) ++ Speeds(angle, Negative) ++ IntIn(a.ra, DR_MV_RAS),
      g, "move_circle", "status",
      [pos  |-> AsArrays(ros_listToFloat64MultiArray(<< a.pos1.s, a.pos2.s >>)),
       vel  |-> AsFloat64s(2, Floats(vel)), acc |-> AsFloat64s(2, Floats(acc)),
       time |-> AsFloat64(ToFloat(time)), radius |-> RadiusSent(radius, async),
       ref  |-> AsInt8(ref), mode |-> AsInt8(a.mod),
       angle1 |-> AsFloat64(ToFloat(angle.s[1])), angle2 |-> AsFloat64(ToFloat(angle.s[2])),
       blend_type |-> AsInt8(a.ra), sync_type |-> PyInt(async)])

\* movesj and movesx bound neither the number of poses, of which pos_cnt holds
\* up to 127, nor what is in them after the first item.
PoseList(v, ty) == TypeIf(v.ty # "list") ++ TypeIf(\E i \in DOMAIN v.s : v.s[i].ty # ty)

PosesSent(v) ==
  AsArrays(ros_listToFloat64MultiArray([i \in DOMAIN v.s |-> v.s[i].s]))

movesj(g, a, async) ==
  LET vel  == JointParam(a.vel, a.v, g.velj)
      acc  == JointParam(a.acc, a.a, g.accj)
      time == TimeParam(a.time, a.t)
  IN  Call(PoseList(a.pos_list, "posj") ++ Speeds(vel, Negative) ++ Speeds(acc, Negative)
         ++ TimeOk(time) ++ check_valid_vel_acc_joint(vel, acc, time) ++ IntIn(a.mod, DR_MV_MODS),
      g, "move_spline_joint", "status",
      [pos  |-> PosesSent(a.pos_list), pos_cnt |-> AsInt8(PyInt(Len(a.pos_list.s))),
       vel  |-> AsFloat64s(6, Floats(vel)), acc |-> AsFloat64s(6, Floats(acc)),
       time |-> AsFloat64(ToFloat(time)), mode |-> AsInt8(a.mod), sync_type |-> PyInt(async)])

movesx(g, a, async) ==
  LET vel  == TaskParam(a.vel, a.v, g.velx)
      acc  == TaskParam(a.acc, a.a, g.accx)
      time == TimeParam(a.time, a.t)
      ref  == Coord(a.ref, g.coord)
  IN  Call(PoseList(a.pos_list, "posx") ++ Speeds(vel, NegativeSet) ++ Speeds(acc, NegativeSet)
         ++ TimeOk(time) ++ check_valid_vel_acc_task(vel, acc, time) ++ IntIn(ref, AnyCoord)
         ++ IntIn(a.mod, DR_MV_MODS) ++ IntIn(a.vel_opt, DR_MVS_VELS),
      g, "move_spline_task", "status",
      [pos  |-> PosesSent(a.pos_list), pos_cnt |-> AsInt8(PyInt(Len(a.pos_list.s))),
       vel  |-> AsFloat64s(2, Floats(vel)), acc |-> AsFloat64s(2, Floats(acc)),
       time |-> AsFloat64(ToFloat(time)), ref |-> AsInt8(ref), mode |-> AsInt8(a.mod),
       opt  |-> AsInt8(a.vel_opt), sync_type |-> PyInt(async)])

\* One segment as it is sent: both poses (a missing one as zeros), the segment
\* type and the radius, in one array.
SegmentSent(seg) ==
  LET l == to_list(seg)
      OrZeros(v) == IF v = None THEN Times(POINT_COUNT, PyFloat(0)) ELSE v.s
  IN  OrZeros(l[2]) \o OrZeros(l[3]) \o << l[1], l[4] >>

\* The time of moveb is not checked.
moveb(g, a, async) ==
  LET vel  == TaskParam(a.vel, a.v, g.velx)
      acc  == TaskParam(a.acc, a.a, g.accx)
      time == TimeParam(a.time, a.t)
      ref  == Coord(a.ref, g.coord)
      segs == a.seg_list.s
  IN  Call(TypeIf(a.seg_list.ty # "list") ++ ValueIf(segs = << >>)
         ++ PyIf(\E i \in DOMAIN segs : segs[i].ty # "posb")
         ++ Speeds(vel, NegativeSet) ++ Speeds(acc, NegativeSet)
         ++ check_valid_vel_acc_task(vel, acc, time) ++ IntIn(ref, AnyCoord)
         ++ IntIn(a.mod, DR_MV_MODS),
      g, "move_blending", "status",
      [segment |-> AsArrays(ros_listToFloat64MultiArray(
                              [i \in DOMAIN segs |-> SegmentSent(segs[i])])),
       pos_cnt |-> AsInt8(PyInt(Len(segs))),
       vel  |-> AsFloat64s(2, Floats(vel)), acc |-> AsFloat64s(2, Floats(acc)),
       time |-> AsFloat64(ToFloat(time)), ref |-> AsInt8(ref), mode |-> AsInt8(a.mod),
       sync_type |-> PyInt(async)])

\* target_pos, mode, spiral_dir and rot_dir of the request keep their defaults.
move_spiral(g, a, async) ==
  LET vel  == PairParam(a.vel, a.v, g.velx)
      acc  == PairParam(a.acc, a.a, g.accx)
      time == TimeParam(a.time, a.t)
  IN  CallWaiting(NumberNot(a.rev, NotPositive) ++ NumberNot(a.rmax, NotPositive)
         ++ Number(a.lmax) ++ Speeds(vel, Negative) ++ Speeds(acc, Negative)
         ++ TimeOk(time) ++ check_valid_vel_acc_joint(vel, acc, time)
         ++ IntIn(a.axis, DR_AXIS_XYZ) ++ IntIn(a.ref, {DR_BASE, DR_TOOL} \cup UserCoords),
      g, "move_spiral", "status",
      [revolution |-> AsFloat64(ToFloat(a.rev)), max_radius |-> AsFloat64(ToFloat(a.rmax)),
       max_length |-> AsFloat64(ToFloat(a.lmax)),
       vel  |-> AsFloat64s(2, Floats(vel)), acc |-> AsFloat64s(2, Floats(acc)),
       time |-> AsFloat64(ToFloat(time)), task_axis |-> AsInt8(a.axis),
       ref  |-> AsInt8(a.ref), sync_type |-> PyInt(async)])

move_periodic(g, a, async) ==
  LET period == SixOf(a.period)
      ref    == Coord(a.ref, PyInt(DR_TOOL))
      OrElse(v, n) == IF v = None THEN PyInt(n) ELSE v
  IN  CallWaiting(TypeIf(a.amp.ty # "list") ++ ValueIf(Len(a.amp.s) # POINT_COUNT)
         ++ TypeIf(~IsNum(a.period) /\ a.period.ty # "list")
         ++ ValueIf(Len(period.s) # POINT_COUNT)
         ++ NumberNot(OrElse(a.atime, 0), Negative) ++ NumberNot(OrElse(a.repeat, 1), Negative)
         ++ IntIn(ref, AnyCoord),
      g, "move_periodic", "status",
      [amp |-> AsFloat64s(6, Floats(a.amp)), periodic |-> AsFloat64s(6, Floats(period)),
       acc |-> AsFloat64(ToFloat(OrElse(a.atime, 0))), repeat |-> AsInt8(ToInt(OrElse(a.repeat, 1))),
       ref |-> AsInt8(ref), sync_type |-> PyInt(async)])

\* The target is not checked: the setter of the request does it.
move_home(g, a) ==
  Call("ok", g, "move_home", "status", [target |-> AsInt8(Coord(a.target, PyInt(0)))])

\* The time is checked and not sent.
move_wait(g, a) == Call(NumberNot(a.time, Negative), g, "move_wait", "status", NoFields)

check_motion(g, a) == Getter(g, "check_motion")

change_operation_speed(g, a) ==
  Call(IntIn(a.speed, 1..100), g, "change_operation_speed", "status", [speed |-> AsInt8(a.speed)])

-----------------------------------------------------------------------------
(* Altering a motion, singularities, jogging *)

\* A negative n is a TYPE error; the type of mode is not checked, and a
\* comparison with something that is no number is Python's TypeError.
enable_alter_motion(g, a) ==
  LET ref == Coord(a.ref, g.coord)
      Limits(v) == IF v = None THEN List(Times(2, PyInt(DR_COND_NONE))) ELSE v
  IN  Call(TypeIf(a.n.ty # "int") ++ TypeIf(a.n.n < 0)
         ++ PyIf(~IsNum(a.mode)) ++ ValueIf(a.mode.n \notin {0, 1})
         ++ IntIn(ref, {DR_BASE, DR_TOOL, DR_WORLD} \cup UserCoords),
      g, "enable_alter_motion", "status",
      [n |-> AsInt32(a.n), mode |-> AsInt8(a.mode), ref |-> AsInt8(ref),
       limit_dpos |-> AsFloat64s(2, Floats(Limits(a.limit_dPOS))),
       limit_dpos_per |-> AsFloat64s(2, Floats(Limits(a.limit_dPOS_per)))])

alter_motion(g, a) ==
  Call(TypeIf(a.dposx.ty = "posx") ++ get_normal_pos(a.dposx), g, "alter_motion", "status",
       [pos |-> AsFloat64s(6, Floats(a.dposx))])

disable_alter_motion(g, a) == Call("ok", g, "disable_alter_motion", "status", NoFields)

set_singular_handling(g, a) ==
  Call(IntIn(a.mode, 0..2), g, "set_singularity_handling", "status", [mode |-> AsInt8(a.mode)])

\* jog_axis may be a float for the checks, not for the request.
jog(g, a) ==
  Call(Number(a.jog_axis) ++ TypeIf(a.ref.ty # "int") ++ Number(a.speed), g, "jog", "status",
       [jog_axis |-> AsInt8(a.jog_axis), move_reference |-> AsInt8(a.ref),
        speed |-> AsFloat64(ToFloat(a.speed))])

jog_multi(g, a) ==
  Call(TypeIf(a.jog_axis_list.ty # "list") ++ TypeIf(a.ref.ty # "int") ++ Number(a.speed),
       g, "jog_multi", "status",
       [jog_axis |-> AsFloat64s(6, Floats(a.jog_axis_list)), move_reference |-> AsInt8(a.ref),
        speed |-> AsFloat64(ToFloat(a.speed))])

get_workpiece_weight(g, a)   == Getter(g, "get_workpiece_weight")
reset_workpiece_weight(g, a) == Call("ok", g, "reset_workpiece_weight", "status", NoFields)
=============================================================================
