-------------------------- MODULE RobotScriptProofs --------------------------
(***************************************************************************)
(* A script that uses DSR_ROBOT2.py, for every argument it may give: the    *)
(* defaults it keeps stay usable, and a default coordinate is the one that  *)
(* set_ref_coord has reported.                                              *)
(*                                                                          *)
(* The argument has two halves.  The first looks at the functions: each is  *)
(* neutral (it leaves the settings alone, does not call set_ref_coord, and  *)
(* what it sends for a coordinate that was not given is _g_coord), or it is *)
(* one of the five that set something.  The second looks at the script: an  *)
(* invariant of its calls that knows of a function only which of these it   *)
(* is.                                                                      *)
(***************************************************************************)
EXTENDS RobotScript, TLAPS

Fields == {"err", "svc", "req", "g", "answer", "waits", "absolute"}

\* How a return value is made when a service was called; see DrCommon
Answers == {"status", "value", "kept", "read", "pair", "zero", "ignored", "stream"}

\* A force condition on a rotation axis, which is asked in DR_TOOL
AsksInTool(o) ==
  /\ o.svc = "check_force_condition"
  /\ o.req.axis.n \in DR_AXIS_ABC
  /\ o.req.ref = PyInt(DR_TOOL)

\* o is what a call comes to that sets nothing; dflt says that the coordinate
\* was not given.
Neutral(o, g, dflt) ==
  /\ DOMAIN o = Fields
  /\ o.g = g
  /\ o.svc # "set_ref_coord"
  /\ o.err = "ok" /\ o.svc # "" => o.answer \in Answers
  /\ o.err = "ok" /\ dflt /\ "ref" \in DOMAIN o.req /\ o.svc \notin FixedDefault
       => o.req.ref = g.coord \/ AsksInTool(o)

\* A coordinate that set_ref_coord keeps: one it names and that fits an int8
Nameable(c) == \E n \in NamedCoords : n \in -128..127 /\ c = PyInt(n)

\* h is g but for the coordinate.
Recoords(h, g) ==
  /\ DOMAIN h = DOMAIN g
  /\ Nameable(h.coord)
  /\ \A k \in DOMAIN g \ {"coord"} : h[k] = g[k]

\* o is what set_ref_coord comes to: it keeps the coordinate it sends.
SetsCoord(o, g) ==
  /\ DOMAIN o = Fields
  /\ o.svc = "set_ref_coord"
  /\ "ref" \notin DOMAIN o.req
  /\ o.err = "ok" => /\ Recoords(o.g, g)
                     /\ o.req.coord = o.g.coord
                     /\ o.answer = "status"

\* A usable default, as SettingsUsable has it, with integers for its numbers
Above(v) == IsNum(v) /\ v.n \in Int /\ v.n > 0
JointUsable(v) ==
  /\ IsList(6, v) /\ DOMAIN v.s = 1..6
  /\ \A i \in 1..6 : Above(v.s[i])
TaskUsable(v) ==
  /\ IsList(2, v) /\ DOMAIN v.s = 1..2
  /\ Above(v.s[1])
  /\ Above(v.s[2]) \/ v.s[2] = PyInt(DR_COND_NONE)

\* The settings h have only usable defaults, or the initial ones.
Usable(h) ==
  /\ \A k \in {"velj", "accj"} : h[k] = InitialSettings[k] \/ JointUsable(h[k])
  /\ \A k \in {"velx", "accx"} : h[k] = InitialSettings[k] \/ TaskUsable(h[k])

\* o is what set_velj ... set_accx come to: no request, and one setting that is
\* usable.
SetsSpeed(o, g) ==
  /\ DOMAIN o = Fields
  /\ o.svc = ""
  /\ o.err = "ok" =>
       /\ DOMAIN o.g = DOMAIN g
       /\ o.g.coord = g.coord
       /\ \A k \in {"velj", "accj"} : o.g[k] = g[k] \/ JointUsable(o.g[k])
       /\ \A k \in {"velx", "accx"} : o.g[k] = g[k] \/ TaskUsable(o.g[k])

-----------------------------------------------------------------------------
(* The invariant *)

\* The defaults and the coordinate the module keeps
SettingsKept == Usable(glob) /\ Nameable(glob.coord)

\* While a call is under way the settings are as it found them, and what it is
\* about to assign is at most another coordinate.
CallKnown ==
  /\ Underway \/ pc = "lost" => Recoords(call.o.g, glob)
  /\ Underway => /\ up
                 /\ call.o.err = "ok" /\ call.o.svc # ""
                 /\ Neutral(call.o, glob, call.dref) \/ SetsCoord(call.o, glob)

\* A coordinate the script was told of is the controller's, but while the answer to
\* the next set_ref_coord is on its way: the controller then has the new one.
Taken == pc = "done" /\ SetsRef
CoordShared ==
  /\ told /\ ~Taken => glob.coord = ctl
  /\ Taken /\ ctl # Foreign => ctl = call.o.req.coord

ScriptInv ==
  /\ TypeOK
  /\ SettingsKept
  /\ CoordShared
  /\ CallKnown

-----------------------------------------------------------------------------
(* What calls come to *)

\* A call names its settings and its service whatever became of its checks; a
\* request that leaves fits its fields.
LEMMA CallForm ==
  ASSUME NEW err, NEW g, NEW svc, NEW answer, NEW req
  PROVE  LET o == Call(err, g, svc, answer, req)
         IN  /\ DOMAIN o = Fields
             /\ o.g = g /\ o.svc = svc
             /\ o.err = "ok" => /\ err = "ok"
                                /\ o.req = req /\ o.answer = answer
                                /\ \A f \in DOMAIN req : req[f] # Misfit
             /\ o.err # "ok" => o.req = NoFields
BY DEF Call, Outcome, Fields, PyIf

\* Waiting for the service first does not make a call less neutral.
LEMMA WaitingNeutral ==
  ASSUME NEW o, NEW g, NEW dflt, Neutral(o, g, dflt)
  PROVE  Neutral([o EXCEPT !.waits = TRUE], g, dflt)
BY DEF Neutral, Fields, AsksInTool

\* A call whose request has no coordinate is neutral.
LEMMA CallWithoutRef ==
  ASSUME NEW err, NEW g, NEW svc, NEW answer \in Answers, NEW req,
         svc # "set_ref_coord", "ref" \notin DOMAIN req
  PROVE  /\ Neutral(Call(err, g, svc, answer, req), g, TRUE)
         /\ Neutral(CallWaiting(err, g, svc, answer, req), g, TRUE)
<1> DEFINE o == Call(err, g, svc, answer, req)
<1>1. DOMAIN o = Fields /\ o.g = g /\ o.svc = svc
  BY CallForm
<1>2. o.err = "ok" => o.answer \in Answers
  BY CallForm
<1>3. svc # "set_ref_coord" /\ (o.err = "ok" => "ref" \notin DOMAIN o.req)
  BY CallForm
<1> HIDE DEF o
<1>4. Neutral(o, g, TRUE)
  BY <1>1, <1>2, <1>3 DEF Neutral
<1> QED
  BY <1>4, WaitingNeutral DEF o, CallWaiting

\* So is one of the functions that have a default coordinate of their own.
LEMMA CallFixed ==
  ASSUME NEW err, NEW g, NEW svc, NEW answer \in Answers, NEW req, svc \in FixedDefault
  PROVE  /\ Neutral(Call(err, g, svc, answer, req), g, TRUE)
         /\ Neutral(CallWaiting(err, g, svc, answer, req), g, TRUE)
<1> DEFINE o == Call(err, g, svc, answer, req)
<1>1. DOMAIN o = Fields /\ o.g = g /\ o.svc = svc
  BY CallForm
<1>2. o.err = "ok" => o.answer \in Answers
  BY CallForm
<1>3. svc # "set_ref_coord" /\ svc \in FixedDefault
  BY DEF FixedDefault
<1> HIDE DEF o
<1>4. Neutral(o, g, TRUE)
  BY <1>1, <1>2, <1>3 DEF Neutral
<1> QED
  BY <1>4, WaitingNeutral DEF o, CallWaiting

\* So is one that sends _g_coord for a coordinate that was not given.
LEMMA CallWithRef ==
  ASSUME NEW err, NEW g, NEW svc, NEW answer \in Answers, NEW req,
         NEW ref, svc # "set_ref_coord", req.ref = AsInt8(Coord(ref, g.coord)), "ref" \in DOMAIN req
  PROVE  /\ Neutral(Call(err, g, svc, answer, req), g, ref = None)
         /\ Neutral(CallWaiting(err, g, svc, answer, req), g, ref = None)
<1> DEFINE o == Call(err, g, svc, answer, req)
<1>1. DOMAIN o = Fields /\ o.g = g /\ o.svc = svc
  BY CallForm
<1>2. o.err = "ok" => o.answer \in Answers
  BY CallForm
<1>3. svc # "set_ref_coord" /\ (o.err = "ok" /\ ref = None => o.req.ref = g.coord)
  BY CallForm DEF AsInt8, Fits, Coord
<1> HIDE DEF o
<1>4. Neutral(o, g, ref = None)
  BY <1>1, <1>2, <1>3 DEF Neutral
<1> QED
  BY <1>4, WaitingNeutral DEF o, CallWaiting

\* So is one that always sends _g_coord.
LEMMA CallInCoord ==
  ASSUME NEW err, NEW g, NEW svc, NEW answer \in Answers, NEW req,
         svc # "set_ref_coord", req.ref = AsInt8(g.coord), "ref" \in DOMAIN req
  PROVE  Neutral(Call(err, g, svc, answer, req), g, TRUE)
<1> DEFINE o == Call(err, g, svc, answer, req)
<1>1. DOMAIN o = Fields /\ o.g = g /\ o.svc = svc
  BY CallForm
<1>2. o.err = "ok" => o.answer \in Answers
  BY CallForm
<1>3. svc # "set_ref_coord" /\ (o.err = "ok" => o.req.ref = g.coord)
  BY CallForm DEF AsInt8, Fits
<1> HIDE DEF o
<1>4. Neutral(o, g, TRUE)
  BY <1>1, <1>2, <1>3 DEF Neutral
<1> QED
  BY <1>4 DEF o

\* Where the coordinate is not left to its default only the service matters.
LEMMA CallGiven ==
  ASSUME NEW err, NEW g, NEW svc, NEW answer \in Answers, NEW req, svc # "set_ref_coord"
  PROVE  Neutral(Call(err, g, svc, answer, req), g, FALSE)
<1> DEFINE o == Call(err, g, svc, answer, req)
<1>1. DOMAIN o = Fields /\ o.g = g /\ o.svc = svc
  BY CallForm
<1>2. o.err = "ok" => o.answer \in Answers
  BY CallForm
<1>3. svc # "set_ref_coord"
  BY CallForm
<1> HIDE DEF o
<1>4. Neutral(o, g, FALSE)
  BY <1>1, <1>2, <1>3 DEF Neutral
<1> QED
  BY <1>4 DEF o

\* A request without fields has no coordinate.
LEMMA NoFieldsEmpty == DOMAIN NoFields = {}
BY DEF NoFields

\* An exception leaves the settings alone.
LEMMA RaisedNeutral ==
  ASSUME NEW err, NEW g, NEW dflt
  PROVE  Neutral(Raised(err, g), g, dflt)
BY NoFieldsEmpty DEF Raised, Outcome, Neutral, Fields

\* Being a method changes none of this.
LEMMA MethodNeutral ==
  ASSUME NEW o, NEW g, NEW dflt, Neutral(o, g, dflt)
  PROVE  Neutral(Method(o), g, dflt)
BY DEF Method, Neutral, Fields, AsksInTool

\* Nor does being one of the I/O methods.
LEMMA IoMethodNeutral ==
  ASSUME NEW o, NEW g, NEW dflt, Neutral(o, g, dflt)
  PROVE  Neutral(IoMethod(o), g, dflt)
BY DEF IoMethod, Neutral, Fields, AsksInTool

\* What holds without regard to the default holds for any call.
LEMMA NeutralAnyway ==
  ASSUME NEW o, NEW g, NEW dflt, Neutral(o, g, TRUE)
  PROVE  Neutral(o, g, dflt)
BY DEF Neutral

-----------------------------------------------------------------------------
(* The functions, module by module *)

\* The answers that occur
LEMMA AnswerNames ==
  /\ "status" \in Answers /\ "value" \in Answers /\ "kept" \in Answers /\ "read" \in Answers
  /\ "pair" \in Answers /\ "zero" \in Answers /\ "ignored" \in Answers /\ "stream" \in Answers
BY DEF Answers

\* movejx and movel send the coordinate in force when none is given.
LEMMA MovesInCoord ==
  ASSUME NEW g, NEW a, NEW async
  PROVE  /\ Neutral(movejx(g, a, async), g, a.ref = None)
         /\ Neutral(movel(g, a, async), g, a.ref = None)
BY CallWithRef, AnswerNames, ZenonT(60)
  DEF movejx, movel

\* So do movesx and moveb.
LEMMA SplinesInCoord ==
  ASSUME NEW g, NEW a, NEW async
  PROVE  /\ Neutral(movesx(g, a, async), g, a.ref = None)
         /\ Neutral(moveb(g, a, async), g, a.ref = None)
<1> DEFINE ref == AsInt8(Coord(a.ref, g.coord))
<1>1. \A err, pos, cnt, vel, acc, time, mode, opt :
        Neutral(Call(err, g, "move_spline_task", "status",
          [pos |-> pos, pos_cnt |-> cnt, vel |-> vel, acc |-> acc, time |-> time,
           ref |-> ref, mode |-> mode, opt |-> opt, sync_type |-> PyInt(async)]), g, a.ref = None)
  BY CallWithRef, AnswerNames, ZenonT(60)
<1>2. Neutral(movesx(g, a, async), g, a.ref = None)
  BY <1>1 DEF movesx
<1>3. Neutral(moveb(g, a, async), g, a.ref = None)
  <2> DEFINE vel  == TaskParam(a.vel, a.v, g.velx)
             acc  == TaskParam(a.acc, a.a, g.accx)
             time == TimeParam(a.time, a.t)
             segs == a.seg_list.s
             err  == TypeIf(a.seg_list.ty # "list") ++ ValueIf(segs = << >>)
                       ++ PyIf(\E i \in DOMAIN segs : segs[i].ty # "posb")
                       ++ Speeds(vel, NegativeSet) ++ Speeds(acc, NegativeSet)
                       ++ check_valid_vel_acc_task(vel, acc, time)
                       ++ IntIn(Coord(a.ref, g.coord), AnyCoord) ++ IntIn(a.mod, DR_MV_MODS)
             sent == AsArrays(ros_listToFloat64MultiArray(
                                [i \in DOMAIN segs |-> SegmentSent(segs[i])]))
             req  == [segment |-> sent, pos_cnt |-> AsInt8(PyInt(Len(segs))),
                      vel  |-> AsFloat64s(2, Floats(vel)), acc |-> AsFloat64s(2, Floats(acc)),
                      time |-> AsFloat64(ToFloat(time)), ref |-> ref, mode |-> AsInt8(a.mod),
                      sync_type |-> PyInt(async)]
  <2>1. moveb(g, a, async) = Call(err, g, "move_blending", "status", req)
    BY DEF moveb
  <2> HIDE DEF vel, acc, time, segs, err, sent
  <2>2. req.ref = ref /\ "ref" \in DOMAIN req
    OBVIOUS
  <2> HIDE DEF req
  <2>3. Neutral(Call(err, g, "move_blending", "status", req), g, a.ref = None)
    BY <2>2, CallWithRef, AnswerNames, Zenon
  <2> QED
    BY <2>1, <2>3, Zenon
<1> QED
  BY <1>2, <1>3

\* So does movec.
LEMMA MovecInCoord ==
  ASSUME NEW g, NEW a, NEW async
  PROVE  Neutral(movec(g, a, async), g, a.ref = None)
<1> DEFINE vel    == TaskParam(a.vel, a.v, g.velx)
           acc    == TaskParam(a.acc, a.a, g.accx)
           time   == TimeParam(a.time, a.t)
           ref    == AsInt8(Coord(a.ref, g.coord))
           radius == RadiusParam(a.radius, a.r)
           temp   == get_param(a.angle, a.an)
           angle  == IF temp = None THEN List(<< PyInt(0), PyInt(0) >>)
                     ELSE IF IsNum(temp) THEN List(<< temp, PyInt(0) >>)
                     ELSE IF IsList(2, temp) THEN temp ELSE Wrong
           err    == get_normal_pos(a.pos1) ++ get_normal_pos(a.pos2)
                       ++ TypeIf(NormalType(a.pos1) # NormalType(a.pos2))
                       ++ Speeds(vel, NegativeSet) ++ Speeds(acc, NegativeSet)
                       ++ TimeOk(time) ++ check_valid_vel_acc_task(vel, acc, time)
                       ++ NumberNot(radius, Negative) ++ IntIn(Coord(a.ref, g.coord), AnyCoord)
                       ++ IntIn(a.mod, DR_MV_MODS) ++ Speeds(angle, Negative)
                       ++ IntIn(a.ra, DR_MV_RAS)
           req    == [pos  |-> AsArrays(ros_listToFloat64MultiArray(<< a.pos1.s, a.pos2.s >>)),
                      vel  |-> AsFloat64s(2, Floats(vel)), acc |-> AsFloat64s(2, Floats(acc)),
                      time |-> AsFloat64(ToFloat(time)), radius |-> RadiusSent(radius, async),
                      ref  |-> ref, mode |-> AsInt8(a.mod),
                      angle1 |-> AsFloat64(ToFloat(angle.s[1])),
                      angle2 |-> AsFloat64(ToFloat(angle.s[2])),
                      blend_type |-> AsInt8(a.ra), sync_type |-> PyInt(async)]
<1>1. movec(g, a, async) = CallWaiting(err, g, "move_circle", "status", req)
  BY DEF movec
<1> HIDE DEF vel, acc, time, radius, temp, angle, err
<1>2. req.ref = ref /\ "ref" \in DOMAIN req
  OBVIOUS
<1> HIDE DEF req
<1>3. Neutral(CallWaiting(err, g, "move_circle", "status", req), g, a.ref = None)
  BY <1>2, CallWithRef, AnswerNames, Zenon
<1> QED
  BY <1>1, <1>3, Zenon

\* movej and movesj have no coordinate.
LEMMA JointMovesNeutral ==
  ASSUME NEW g, NEW a, NEW async
  PROVE  /\ Neutral(movej(g, a, async), g, TRUE)
         /\ Neutral(movesj(g, a, async), g, TRUE)
BY CallWithoutRef, AnswerNames
  DEF movej, movesj

\* The services with a default coordinate of their own, one by one
LEMMA FixedServices ==
  /\ "move_spiral" \in FixedDefault /\ "move_periodic" \in FixedDefault
  /\ "get_current_tool_flange_posx" \in FixedDefault /\ "get_current_velx" \in FixedDefault
  /\ "get_desired_velx" \in FixedDefault /\ "get_current_rotm" \in FixedDefault
  /\ "get_tool_force" \in FixedDefault /\ "fkin" \in FixedDefault /\ "ikin" \in FixedDefault
  /\ "overwrite_user_cart_coord" \in FixedDefault
BY DEF FixedDefault

\* move_spiral and move_periodic have a default coordinate of their own.
LEMMA FixedMovesNeutral ==
  ASSUME NEW g, NEW a, NEW async
  PROVE  /\ Neutral(move_spiral(g, a, async), g, TRUE)
         /\ Neutral(move_periodic(g, a, async), g, TRUE)
<1>1. \A err, req : Neutral(CallWaiting(err, g, "move_spiral", "status", req), g, TRUE)
  BY CallFixed, AnswerNames, FixedServices
<1>2. \A err, req : Neutral(CallWaiting(err, g, "move_periodic", "status", req), g, TRUE)
  BY CallFixed, AnswerNames, FixedServices
<1>3. Neutral(move_spiral(g, a, async), g, TRUE)
  BY <1>1, ZenonT(60) DEF move_spiral
<1>4. Neutral(move_periodic(g, a, async), g, TRUE)
  BY <1>2, ZenonT(60) DEF move_periodic
<1> QED
  BY <1>3, <1>4

\* So does enable_alter_motion.
LEMMA AlterInCoord ==
  ASSUME NEW g, NEW a
  PROVE  Neutral(enable_alter_motion(g, a), g, a.ref = None)
<1>1. \A err, n, mode, dpos, per :
        Neutral(Call(err, g, "enable_alter_motion", "status",
          [n |-> n, mode |-> mode, ref |-> AsInt8(Coord(a.ref, g.coord)),
           limit_dpos |-> dpos, limit_dpos_per |-> per]), g, a.ref = None)
  BY CallWithRef, AnswerNames
<1> QED
  BY <1>1 DEF enable_alter_motion

\* The other functions around a motion send no coordinate called ref.
LEMMA MotionNeutral ==
  ASSUME NEW g, NEW a
  PROVE  /\ Neutral(move_home(g, a), g, TRUE)
         /\ Neutral(move_wait(g, a), g, TRUE)
         /\ Neutral(check_motion(g, a), g, TRUE)
         /\ Neutral(change_operation_speed(g, a), g, TRUE)
         /\ Neutral(alter_motion(g, a), g, TRUE)
         /\ Neutral(disable_alter_motion(g, a), g, TRUE)
         /\ Neutral(set_singular_handling(g, a), g, TRUE)
         /\ Neutral(jog(g, a), g, TRUE)
         /\ Neutral(jog_multi(g, a), g, TRUE)
         /\ Neutral(get_workpiece_weight(g, a), g, TRUE)
         /\ Neutral(reset_workpiece_weight(g, a), g, TRUE)
BY NoFieldsEmpty, CallWithoutRef, AnswerNames, ZenonT(60)
  DEF move_home, move_wait, check_motion, change_operation_speed, alter_motion,
      disable_alter_motion, set_singular_handling, jog, jog_multi, get_workpiece_weight,
      reset_workpiece_weight, Getter

\* Streamed motions are in joint space or in the base.
LEMMA StreamNeutral ==
  ASSUME NEW g, NEW a
  PROVE  /\ Neutral(alter_motion_stream(g, a), g, TRUE)
         /\ Neutral(servoj(g, a), g, TRUE)
         /\ Neutral(servol(g, a), g, TRUE)
         /\ Neutral(speedj(g, a), g, TRUE)
         /\ Neutral(speedl(g, a), g, TRUE)
         /\ Neutral(servoj_rt(g, a), g, TRUE)
         /\ Neutral(servol_rt(g, a), g, TRUE)
         /\ Neutral(speedj_rt(g, a), g, TRUE)
         /\ Neutral(speedl_rt(g, a), g, TRUE)
         /\ Neutral(torque_rt(g, a), g, TRUE)
BY CallWithoutRef, AnswerNames, ZenonT(60)
  DEF alter_motion_stream, servoj, servol, speedj, speedl, servoj_rt, servol_rt,
      speedj_rt, speedl_rt, torque_rt, Publish

\* The realtime services: set_velj_rt ... change the controller, not the defaults.
LEMMA RtNeutral ==
  ASSUME NEW g, NEW a
  PROVE  /\ Neutral(set_safety_mode(g, a), g, TRUE)
         /\ Neutral(disconnect_rt_control(g, a), g, TRUE)
         /\ Neutral(start_rt_control(g, a), g, TRUE)
         /\ Neutral(stop_rt_control(g, a), g, TRUE)
         /\ Neutral(get_rt_control_output_version_list(g, a), g, TRUE)
         /\ Neutral(get_rt_control_input_version_list(g, a), g, TRUE)
         /\ Neutral(get_rt_control_input_data_list(g, a), g, TRUE)
         /\ Neutral(get_rt_control_output_data_list(g, a), g, TRUE)
BY NoFieldsEmpty, CallWithoutRef, AnswerNames
  DEF set_safety_mode, disconnect_rt_control, start_rt_control, stop_rt_control,
      get_rt_control_output_version_list, get_rt_control_input_version_list,
      get_rt_control_input_data_list, get_rt_control_output_data_list

\* Their settings and data.
LEMMA RtDataNeutral ==
  ASSUME NEW g, NEW a
  PROVE  /\ Neutral(read_data_rt(g, a), g, TRUE)
         /\ Neutral(set_rt_control_input(g, a), g, TRUE)
         /\ Neutral(set_rt_control_output(g, a), g, TRUE)
         /\ Neutral(set_velj_rt(g, a), g, TRUE)
         /\ Neutral(set_accj_rt(g, a), g, TRUE)
         /\ Neutral(set_velx_rt(g, a), g, TRUE)
         /\ Neutral(set_accx_rt(g, a), g, TRUE)
         /\ Neutral(write_data_rt(g, a), g, TRUE)
BY NoFieldsEmpty, CallWithoutRef, AnswerNames, ZenonT(60)
  DEF read_data_rt, set_rt_control_input, set_rt_control_output, set_velj_rt,
      set_accj_rt, set_velx_rt, set_accx_rt, write_data_rt, RtControl

\* The connection they use.
LEMMA RtConnectNeutral ==
  ASSUME NEW g, NEW a
  PROVE  Neutral(connect_rt_control(g, a), g, TRUE)
<1> DEFINE port == IF a.port = None THEN PyInt(12347) ELSE AsUint32(a.port)
           Sends(err, p) == CallWaiting(err, g, "connect_rt_control", "kept",
                                        [ip_address |-> Str, port |-> p])
<1>1. \A err, p : Neutral(Sends(err, p), g, TRUE)
  BY CallWithoutRef, AnswerNames
<1>2. \E err : connect_rt_control(g, a) = Sends(err, port)
  BY DEF connect_rt_control
<1> HIDE DEF port
<1> QED
  BY <1>1, <1>2

\* Poses and conditions that are read in the coordinate in force.
LEMMA PoseInCoord ==
  ASSUME NEW g, NEW a
  PROVE  /\ Neutral(get_current_posx(g, a), g, a.ref = None)
         /\ Neutral(get_desired_posx(g, a), g, a.ref = None)
         /\ Neutral(trans(g, a), g, a.ref = None)
         /\ Neutral(check_position_condition(g, a), g, a.ref = None)
         /\ Neutral(check_orientation_condition1(g, a), g, a.ref = None)
         /\ Neutral(check_orientation_condition2(g, a), g, a.ref = None)
BY CallWithRef, AnswerNames, ZenonT(60)
  DEF get_current_posx, get_desired_posx, trans, check_position_condition,
      check_orientation_condition1, check_orientation_condition2, PoseIn

\* Poses that are read in no coordinate.
LEMMA PoseNeutral ==
  ASSUME NEW g, NEW a
  PROVE  /\ Neutral(get_current_solution_space(g, a), g, TRUE)
         /\ Neutral(get_solution_space(g, a), g, TRUE)
         /\ Neutral(get_orientation_error(g, a), g, TRUE)
         /\ Neutral(coord_transform(g, a), g, TRUE)
         /\ Neutral(get_user_cart_coord(g, a), g, TRUE)
BY NoFieldsEmpty, CallWithoutRef, AnswerNames
  DEF get_current_solution_space, get_solution_space, get_orientation_error,
      coord_transform, get_user_cart_coord, Getter

\* Poses that are read in DR_BASE.
LEMMA PoseFixed ==
  ASSUME NEW g, NEW a
  PROVE  /\ Neutral(get_current_tool_flange_posx(g, a), g, TRUE)
         /\ Neutral(get_current_velx(g, a), g, TRUE)
         /\ Neutral(get_desired_velx(g, a), g, TRUE)
         /\ Neutral(get_current_rotm(g, a), g, TRUE)
         /\ Neutral(get_tool_force(g, a), g, TRUE)
         /\ Neutral(fkin(g, a), g, TRUE)
         /\ Neutral(ikin(g, a), g, TRUE)
         /\ Neutral(overwrite_user_cart_coord(g, a), g, TRUE)
BY CallFixed, AnswerNames, FixedServices
  DEF get_current_tool_flange_posx, get_current_velx, get_desired_velx, get_current_rotm,
      get_tool_force, fkin, ikin, overwrite_user_cart_coord, InBaseOrWorld, PoseIn

\* The functions with *args and **kargs call no set_ref_coord, whichever form
\* they take.
LEMMA FormsGiven ==
  ASSUME NEW g, NEW a
  PROVE  /\ Neutral(parallel_axis(g, a), g, FALSE)
         /\ Neutral(align_axis(g, a), g, FALSE)
         /\ Neutral(calc_coord(g, a), g, FALSE)
         /\ Neutral(set_user_cart_coord(g, a), g, FALSE)
<1>1. Neutral(parallel_axis(g, a), g, FALSE)
  BY CallGiven, AnswerNames, RaisedNeutral DEF parallel_axis
<1>2. Neutral(align_axis(g, a), g, FALSE)
  BY RaisedNeutral DEF align_axis
<1>3. Neutral(calc_coord(g, a), g, FALSE)
  <2>1. \A err, req : Neutral(Call(err, g, "calc_coord", "value", req), g, FALSE)
    BY CallGiven, AnswerNames
  <2> QED
    BY <2>1, RaisedNeutral, Zenon DEF calc_coord
<1>4. Neutral(set_user_cart_coord(g, a), g, FALSE)
  <2> DEFINE f   == CHOOSE f \in CartCoordForm(a) : TRUE
             svc == CASE f.nType \in {0, 3} -> "set_user_cart_coord2"
                      [] f.nType \in {1, 4} -> "set_user_cart_coord3"
                      [] OTHER -> "set_user_cart_coord1"
  <2>1. svc # "set_ref_coord"
    OBVIOUS
  <2>2. \/ \E err : set_user_cart_coord(g, a) = Raised(err, g)
        \/ \E err, req : set_user_cart_coord(g, a) = Call(err, g, svc, "value", req)
    BY ZenonT(90) DEF set_user_cart_coord
  <2> QED
    BY <2>1, <2>2, CallGiven, AnswerNames, RaisedNeutral
<1> QED
  BY <1>1, <1>2, <1>3, <1>4

\* Compliance and force.
LEMMA ForceNeutral ==
  ASSUME NEW g, NEW a
  PROVE  /\ Neutral(task_compliance_ctrl(g, a), g, TRUE)
         /\ Neutral(set_stiffnessx(g, a), g, TRUE)
         /\ Neutral(release_compliance_ctrl(g, a), g, TRUE)
         /\ Neutral(set_desired_force(g, a), g, TRUE)
         /\ Neutral(release_force(g, a), g, TRUE)
         /\ Neutral(is_done_bolt_tightening(g, a), g, TRUE)
BY NoFieldsEmpty, CallWithoutRef, AnswerNames, CallInCoord
  DEF task_compliance_ctrl, set_stiffnessx, release_compliance_ctrl, set_desired_force,
      release_force, is_done_bolt_tightening, Stiffness

\* Modes and states: no request has a coordinate.
LEMMA ModesNeutral ==
  ASSUME NEW g, NEW a
  PROVE  /\ Neutral(set_robot_mode(g, a), g, TRUE)
         /\ Neutral(set_robot_system(g, a), g, TRUE)
         /\ Neutral(set_robot_speed_mode(g, a), g, TRUE)
         /\ Neutral(set_safe_stop_reset_type(g, a), g, TRUE)
         /\ Neutral(get_current_pose(g, a), g, TRUE)
         /\ Neutral(get_robot_mode(g, a), g, TRUE)
         /\ Neutral(get_robot_system(g, a), g, TRUE)
         /\ Neutral(get_robot_state(g, a), g, TRUE)
         /\ Neutral(get_robot_speed_mode(g, a), g, TRUE)
         /\ Neutral(get_last_alarm(g, a), g, TRUE)
         /\ Neutral(get_control_mode(g, a), g, TRUE)
         /\ Neutral(get_control_space(g, a), g, TRUE)
         /\ Neutral(get_current_posj(g, a), g, TRUE)
         /\ Neutral(get_current_velj(g, a), g, TRUE)
         /\ Neutral(get_desired_posj(g, a), g, TRUE)
         /\ Neutral(get_desired_velj(g, a), g, TRUE)
         /\ Neutral(get_joint_torque(g, a), g, TRUE)
         /\ Neutral(get_external_torque(g, a), g, TRUE)
BY NoFieldsEmpty, CallWithoutRef, AnswerNames
  DEF set_robot_mode, set_robot_system, set_robot_speed_mode, set_safe_stop_reset_type,
      get_current_pose, get_robot_mode, get_robot_system, get_robot_state,
      get_robot_speed_mode, get_last_alarm, get_control_mode, get_control_space,
      get_current_posj, get_current_velj, get_desired_posj, get_desired_velj,
      get_joint_torque, get_external_torque, Getter, Command, Reading

\* Inputs and outputs.
LEMMA PortsNeutral ==
  ASSUME NEW g, NEW a
  PROVE  /\ Neutral(get_digital_input(g, a), g, TRUE)
         /\ Neutral(get_digital_output(g, a), g, TRUE)
         /\ Neutral(get_tool_digital_input(g, a), g, TRUE)
         /\ Neutral(get_tool_digital_output(g, a), g, TRUE)
         /\ Neutral(get_analog_input(g, a), g, TRUE)
         /\ Neutral(set_digital_output(g, a), g, TRUE)
         /\ Neutral(set_tool_digital_output(g, a), g, TRUE)
         /\ Neutral(set_mode_analog_input(g, a), g, TRUE)
         /\ Neutral(del_modbus_signal(g, a), g, TRUE)
         /\ Neutral(set_modbus_output(g, a), g, TRUE)
         /\ Neutral(get_modbus_input(g, a), g, TRUE)
BY NoFieldsEmpty, CallWithoutRef, AnswerNames, ZenonT(60)
  DEF get_digital_input, get_digital_output, get_tool_digital_input,
      get_tool_digital_output, get_analog_input, set_digital_output,
      set_tool_digital_output, set_mode_analog_input, del_modbus_signal,
      set_modbus_output, get_modbus_input, Command, Reading, ReadPort, WritePort,
      NamedCommand

\* Tools, TCPs and DRL scripts.
LEMMA ToolNeutral ==
  ASSUME NEW g, NEW a
  PROVE  /\ Neutral(set_tcp(g, a), g, TRUE)
         /\ Neutral(get_tcp(g, a), g, TRUE)
         /\ Neutral(set_tool(g, a), g, TRUE)
         /\ Neutral(get_tool(g, a), g, TRUE)
         /\ Neutral(set_tool_shape(g, a), g, TRUE)
         /\ Neutral(del_tcp(g, a), g, TRUE)
         /\ Neutral(del_tool(g, a), g, TRUE)
         /\ Neutral(add_tcp(g, a), g, TRUE)
         /\ Neutral(add_tool(g, a), g, TRUE)
         /\ Neutral(drl_script_run(g, a), g, TRUE)
         /\ Neutral(drl_script_stop(g, a), g, TRUE)
         /\ Neutral(drl_script_pause(g, a), g, TRUE)
         /\ Neutral(drl_script_resume(g, a), g, TRUE)
         /\ Neutral(get_drl_state(g, a), g, TRUE)
BY NoFieldsEmpty, CallWithoutRef, AnswerNames
  DEF set_tcp, get_tcp, set_tool, get_tool, set_tool_shape, del_tcp, del_tool, add_tcp,
      add_tool, drl_script_run, drl_script_stop, drl_script_pause, drl_script_resume,
      get_drl_state, Getter, Command, NamedCommand

\* And a Modbus signal.
LEMMA ModbusNeutral ==
  ASSUME NEW g, NEW a
  PROVE  Neutral(add_modbus_signal(g, a), g, TRUE)
<1> DEFINE value == IF a.reg_type.n \in DR_MODBUS_OUTPUTS THEN AsInt8(a.value) ELSE PyInt(0)
           Sends(err, v) ==
             Command(g, err, "config_create_modbus",
               [name |-> AsString(a.name), ip |-> AsString(a.ip), port |-> AsInt32(a.port),
                reg_type |-> AsInt8(a.reg_type), index |-> AsInt8(a.index), value |-> v,
                slave_id |-> AsInt32(a.slaveid)])
<1>1. \A err, v : Neutral(Sends(err, v), g, TRUE)
  BY CallWithoutRef, AnswerNames DEF Command
<1>2. \E err : add_modbus_signal(g, a) = Sends(err, value)
  BY DEF add_modbus_signal
<1> HIDE DEF value
<1> QED
  BY <1>1, <1>2


\* check_force_condition and its method: a rotation axis is asked in DR_TOOL.
LEMMA ForceConditionInCoord ==
  ASSUME NEW g, NEW a, NEW extra
  PROVE  Neutral(check_force_condition_limits(g, a, extra), g, a.ref = None)
<1> DEFINE axis == AsInt8(a.axis)
           ref == IF a.axis.n \in DR_AXIS_ABC THEN PyInt(DR_TOOL) ELSE AsInt8(Coord(a.ref, g.coord))
           o == check_force_condition_limits(g, a, extra)
<1>1. /\ DOMAIN o = Fields
      /\ o.g = g
      /\ o.svc = "check_force_condition"
      /\ o.err = "ok" => o.answer \in Answers
      /\ o.err = "ok" => /\ o.req.axis = axis /\ axis # Misfit
                         /\ o.req.ref = ref /\ ref # Misfit
  <2>1. \E err, min, max : o = Call(err, g, "check_force_condition", "status",
                                    [axis |-> axis, min |-> min, max |-> max, ref |-> ref])
    BY DEF check_force_condition_limits
  <2> HIDE DEF axis, ref, o
  <2> QED
    BY <2>1, CallForm, AnswerNames
<1> HIDE DEF o, axis, ref
<1>2. o.err = "ok" /\ a.ref = None =>
        o.req.ref = g.coord \/ (o.req.axis.n \in DR_AXIS_ABC /\ o.req.ref = PyInt(DR_TOOL))
  <2>1. o.err = "ok" => o.req.axis = a.axis
    BY <1>1 DEF axis, AsInt8, Fits
  <2>2. o.err = "ok" /\ a.ref = None /\ a.axis.n \notin DR_AXIS_ABC => o.req.ref = g.coord
    BY <1>1 DEF ref, AsInt8, Fits, Coord
  <2> QED
    BY <1>1, <2>1, <2>2 DEF ref
<1>3. Neutral(o, g, a.ref = None)
  BY <1>1, <1>2 DEF Neutral, AsksInTool
<1> QED
  BY <1>3 DEF o

\* check_orientation_condition and its method, for poses and for angles.
LEMMA OrientationInCoord ==
  ASSUME NEW g, NEW a
  PROVE  /\ Neutral(check_orientation_condition(g, a), g, a.ref = None)
         /\ Neutral(robot_check_orientation_condition(g, a), g, a.ref = None)
<1>1. Neutral(check_orientation_condition(g, a), g, a.ref = None)
  BY PoseInCoord, RaisedNeutral DEF check_orientation_condition
<1>2. Neutral(robot_check_orientation_condition(g, a), g, a.ref = None)
  BY <1>1, MethodNeutral, RaisedNeutral DEF robot_check_orientation_condition
<1> QED
  BY <1>1, <1>2

\* The methods that differ from their function.  movej of an object reads
\* velocities of its own and leaves the module's alone.
LEMMA MethodsNeutral ==
  ASSUME NEW g, NEW a, NEW async
  PROVE  /\ Neutral(robot_movej(g, a, async), g, TRUE)
         /\ Neutral(robot_move_home(g, a), g, TRUE)
         /\ Neutral(robot_get_tool_force(g, a), g, TRUE)
<1>1. Neutral(robot_movej(g, a, async), g, TRUE)
  <2> DEFINE o == movej(RobotSettings(g), a, async)
  <2>1. /\ DOMAIN o = Fields
        /\ o.svc = "move_joint"
        /\ "ref" \notin DOMAIN o.req
        /\ o.err = "ok" => o.answer \in Answers
    <3>1. \E err, pos, vel, acc, time, radius, mode, blend :
            o = CallWaiting(err, RobotSettings(g), "move_joint", "status",
                  [pos |-> pos, vel |-> vel, acc |-> acc, time |-> time, radius |-> radius,
                   mode |-> mode, blend_type |-> blend, sync_type |-> PyInt(async)])
      BY DEF movej
    <3> HIDE DEF o
    <3> QED
      BY <3>1, CallForm, NoFieldsEmpty, AnswerNames DEF CallWaiting, Fields
  <2> HIDE DEF o
  <2>2. robot_movej(g, a, async) = [Method(o) EXCEPT !.g = g]
    BY DEF robot_movej, o
  <2> QED
    BY <2>1, <2>2 DEF Method, Neutral, Fields
<1>2. Neutral(robot_move_home(g, a), g, TRUE)
  <2>1. ASSUME NEW o, Neutral(o, g, TRUE), NEW answer \in Answers
        PROVE  Neutral([o EXCEPT !.answer = answer], g, TRUE)
    BY <2>1 DEF Neutral, Fields, AsksInTool
  <2>2. Neutral(Method(move_home(g, a)), g, TRUE)
    BY MotionNeutral, MethodNeutral
  <2> QED
    BY <2>1, <2>2, AnswerNames DEF robot_move_home
<1>3. Neutral(robot_get_tool_force(g, a), g, TRUE)
  BY CallFixed, AnswerNames, FixedServices, MethodNeutral DEF robot_get_tool_force, PoseIn
<1> QED
  BY <1>1, <1>2, <1>3

-----------------------------------------------------------------------------
(* The functions that set something *)

\* set_ref_coord keeps the coordinate it sent: one that it names, as its check
\* demands, and that fits the field of the request.
LEMMA RefCoordSet ==
  ASSUME NEW g, NEW a, "coord" \in DOMAIN g, a.coord.ty = "int" => a.coord = PyInt(a.coord.n)
  PROVE  SetsCoord(set_ref_coord(g, a), g) /\ SetsCoord(robot_set_ref_coord(g, a), g)
<1> DEFINE o == Call(IntIn(a.coord, NamedCoords), g, "set_ref_coord", "status",
                     [coord |-> AsInt8(a.coord)])
<1>1. DOMAIN o = Fields /\ o.g = g /\ o.svc = "set_ref_coord"
  BY CallForm
<1>2. o.err = "ok" => /\ o.req = [coord |-> AsInt8(a.coord)] /\ AsInt8(a.coord) # Misfit
                      /\ o.answer = "status"
  BY CallForm
<1>3. o.err # "ok" => o.req = NoFields
  BY CallForm
<1>10. o.err = "ok" => IntIn(a.coord, NamedCoords) = "ok"
  BY CallForm
<1>4. set_ref_coord(g, a) = IF o.err = "ok" THEN [o EXCEPT !.g.coord = a.coord] ELSE o
  BY DEF set_ref_coord
<1> HIDE DEF o
<1>5. AsInt8(a.coord) # Misfit => /\ AsInt8(a.coord) = a.coord
                                  /\ a.coord.ty = "int" /\ a.coord.n \in -128..127
  BY DEF AsInt8, Fits
<1>6. "ref" \notin DOMAIN o.req
  BY <1>2, <1>3, NoFieldsEmpty
<1>11. o.err = "ok" => a.coord.n \in NamedCoords
  BY <1>10 DEF IntIn, ++, TypeIf, ValueIf
<1>7. o.err = "ok" => o.req.coord = a.coord /\ Nameable(a.coord)
  BY <1>2, <1>5, <1>11 DEF Nameable
<1>8. SetsCoord(set_ref_coord(g, a), g)
  BY <1>1, <1>2, <1>4, <1>6, <1>7 DEF SetsCoord, Recoords, Fields
<1>9. ASSUME NEW x, SetsCoord(x, g)
      PROVE  SetsCoord(Method(x), g)
  BY <1>9 DEF SetsCoord, Method, Fields
<1> QED
  BY <1>8, <1>9 DEF robot_set_ref_coord

\* A value whose numbers are integers
Measured(v) ==
  /\ v.n \in Int
  /\ DOMAIN v.s = 1..Len(v.s)
  /\ \A i \in DOMAIN v.s : v.s[i].n \in Int

\* set_velj and set_accj keep six positive numbers.
LEMMA JointSettingUsable ==
  ASSUME NEW v, Measured(v), NEW e, e # "ok", JointSetting(v, e) = "ok"
  PROVE  JointUsable(SixOf(v))
<1>1. CASE IsNum(v)
  <2>1. v.n \in Int /\ v.n > 0
    BY <1>1 DEF JointSetting, Measured
  <2> QED
    BY <1>1, <2>1 DEF SixOf, JointUsable, IsList, List, PyValue, Times, POINT_COUNT, Above
<1>2. CASE ~IsNum(v)
  <2>1. IsList(6, v) /\ is_number(v, "TYPE") ++ ItemsNot(v.s, NotPositive) = "ok"
    BY <1>2 DEF JointSetting, POINT_COUNT
  <2>2. ItemsNot(v.s, NotPositive) = "ok"
    BY <2>1 DEF ++
  <2>3. \A i \in DOMAIN v.s : IsNum(v.s[i]) /\ ~NotPositive(v.s[i].n)
    BY <2>2 DEF ItemsNot
  <2>4. \A i \in 1..6 : Above(v.s[i])
    BY <2>1, <2>3 DEF Measured, IsList, Above, NotPositive
  <2> QED
    BY <1>2, <2>1, <2>4 DEF SixOf, JointUsable, Measured, IsList
<1> QED
  BY <1>1, <1>2

\* set_velx and set_accx keep a positive number and one that is positive or unset.
LEMMA TaskSettingUsable ==
  ASSUME NEW v1, v1.n \in Int,
         NEW v2 \in {PyInt(DR_COND_NONE), PyInt(30), PyInt(-1), Str},
         TaskSetting(v1, v2) = "ok"
  PROVE  TaskUsable(List(<< v1, v2 >>))
<1>1. /\ IsNum(v1) /\ v1.n > 0
      /\ IsNum(v2) /\ (v2.n = DR_COND_NONE \/ v2.n > 0)
  <2>1. v2.n \in Int
    BY DEF PyInt, Str, PyValue, DR_COND_NONE
  <2>2. DR_COND_NONE \in Int
    BY DEF DR_COND_NONE
  <2> QED
    BY <2>1, <2>2 DEF TaskSetting, NumberNot, ++, TypeIf, ValueIf, NotPositive
<1>2. v2 = PyInt(DR_COND_NONE) \/ Above(v2)
  BY <1>1 DEF PyInt, Str, PyValue, Above, IsNum, DR_COND_NONE
<1> QED
  BY <1>1, <1>2 DEF TaskUsable, IsList, List, PyValue, Above


\* The arguments of a call are those of a good call but for one of them.
LEMMA ArgsCases ==
  ASSUME NEW d, NEW alts, NEW a \in Args(d, alts)
  PROVE  /\ DOMAIN a = DOMAIN d
         /\ a = d \/ \E f \in DOMAIN alts : \E v \in alts[f] : a = [d EXCEPT ![f] = v]
BY DEF Args

\* Each of the four setters changes its own setting, to one that is usable.
LEMMA SettersSet ==
  ASSUME NEW g, DOMAIN g = DOMAIN InitialSettings
  PROVE  /\ \A a \in Args([vel |-> PyInt(30)], [vel |-> NewSpeeds]) : SetsSpeed(set_velj(g, a), g)
         /\ \A a \in Args([acc |-> PyInt(30)], [acc |-> NewSpeeds]) : SetsSpeed(set_accj(g, a), g)
         /\ \A a \in Args([vel1 |-> PyInt(30), vel2 |-> PyInt(DR_COND_NONE)],
                          [vel1 |-> NewSpeeds, vel2 |-> {PyInt(30), PyInt(-1), Str}]) :
              SetsSpeed(set_velx(g, a), g)
         /\ \A a \in Args([acc1 |-> PyInt(30), acc2 |-> PyInt(DR_COND_NONE)],
                          [acc1 |-> NewSpeeds, acc2 |-> {PyInt(30), PyInt(-1), Str}]) :
              SetsSpeed(set_accx(g, a), g)
<1>1. \A v \in NewSpeeds \cup {PyInt(30)} : Measured(v)
  BY ValuesAssumption DEF Measured, PyInt, PyValue
<1>2. ASSUME NEW err, NEW k \in {"velj", "accj"}, NEW v, err = "ok" => JointUsable(v)
      PROVE  SetsSpeed(Settings(err, g, [g EXCEPT ![k] = v]), g)
  BY <1>2 DEF SetsSpeed, Settings, Outcome, Fields, InitialSettings
<1>3. ASSUME NEW err, NEW k \in {"velx", "accx"}, NEW v, err = "ok" => TaskUsable(v)
      PROVE  SetsSpeed(Settings(err, g, [g EXCEPT ![k] = v]), g)
  BY <1>3 DEF SetsSpeed, Settings, Outcome, Fields, InitialSettings
<1>4. ASSUME NEW a \in Args([vel |-> PyInt(30)], [vel |-> NewSpeeds])
      PROVE  SetsSpeed(set_velj(g, a), g)
  <2>1. a.vel \in NewSpeeds \cup {PyInt(30)}
    BY ArgsCases
  <2>2. JointSetting(a.vel, "TYPE") = "ok" => JointUsable(SixOf(a.vel))
    BY <1>1, <2>1, JointSettingUsable
  <2> QED
    BY <1>2, <2>2 DEF set_velj
<1>5. ASSUME NEW a \in Args([acc |-> PyInt(30)], [acc |-> NewSpeeds])
      PROVE  SetsSpeed(set_accj(g, a), g)
  <2>1. a.acc \in NewSpeeds \cup {PyInt(30)}
    BY ArgsCases
  <2>2. JointSetting(a.acc, "VALUE") = "ok" => JointUsable(SixOf(a.acc))
    BY <1>1, <2>1, JointSettingUsable
  <2> QED
    BY <1>2, <2>2 DEF set_accj
<1>6. ASSUME NEW a \in Args([vel1 |-> PyInt(30), vel2 |-> PyInt(DR_COND_NONE)],
                            [vel1 |-> NewSpeeds, vel2 |-> {PyInt(30), PyInt(-1), Str}])
      PROVE  SetsSpeed(set_velx(g, a), g)
  <2>1. /\ a.vel1 \in NewSpeeds \cup {PyInt(30)}
        /\ a.vel2 \in {PyInt(DR_COND_NONE), PyInt(30), PyInt(-1), Str}
    BY ArgsCases
  <2>2. TaskSetting(a.vel1, a.vel2) = "ok" => TaskUsable(List(<< a.vel1, a.vel2 >>))
    BY <1>1, <2>1, TaskSettingUsable DEF Measured
  <2> QED
    BY <1>3, <2>2 DEF set_velx
<1>7. ASSUME NEW a \in Args([acc1 |-> PyInt(30), acc2 |-> PyInt(DR_COND_NONE)],
                            [acc1 |-> NewSpeeds, acc2 |-> {PyInt(30), PyInt(-1), Str}])
      PROVE  SetsSpeed(set_accx(g, a), g)
  <2>1. /\ a.acc1 \in NewSpeeds \cup {PyInt(30)}
        /\ a.acc2 \in {PyInt(DR_COND_NONE), PyInt(30), PyInt(-1), Str}
    BY ArgsCases
  <2>2. TaskSetting(a.acc1, a.acc2) = "ok" => TaskUsable(List(<< a.acc1, a.acc2 >>))
    BY <1>1, <2>1, TaskSettingUsable DEF Measured
  <2> QED
    BY <1>3, <2>2 DEF set_accx
<1> QED
  BY <1>4, <1>5, <1>6, <1>7

-----------------------------------------------------------------------------
(* The calls of the script *)

\* A call of which the invariant knows enough
KnownCall ==
  \E plain, dref, o :
    /\ Invoke(plain, dref, o)
    /\ Neutral(o, glob, dref) \/ SetsCoord(o, glob) \/ SetsSpeed(o, glob)

\* A function without a coordinate is known by what it comes to.
LEMMA NeutralKnown ==
  ASSUME NEW plain, NEW dref, NEW o, Invoke(plain, dref, o), Neutral(o, glob, TRUE)
  PROVE  KnownCall
BY NeutralAnyway DEF KnownCall

\* A function with one is called with or without it.
LEMMA RefKnown ==
  ASSUME NEW plain, NEW a, NEW o, "ref" \in DOMAIN a,
         Invoke(plain, DefaultRef(a), o), Neutral(o, glob, a.ref = None)
  PROVE  KnownCall
BY DEF KnownCall, DefaultRef, Neutral

\* A coordinate among some arguments is among all of them, and among those of
\* every call that differs in one.
LEMMA RefAmong ==
  ASSUME NEW d, NEW more, "ref" \in DOMAIN d
  PROVE  /\ "ref" \in DOMAIN (d && more)
         /\ \A alts : \A a \in Args(d, alts) : "ref" \in DOMAIN a
BY ArgsCases DEF &&

\* Modes and the state of the robot.
LEMMA ModeCallsKnown ==
  ModeCalls => KnownCall
BY NeutralKnown, ModesNeutral, MethodNeutral, ZenonT(60)
  DEF ModeCalls, Calls, Plain, Function, robot_set_robot_mode, robot_set_robot_system,
      robot_set_robot_speed_mode, robot_set_safe_stop_reset_type, robot_get_current_pose,
      robot_get_robot_mode, robot_get_robot_system, robot_get_robot_state,
      robot_get_robot_speed_mode

\* What the controller measures.
LEMMA StateCallsKnown ==
  StateCalls => KnownCall
BY NeutralKnown, ModesNeutral, MethodNeutral, ZenonT(60)
  DEF StateCalls, Plain, Calls, Function, robot_get_last_alarm, robot_get_control_mode,
      robot_get_control_space, robot_get_current_posj, robot_get_current_velj,
      robot_get_desired_posj, robot_get_desired_velj, robot_get_joint_torque,
      robot_get_external_torque

\* What is asked about a motion.
LEMMA CheckCallsKnown ==
  CheckCalls => KnownCall
BY NeutralKnown, MotionNeutral, PoseNeutral, MethodNeutral, ZenonT(60)
  DEF CheckCalls, Plain, Calls, Function, robot_get_current_solution_space,
      robot_check_motion, robot_get_workpiece_weight, robot_reset_workpiece_weight

\* Poses in the coordinate in force.
LEMMA PoseCallsKnown ==
  PoseCalls => KnownCall
<1>1. /\ "ref" \in DOMAIN InCoord
      /\ "ref" \in DOMAIN [pos |-> GoodPose, delta |-> GoodPose, ref |-> None, ref_out |-> ZERO]
  BY DEF InCoord
<1>2. \A plain, a : "ref" \in DOMAIN a /\
        Invoke(plain, DefaultRef(a), get_current_posx(glob, a)) => KnownCall
  BY RefKnown, PoseInCoord
<1>3. \A plain, a : "ref" \in DOMAIN a /\
        Invoke(plain, DefaultRef(a), robot_get_current_posx(glob, a)) => KnownCall
  BY RefKnown, PoseInCoord, MethodNeutral DEF robot_get_current_posx
<1>4. \A plain, a : "ref" \in DOMAIN a /\
        Invoke(plain, DefaultRef(a), get_desired_posx(glob, a)) => KnownCall
  BY RefKnown, PoseInCoord
<1>5. \A plain, a : "ref" \in DOMAIN a /\
        Invoke(plain, DefaultRef(a), robot_get_desired_posx(glob, a)) => KnownCall
  BY RefKnown, PoseInCoord, MethodNeutral DEF robot_get_desired_posx
<1>6. \A plain, a : "ref" \in DOMAIN a /\
        Invoke(plain, DefaultRef(a), trans(glob, a)) => KnownCall
  BY RefKnown, PoseInCoord
<1>7. \A plain, a : "ref" \in DOMAIN a /\
        Invoke(plain, DefaultRef(a), robot_trans(glob, a)) => KnownCall
  BY RefKnown, PoseInCoord, MethodNeutral DEF robot_trans
<1> QED
  BY <1>1, <1>2, <1>3, <1>4, <1>5, <1>6, <1>7, RefAmong, Zenon
  DEF PoseCalls, Calls, Function

\* Kinematics, without a default coordinate.
LEMMA KinematicsCallsKnown ==
  KinematicsCalls => KnownCall
BY NeutralKnown, PoseNeutral, MethodNeutral
  DEF KinematicsCalls, Calls, Function, robot_get_solution_space,
      robot_get_orientation_error, robot_coord_transform

\* Poses in DR_BASE.
LEMMA BasePoseCallsKnown ==
  BasePoseCalls => KnownCall
BY NeutralKnown, PoseFixed, MethodsNeutral, MethodNeutral, ZenonT(60)
  DEF BasePoseCalls, Calls, Function, robot_get_current_tool_flange_posx,
      robot_get_current_velx, robot_get_desired_velx, robot_get_current_rotm, robot_fkin,
      robot_ikin

\* Motions in joint space, of the module and of an object.
LEMMA JointMoveCallsKnown ==
  JointMoveCalls => KnownCall
BY NeutralKnown, JointMovesNeutral, MethodsNeutral
  DEF JointMoveCalls, Function, Motions, robot_movesj

\* Motions in the coordinate in force; a method calls the function.
LEMMA TaskMoveCallsKnown ==
  TaskMoveCalls => KnownCall
<1>1. /\ "ref" \in DOMAIN [pos |-> GoodPose, ref |-> None, sol |-> ZERO]
      /\ "ref" \in DOMAIN [pos |-> GoodPose, ref |-> None]
      /\ "ref" \in DOMAIN [pos1 |-> GoodPose, pos2 |-> GoodPose, ref |-> None, angle |-> None, an |-> None]
      /\ "ref" \in DOMAIN [pos_list |-> GoodTask, ref |-> None, mod |-> ZERO, vel_opt |-> ZERO]
      /\ "ref" \in DOMAIN [seg_list |-> GoodSegments, ref |-> None, mod |-> ZERO]
  OBVIOUS
<1>2. \A plain, a, async : "ref" \in DOMAIN a /\
        Invoke(plain, DefaultRef(a), movejx(glob, a, async)) => KnownCall
  BY RefKnown, MovesInCoord
<1>3. \A plain, a, async : "ref" \in DOMAIN a /\
        Invoke(plain, DefaultRef(a), movel(glob, a, async)) => KnownCall
  BY RefKnown, MovesInCoord
<1>4. \A plain, a, async : "ref" \in DOMAIN a /\
        Invoke(plain, DefaultRef(a), movec(glob, a, async)) => KnownCall
  BY RefKnown, MovecInCoord
<1>5. \A plain, a, async : "ref" \in DOMAIN a /\
        Invoke(plain, DefaultRef(a), movesx(glob, a, async)) => KnownCall
  BY RefKnown, SplinesInCoord
<1>6. \A plain, a, async : "ref" \in DOMAIN a /\
        Invoke(plain, DefaultRef(a), moveb(glob, a, async)) => KnownCall
  BY RefKnown, SplinesInCoord
<1> QED
  BY <1>1, <1>2, <1>3, <1>4, <1>5, <1>6, RefAmong, ZenonT(60)
  DEF TaskMoveCalls, Motions, Function, robot_movejx, robot_movel, robot_movec,
      robot_movesx, robot_moveb

\* Motions along an axis.
LEMMA AxisMoveCallsKnown ==
  AxisMoveCalls => KnownCall
BY NeutralKnown, FixedMovesNeutral
  DEF AxisMoveCalls, Motions, Function, robot_move_spiral, robot_move_periodic

\* A motion that is altered.
LEMMA AlterCallsKnown ==
  AlterCalls => KnownCall
<1>1. "ref" \in DOMAIN [n |-> ONE, mode |-> ZERO, ref |-> None, limit_dPOS |-> None, limit_dPOS_per |-> None]
  OBVIOUS
<1>2. \A plain, a : "ref" \in DOMAIN a /\
        Invoke(plain, DefaultRef(a), enable_alter_motion(glob, a)) => KnownCall
  BY RefKnown, AlterInCoord
<1>3. \A plain, a : "ref" \in DOMAIN a /\
        Invoke(plain, DefaultRef(a), robot_enable_alter_motion(glob, a)) => KnownCall
  BY RefKnown, AlterInCoord, MethodNeutral DEF robot_enable_alter_motion
<1> QED
  BY <1>1, <1>2, <1>3, RefAmong, Zenon
  DEF AlterCalls, Calls, Function

\* What is done around a motion.
LEMMA MotionCallsKnown ==
  MotionCalls => KnownCall
BY NeutralKnown, MotionNeutral, MethodsNeutral, MethodNeutral, ZenonT(60)
  DEF MotionCalls, Calls, Plain, Function, robot_mwait, robot_change_operation_speed,
      robot_alter_motion, robot_disable_alter_motion, robot_set_singular_handling,
      robot_set_singularity_handling, robot_jog, robot_jog_multi

\* Streamed motions.
LEMMA StreamCallsKnown ==
  StreamCalls => KnownCall
BY NeutralKnown, StreamNeutral
  DEF StreamCalls, Function

\* The realtime connection ...
LEMMA RtConnectCallsKnown ==
  RtConnectCalls => KnownCall
BY NeutralKnown, RtConnectNeutral
  DEF RtConnectCalls, Function

\* ... its control ...
LEMMA RtCallsKnown ==
  RtCalls => KnownCall
BY NeutralKnown, RtNeutral, RtDataNeutral
  DEF RtCalls, Function

\* ... and its data.
LEMMA RtDataCallsKnown ==
  RtDataCalls => KnownCall
BY NeutralKnown, RtNeutral, RtDataNeutral
  DEF RtDataCalls, Function

\* User coordinates.
LEMMA UserCoordCallsKnown ==
  UserCoordCalls => KnownCall
<1>1. \A plain, dref, a : Invoke(plain, dref, overwrite_user_cart_coord(glob, a)) => KnownCall
  BY NeutralKnown, PoseFixed
<1>2. \A plain, dref, a :
        Invoke(plain, dref, robot_overwrite_user_cart_coord(glob, a)) => KnownCall
  BY NeutralKnown, PoseFixed, MethodNeutral DEF robot_overwrite_user_cart_coord
<1>3. \A plain, dref, a : Invoke(plain, dref, get_user_cart_coord(glob, a)) => KnownCall
  BY NeutralKnown, PoseNeutral
<1>4. \A plain, dref, a : Invoke(plain, dref, robot_get_user_cart_coord(glob, a)) => KnownCall
  BY NeutralKnown, PoseNeutral, MethodNeutral DEF robot_get_user_cart_coord
<1> QED
  BY <1>1, <1>2, <1>3, <1>4, ZenonT(60)
  DEF UserCoordCalls, Calls, Function

\* Conditions, in the coordinate in force.
LEMMA ConditionCallsKnown ==
  ConditionCalls => KnownCall
<1>1. /\ "ref" \in DOMAIN Condition
      /\ "ref" \in DOMAIN [axis |-> PyInt(10), min |-> GoodPose, max |-> GoodPose, ref |-> None,
                          mod |-> None, pos |-> None]
      /\ "ref" \in DOMAIN [axis |-> PyInt(10), min |-> ZERO, max |-> ONE, ref |-> None,
                          mod |-> None, pos |-> GoodPose]
  BY DEF Condition
<1>2. \A plain, a : "ref" \in DOMAIN a /\
        Invoke(plain, DefaultRef(a), check_position_condition(glob, a)) => KnownCall
  BY RefKnown, PoseInCoord
<1>3. \A plain, a : "ref" \in DOMAIN a /\
        Invoke(plain, DefaultRef(a), robot_check_position_condition(glob, a)) => KnownCall
  BY RefKnown, PoseInCoord, MethodNeutral DEF robot_check_position_condition
<1>4. \A plain, a : "ref" \in DOMAIN a /\
        Invoke(plain, DefaultRef(a), check_force_condition(glob, a)) => KnownCall
  BY RefKnown, ForceConditionInCoord DEF check_force_condition
<1>5. \A plain, a : "ref" \in DOMAIN a /\
        Invoke(plain, DefaultRef(a), robot_check_force_condition(glob, a)) => KnownCall
  BY RefKnown, ForceConditionInCoord, MethodNeutral DEF robot_check_force_condition
<1>6. \A plain, a : "ref" \in DOMAIN a /\
        Invoke(plain, DefaultRef(a), check_orientation_condition(glob, a)) => KnownCall
  BY RefKnown, OrientationInCoord
<1>7. \A plain, a : "ref" \in DOMAIN a /\
        Invoke(plain, DefaultRef(a), robot_check_orientation_condition(glob, a)) => KnownCall
  BY RefKnown, OrientationInCoord
<1> QED
  BY <1>1, <1>2, <1>3, <1>4, <1>5, <1>6, <1>7, RefAmong, Zenon
  DEF ConditionCalls, Calls, Function

\* Compliance and force, always in the coordinate in force.
LEMMA ForceCallsKnown ==
  ForceCalls => KnownCall
<1>1. \A plain, dref, a : Invoke(plain, dref, task_compliance_ctrl(glob, a)) => KnownCall
  BY NeutralKnown, ForceNeutral
<1>2. \A plain, dref, a : Invoke(plain, dref, robot_task_compliance_ctrl(glob, a)) => KnownCall
  BY NeutralKnown, ForceNeutral, MethodNeutral DEF robot_task_compliance_ctrl
<1>3. \A plain, dref, a : Invoke(plain, dref, set_stiffnessx(glob, a)) => KnownCall
  BY NeutralKnown, ForceNeutral
<1>4. \A plain, dref, a : Invoke(plain, dref, robot_set_stiffnessx(glob, a)) => KnownCall
  BY NeutralKnown, ForceNeutral, MethodNeutral DEF robot_set_stiffnessx
<1>5. \A plain, dref, a : Invoke(plain, dref, release_compliance_ctrl(glob, a)) => KnownCall
  BY NeutralKnown, ForceNeutral
<1>6. \A plain, dref, a :
        Invoke(plain, dref, robot_release_compliance_ctrl(glob, a)) => KnownCall
  BY NeutralKnown, ForceNeutral, MethodNeutral DEF robot_release_compliance_ctrl
<1>7. \A plain, dref, a : Invoke(plain, dref, set_desired_force(glob, a)) => KnownCall
  BY NeutralKnown, ForceNeutral
<1>8. \A plain, dref, a : Invoke(plain, dref, robot_set_desired_force(glob, a)) => KnownCall
  BY NeutralKnown, ForceNeutral, MethodNeutral DEF robot_set_desired_force
<1>9. \A plain, dref, a : Invoke(plain, dref, release_force(glob, a)) => KnownCall
  BY NeutralKnown, ForceNeutral
<1>10. \A plain, dref, a : Invoke(plain, dref, robot_release_force(glob, a)) => KnownCall
  BY NeutralKnown, ForceNeutral, MethodNeutral DEF robot_release_force
<1>11. \A plain, dref, a : Invoke(plain, dref, is_done_bolt_tightening(glob, a)) => KnownCall
  BY NeutralKnown, ForceNeutral
<1>12. \A plain, dref, a :
        Invoke(plain, dref, robot_is_done_bolt_tightening(glob, a)) => KnownCall
  BY NeutralKnown, ForceNeutral, MethodNeutral DEF robot_is_done_bolt_tightening
<1> QED
  BY <1>1, <1>2, <1>3, <1>4, <1>5, <1>6, <1>7, <1>8, <1>9, <1>10, <1>11, <1>12, Zenon
  DEF ForceCalls, Calls, Function, Plain

\* Modbus signals.
LEMMA ModbusCallsKnown ==
  ModbusCalls => KnownCall
<1>1. \A plain, dref, a : Invoke(plain, dref, add_modbus_signal(glob, a)) => KnownCall
  BY NeutralKnown, ModbusNeutral
<1>2. \A plain, dref, a : Invoke(plain, dref, robot_add_modbus_signal(glob, a)) => KnownCall
  BY NeutralKnown, ModbusNeutral, MethodNeutral DEF robot_add_modbus_signal
<1>3. \A plain, dref, a : Invoke(plain, dref, del_modbus_signal(glob, a)) => KnownCall
  BY NeutralKnown, PortsNeutral
<1>4. \A plain, dref, a : Invoke(plain, dref, robot_del_modbus_signal(glob, a)) => KnownCall
  BY NeutralKnown, PortsNeutral, MethodNeutral DEF robot_del_modbus_signal
<1>5. \A plain, dref, a : Invoke(plain, dref, set_modbus_output(glob, a)) => KnownCall
  BY NeutralKnown, PortsNeutral
<1>6. \A plain, dref, a : Invoke(plain, dref, robot_set_modbus_output(glob, a)) => KnownCall
  BY NeutralKnown, PortsNeutral, MethodNeutral DEF robot_set_modbus_output
<1>7. \A plain, dref, a : Invoke(plain, dref, get_modbus_input(glob, a)) => KnownCall
  BY NeutralKnown, PortsNeutral
<1>8. \A plain, dref, a : Invoke(plain, dref, robot_get_modbus_input(glob, a)) => KnownCall
  BY NeutralKnown, PortsNeutral, MethodNeutral DEF robot_get_modbus_input
<1> QED
  BY <1>1, <1>2, <1>3, <1>4, <1>5, <1>6, <1>7, <1>8, ZenonT(60)
  DEF ModbusCalls, Calls, Function

\* Inputs and outputs.
LEMMA IoCallsKnown ==
  IoCalls => KnownCall
BY NeutralKnown, PortsNeutral, IoMethodNeutral
  DEF IoCalls, Calls, Function, robot_get_digital_input, robot_get_digital_output,
      robot_get_tool_digital_input, robot_get_tool_digital_output, robot_get_analog_input,
      robot_set_digital_output, robot_set_tool_digital_output, robot_set_mode_analog_input

\* DRL scripts.
LEMMA DrlCallsKnown ==
  DrlCalls => KnownCall
BY NeutralKnown, ToolNeutral, MethodNeutral
  DEF DrlCalls, Calls, Plain, Function, robot_drl_script_run, robot_drl_script_stop,
      robot_drl_script_pause, robot_drl_script_resume, robot_get_drl_state

\* Tools and TCPs.
LEMMA ConfigCallsKnown ==
  ConfigCalls => KnownCall
BY NeutralKnown, ToolNeutral, MethodNeutral, ZenonT(60)
  DEF ConfigCalls, Calls, Plain, Function, robot_set_tcp, robot_set_tool,
      robot_set_tool_shape, robot_del_tcp, robot_del_tool, robot_get_tcp, robot_get_tool,
      robot_add_tcp, robot_add_tool

\* The functions with *args and **kargs.
LEMMA FormCallsKnown ==
  FormCalls => KnownCall
<1>1. ASSUME NEW o, Invoke(FALSE, FALSE, o), Neutral(o, glob, FALSE)
      PROVE  KnownCall
  BY <1>1 DEF KnownCall
<1> QED
  BY <1>1, FormsGiven, MethodNeutral
  DEF FormCalls, Overloads, robot_parallel_axis, robot_align_axis, robot_calc_coord,
      robot_set_user_cart_coord

\* The constructors of poses.
LEMMA ConstructorsKnown ==
  Constructors => KnownCall
BY NeutralKnown, RaisedNeutral DEF Constructors

\* The reference coordinate.
LEMMA RefCoordCallsKnown ==
  ASSUME DOMAIN glob = DOMAIN InitialSettings
  PROVE  RefCoordCalls => KnownCall
<1>1. "coord" \in DOMAIN glob
  BY DEF InitialSettings
<1>2. \A a \in Args([coord |-> ZERO], [coord |-> RefCoords]) :
        a.coord.ty = "int" => a.coord = PyInt(a.coord.n)
  <2>1. \A a \in Args([coord |-> ZERO], [coord |-> RefCoords]) : a.coord \in RefCoords \cup {ZERO}
    BY ArgsCases
  <2>2. ZERO = PyInt(ZERO.n)
    BY DEF ZERO, PyInt, PyValue
  <2> QED
    BY <2>1, <2>2, CoordsAssumption
<1>3. \A a \in Args([coord |-> ZERO], [coord |-> RefCoords]) :
        SetsCoord(set_ref_coord(glob, a), glob) /\ SetsCoord(robot_set_ref_coord(glob, a), glob)
  BY <1>1, <1>2, RefCoordSet
<1>4. [coord |-> ZERO] \in Args([coord |-> ZERO], [coord |-> RefCoords])
  BY DEF Args
<1> QED
  BY <1>3, <1>4 DEF RefCoordCalls, Calls, Function, KnownCall

\* The default velocities and accelerations.
LEMMA SettingCallsKnown ==
  ASSUME DOMAIN glob = DOMAIN InitialSettings
  PROVE  SettingCalls => KnownCall
BY SettersSet DEF SettingCalls, Function, KnownCall

\* Every step of the script is a call of which enough is known, or one of the
\* steps of a call that is under way.
LEMMA StepsKnown ==
  ASSUME DOMAIN glob = DOMAIN InitialSettings, Next
  PROVE  \/ KnownCall
         \/ ServicesUp
         \/ ServiceFound
         \/ \E success \in BOOLEAN : Execute(success)
         \/ OthersSetRef
         \/ \E reply \in Replies : Reply(reply)
         \/ Interrupt
         \/ Return
BY ModeCallsKnown, CheckCallsKnown, StateCallsKnown, RefCoordCallsKnown, PoseCallsKnown,
   KinematicsCallsKnown, BasePoseCallsKnown, SettingCallsKnown, JointMoveCallsKnown,
   TaskMoveCallsKnown, AxisMoveCallsKnown, AlterCallsKnown, MotionCallsKnown,
   StreamCallsKnown, RtConnectCallsKnown, RtCallsKnown, RtDataCallsKnown, FormCallsKnown,
   UserCoordCallsKnown, ConditionCallsKnown, ForceCallsKnown, ModbusCallsKnown,
   IoCallsKnown, DrlCallsKnown, ConfigCallsKnown, ConstructorsKnown
  DEF Next

-----------------------------------------------------------------------------
(* The invariant is kept *)

\* What is kept implies the property.
LEMMA KeptUsable == SettingsKept => SettingsUsable
BY DEF SettingsKept, SettingsUsable, Usable, JointUsable, TaskUsable, Above

\* A coordinate that is kept is an int.
LEMMA NameableInt == \A c : Nameable(c) => c.ty = "int"
BY DEF Nameable, PyInt, PyValue

\* Settings that differ in the coordinate are as usable.
LEMMA RecoordsUsable ==
  ASSUME NEW h, NEW g, DOMAIN g = DOMAIN InitialSettings, Recoords(h, g), Usable(g)
  PROVE  /\ Usable(h) /\ DOMAIN h = DOMAIN InitialSettings
         /\ Nameable(h.coord) /\ h.coord.ty = "int"
BY NameableInt DEF Recoords, Usable, InitialSettings

\* A neutral outcome and that of set_ref_coord change at most the coordinate.
LEMMA OutcomeRecoords ==
  ASSUME SettingsKept, NEW o, NEW dref, o.err = "ok",
         Neutral(o, glob, dref) \/ SetsCoord(o, glob)
  PROVE  Recoords(o.g, glob)
BY DEF SettingsKept, Neutral, SetsCoord, Recoords

\* A function that returns a status returns 0 for a success only.
LEMMA ZeroIsSuccess ==
  ASSUME NEW reply \in Replies, ReturnValue("status", reply) = "0"
  PROVE  reply = "success"
BY DEF Replies, ReturnValue

\* Away from "done" the coordinate stays shared while neither side changes it.
LEMMA SharedStill ==
  ASSUME CoordShared, pc # "done", pc' # "done", UNCHANGED << ctl, told >>, glob'.coord = glob.coord
  PROVE  CoordShared'
BY DEF CoordShared, Taken

\* So it does in a step that leaves the call alone.
LEMMA SharedSame ==
  ASSUME CoordShared, UNCHANGED << glob, ctl, told, pc, call >>
  PROVE  CoordShared'
<1>1. Taken' <=> Taken
  BY DEF Taken, SetsRef
<1>2. told' = told /\ glob' = glob /\ ctl' = ctl /\ call' = call
  OBVIOUS
<1> QED
  BY <1>1, <1>2 DEF CoordShared

\* The script starts in the invariant.
LEMMA InitInv == Init => ScriptInv
<1> SUFFICES ASSUME Init
             PROVE  ScriptInv
  OBVIOUS
<1>1. glob.coord.ty = "int" /\ ctl.ty = "foreign" /\ ~told
  BY DEF Init, InitialSettings, PyInt, PyValue, Foreign
<1>2. TypeOK
  BY <1>1 DEF Init, TypeOK, NoCall
<1>3. SettingsKept
  <2>1. 0 \in NamedCoords /\ 0 \in -128..127 /\ glob.coord = PyInt(0)
    BY DEF Init, InitialSettings, NamedCoords, DR_BASE
  <2>2. Nameable(glob.coord)
    BY <2>1 DEF Nameable
  <2>3. Usable(glob)
    BY DEF Init, Usable
  <2> QED
    BY <2>2, <2>3 DEF SettingsKept
<1> QED
  BY <1>1, <1>2, <1>3 DEF Init, ScriptInv, CoordShared, Taken, CallKnown, Underway

\* A call that raises leaves the settings alone.
LEMMA RaiseKeeps ==
  ASSUME ScriptInv, NEW plain, NEW dref, NEW o, pc = "idle", up, Raise(plain, dref, o)
  PROVE  ScriptInv'
<1>1. call'.kind = "open"
  BY DEF Raise, Open
<1>2. up' \in BOOLEAN
  BY DEF Raise
<1>3. TypeOK'
  BY <1>1, <1>2 DEF ScriptInv, TypeOK, Raise
<1>4. SettingsKept'
  BY DEF ScriptInv, SettingsKept, Raise
<1>5. CoordShared'
  BY SharedStill DEF ScriptInv, Raise
<1> QED
  BY <1>3, <1>4, <1>5 DEF ScriptInv, Raise, CallKnown, Underway

\* A setter assigns settings that are usable.
LEMMA SetKeeps ==
  ASSUME ScriptInv, NEW dref, NEW o, pc = "idle", Set(o),
         Neutral(o, glob, dref) \/ SetsSpeed(o, glob)
  PROVE  ScriptInv'
<1>1. DOMAIN o.g = DOMAIN glob /\ o.g.coord = glob.coord
  BY DEF Set, Neutral, SetsSpeed
<1>2. Usable(glob) /\ Nameable(glob.coord)
  BY DEF ScriptInv, SettingsKept
<1>3. Usable(o.g)
  BY <1>2 DEF Set, Neutral, SetsSpeed, Usable
<1>4. SettingsKept'
  BY <1>1, <1>2, <1>3 DEF SettingsKept, Set
<1>5. TypeOK'
  BY <1>1 DEF ScriptInv, TypeOK, Set
<1>6. CoordShared'
  BY <1>1, SharedStill DEF ScriptInv, Set
<1> QED
  BY <1>4, <1>5, <1>6 DEF ScriptInv, Set, CallKnown, Underway

\* A stream message is not answered.
LEMMA PublishedKeeps ==
  ASSUME ScriptInv, NEW o, pc = "idle", Published(o)
  PROVE  ScriptInv'
<1>1. call'.kind = "closed"
  BY DEF Published, Closed
<1>2. TypeOK'
  BY <1>1 DEF ScriptInv, TypeOK, Published
<1>3. SettingsKept'
  BY DEF ScriptInv, SettingsKept, Published
<1>4. CoordShared'
  BY SharedStill DEF ScriptInv, Published
<1> QED
  BY <1>2, <1>3, <1>4 DEF ScriptInv, Published, CallKnown, Underway

\* A call that is under way is remembered.
LEMMA OpenForm ==
  ASSUME NEW plain, NEW dref, NEW o
  PROVE  /\ Open(plain, dref, o).kind = "open"
         /\ Open(plain, dref, o).dref = dref
         /\ Open(plain, dref, o).o = o
BY DEF Open

\* A request that leaves, waits or is lost is one of which enough is known.
LEMMA SendKeeps ==
  ASSUME ScriptInv, NEW plain, NEW dref, NEW o, pc = "idle", up, Send(plain, dref, o),
         Neutral(o, glob, dref) \/ SetsCoord(o, glob)
  PROVE  ScriptInv'
<1>1. o.err = "ok" /\ UNCHANGED << glob, ctl, told, up, serving, root >>
  BY DEF Send
<1>2. Recoords(o.g, glob)
  BY <1>1, OutcomeRecoords DEF ScriptInv
<1>3. pc' \in {"waiting", "sent", "lost"} /\ \E x : call' = Open(plain, dref, x)
  BY Zenon DEF Send
<1>4. call'.kind = "open"
  BY <1>3, OpenForm
<1>5. TypeOK'
  BY <1>1, <1>3, <1>4 DEF ScriptInv, TypeOK
<1>6. SettingsKept'
  BY <1>1 DEF ScriptInv, SettingsKept
<1>7. CoordShared'
  BY <1>1, <1>3, SharedStill DEF ScriptInv
<1>8. CASE pc' \in {"waiting", "sent"}
  <2>1. call' = Open(plain, dref, o) /\ o.svc # ""
    BY <1>8 DEF Send
  <2>2. call'.o = o /\ call'.dref = dref
    <3>1. Open(plain, dref, o).o = o /\ Open(plain, dref, o).dref = dref
      BY OpenForm
    <3> QED
      BY <2>1, <3>1, Zenon
  <2>3. Neutral(call'.o, glob', call'.dref) \/ SetsCoord(call'.o, glob')
    BY <1>1, <2>2
  <2>4. /\ Recoords(call'.o.g, glob')
        /\ up' /\ call'.o.err = "ok" /\ call'.o.svc # ""
    BY <1>1, <1>2, <2>1, <2>2
  <2>5. CallKnown'
    BY <2>3, <2>4 DEF CallKnown
  <2> QED
    BY <1>5, <1>6, <1>7, <2>5 DEF ScriptInv
<1>9. CASE pc' = "lost"
  <2>1. call' = Open(plain, dref, [o EXCEPT !.svc = "", !.req = NoFields])
    BY <1>9, Zenon DEF Send
  <2>2. DOMAIN o = Fields
    BY DEF Neutral, SetsCoord
  <2>3. call'.o.g = o.g
    <3>1. call'.o = [o EXCEPT !.svc = "", !.req = NoFields]
      BY <2>1, OpenForm
    <3> QED
      BY <2>2, <3>1 DEF Fields
  <2>4. CallKnown'
    BY <1>1, <1>2, <1>9, <2>3 DEF CallKnown, Underway
  <2> QED
    BY <1>5, <1>6, <1>7, <2>4 DEF ScriptInv
<1> QED
  BY <1>3, <1>8, <1>9

\* A call of which enough is known keeps the invariant.
LEMMA KnownCallKeeps ==
  ASSUME ScriptInv, KnownCall
  PROVE  ScriptInv'
<1>1. PICK plain, dref, o :
        /\ Invoke(plain, dref, o)
        /\ Neutral(o, glob, dref) \/ SetsCoord(o, glob) \/ SetsSpeed(o, glob)
  BY DEF KnownCall
<1>2. pc = "idle" /\ up
  BY <1>1 DEF Invoke
<1>3. CASE Raise(plain, dref, o)
  BY <1>2, <1>3, RaiseKeeps
<1>4. CASE Set(o)
  <2>1. ~SetsCoord(o, glob)
    BY <1>4 DEF Set, SetsCoord
  <2> QED
    BY <1>1, <1>2, <1>4, <2>1, SetKeeps
<1>5. CASE Published(o)
  BY <1>2, <1>5, PublishedKeeps
<1>6. CASE Send(plain, dref, o)
  <2>1. ~SetsSpeed(o, glob)
    BY <1>6 DEF Send, SetsSpeed
  <2> QED
    BY <1>1, <1>2, <1>6, <2>1, SendKeeps
<1> QED
  BY <1>1, <1>3, <1>4, <1>5, <1>6 DEF Invoke

\* The services come up, and one that is waited for is found.
LEMMA ServicesKeep ==
  ASSUME ScriptInv, ServicesUp \/ ServiceFound
  PROVE  ScriptInv'
<1>1. UNCHANGED << glob, ctl, told, up, root, call >>
  BY DEF ServicesUp, ServiceFound
<1>2. pc' = pc \/ (pc = "waiting" /\ pc' = "sent")
  BY DEF ServicesUp, ServiceFound
<1>3. serving' \in {"coming", "up"}
  BY DEF ServicesUp, ServiceFound, ScriptInv, TypeOK
<1>4. TypeOK'
  BY <1>1, <1>2, <1>3 DEF ScriptInv, TypeOK
<1>5. SettingsKept'
  BY <1>1 DEF ScriptInv, SettingsKept
<1>6. CallKnown'
  BY <1>1, <1>2 DEF ScriptInv, CallKnown, Underway
<1>7. CoordShared'
  BY <1>1, <1>2, SharedStill, SharedSame DEF ScriptInv
<1> QED
  BY <1>4, <1>5, <1>6, <1>7 DEF ScriptInv

\* The controller does what it was asked, or refuses.
LEMMA ExecuteKeeps ==
  ASSUME ScriptInv, NEW success \in BOOLEAN, Execute(success)
  PROVE  ScriptInv'
<1>1. /\ pc = "sent" /\ pc' \in {"done", "denied"}
      /\ pc' = "done" => success
      /\ ctl' = IF SetsRef /\ success THEN call.o.req.coord ELSE ctl
      /\ UNCHANGED << glob, told, up, serving, root, call >>
  BY DEF Execute
<1>2. /\ Recoords(call.o.g, glob) /\ up
      /\ call.o.err = "ok" /\ call.o.svc # ""
      /\ Neutral(call.o, glob, call.dref) \/ SetsCoord(call.o, glob)
  BY <1>1 DEF ScriptInv, CallKnown, Underway
<1>3. SetsRef => call.o.req.coord.ty = "int"
  BY <1>2, NameableInt DEF SetsRef, Neutral, SetsCoord, Recoords
<1>4. TypeOK'
  BY <1>1, <1>3 DEF ScriptInv, TypeOK
<1>5. SettingsKept'
  BY <1>1 DEF ScriptInv, SettingsKept
<1>6. CallKnown'
  BY <1>1, <1>2 DEF CallKnown, Underway
<1>7. CoordShared'
  <2>1. told => glob.coord = ctl
    BY <1>1 DEF ScriptInv, CoordShared, Taken
  <2>2. SetsRef' <=> SetsRef
    BY <1>1 DEF SetsRef
  <2> QED
    BY <1>1, <2>1, <2>2 DEF CoordShared, Taken, Execute
<1> QED
  BY <1>4, <1>5, <1>6, <1>7 DEF ScriptInv

\* Someone else sets the coordinate.
LEMMA OthersKeep ==
  ASSUME ScriptInv, OthersSetRef
  PROVE  ScriptInv'
<1>1. ctl' = Foreign /\ told' = FALSE /\ UNCHANGED << glob, up, serving, root, pc, call >>
  BY DEF OthersSetRef
<1>2. ctl'.ty = "foreign"
  BY <1>1 DEF Foreign
<1>3. TypeOK'
  BY <1>1, <1>2 DEF ScriptInv, TypeOK
<1>4. SettingsKept' /\ CoordShared'
  BY <1>1 DEF ScriptInv, SettingsKept, CoordShared
<1>5. CallKnown'
  BY <1>1 DEF ScriptInv, CallKnown, Underway
<1> QED
  BY <1>3, <1>4, <1>5 DEF ScriptInv

\* An answer arrives: the script assigns the coordinate, and is told of it only
\* when the controller has taken it.
LEMMA ReplyKeeps ==
  ASSUME ScriptInv, NEW reply \in Replies, Reply(reply)
  PROVE  ScriptInv'
<1> DEFINE o == call.o
<1>1. /\ pc \in {"sent", "done", "denied"} /\ pc' = "back" /\ glob' = o.g
      /\ reply = "success" => pc = "done"
      /\ UNCHANGED << ctl, up, serving, root >>
  BY DEF Reply
<1>2. o.err = "ok" /\ up /\ Recoords(o.g, glob)
  BY <1>1 DEF ScriptInv, CallKnown, Underway
<1>3. Neutral(o, glob, call.dref) \/ SetsCoord(o, glob)
  BY <1>1 DEF ScriptInv, CallKnown, Underway
<1>4. call'.kind = "closed"
  BY DEF Reply, Closed
<1>5. /\ Usable(o.g) /\ DOMAIN o.g = DOMAIN InitialSettings
      /\ Nameable(o.g.coord) /\ o.g.coord.ty = "int"
  BY <1>2, RecoordsUsable DEF ScriptInv, SettingsKept, TypeOK
<1>6. SettingsKept'
  BY <1>1, <1>5 DEF SettingsKept
<1>7. told' = IF SetsRef THEN ReturnValue(o.answer, reply) = "0" /\ ctl # Foreign ELSE told
  BY DEF Reply
<1>8. told' \in BOOLEAN
  BY <1>7 DEF ScriptInv, TypeOK
<1>9. told' => glob'.coord = ctl'
  <2>1. CASE Neutral(o, glob, call.dref)
    <3>1. o.g = glob /\ ~SetsRef
      BY <2>1 DEF Neutral, SetsRef
    <3> QED
      BY <1>1, <1>7, <3>1 DEF ScriptInv, CoordShared, Taken
  <2>2. CASE SetsCoord(o, glob)
    <3>1. SetsRef /\ o.req.coord = o.g.coord /\ o.answer = "status"
      BY <1>2, <2>2 DEF SetsCoord, SetsRef
    <3> SUFFICES ASSUME told'
                 PROVE  glob'.coord = ctl'
      OBVIOUS
    <3>2. ReturnValue("status", reply) = "0" /\ ctl # Foreign
      BY <1>7, <3>1
    <3>3. pc = "done"
      BY <1>1, <3>2, ZeroIsSuccess
    <3> QED
      BY <1>1, <3>1, <3>2, <3>3 DEF ScriptInv, CoordShared, Taken
  <2> QED
    BY <1>3, <2>1, <2>2
<1>10. TypeOK'
  BY <1>1, <1>4, <1>5, <1>8 DEF ScriptInv, TypeOK
<1>11. CallKnown' /\ CoordShared'
  BY <1>1, <1>9 DEF CallKnown, Underway, CoordShared, Taken
<1> QED
  BY <1>6, <1>10, <1>11 DEF ScriptInv

\* SIGTERM ends the call; the context is gone, so no request follows.
LEMMA InterruptKeeps ==
  ASSUME ScriptInv, Interrupt
  PROVE  ScriptInv'
<1>1. /\ Underway \/ pc = "lost"
      /\ pc' = "back" /\ up' = FALSE /\ told' = FALSE
      /\ UNCHANGED << ctl, serving, root >>
  BY DEF Interrupt, Underway
<1>2. call'.kind = "closed"
  BY DEF Interrupt, Closed
<1>3. /\ Recoords(call.o.g, glob) /\ DOMAIN glob = DOMAIN InitialSettings
      /\ Usable(glob) /\ Nameable(glob.coord)
  BY <1>1 DEF ScriptInv, SettingsKept, TypeOK, CallKnown
<1>4. /\ Usable(call.o.g) /\ DOMAIN call.o.g = DOMAIN InitialSettings
      /\ Nameable(call.o.g.coord) /\ call.o.g.coord.ty = "int"
  BY <1>3, RecoordsUsable
<1>5. glob' = glob \/ glob' = call.o.g
  BY DEF Interrupt
<1>6. SettingsKept'
  BY <1>3, <1>4, <1>5 DEF SettingsKept
<1>7. TypeOK'
  BY <1>1, <1>2, <1>4, <1>5 DEF ScriptInv, TypeOK
<1>8. CallKnown' /\ CoordShared'
  BY <1>1 DEF CallKnown, Underway, CoordShared, Taken
<1> QED
  BY <1>6, <1>7, <1>8 DEF ScriptInv

\* The script goes on.
LEMMA ReturnKeeps ==
  ASSUME ScriptInv, Return
  PROVE  ScriptInv'
<1>1. call'.kind = "none"
  BY DEF Return, NoCall
<1>2. TypeOK'
  BY <1>1 DEF ScriptInv, TypeOK, Return
<1>3. SettingsKept'
  BY DEF ScriptInv, SettingsKept, Return
<1> QED
  BY <1>2, <1>3 DEF ScriptInv, Return, CoordShared, Taken, CallKnown, Underway

\* ScriptInv is inductive.
LEMMA Invariance == Spec => []ScriptInv
<1>1. ScriptInv /\ [Next]_vars => ScriptInv'
  <2> SUFFICES ASSUME ScriptInv, [Next]_vars
               PROVE  ScriptInv'
    OBVIOUS
  <2>1. CASE Next
    <3>1. DOMAIN glob = DOMAIN InitialSettings
      BY DEF ScriptInv, TypeOK
    <3> QED
      BY <2>1, <3>1, StepsKnown, KnownCallKeeps, ServicesKeep, ExecuteKeeps, OthersKeep,
         ReplyKeeps, InterruptKeeps, ReturnKeeps
  <2>2. CASE UNCHANGED vars
    <3>1. UNCHANGED << glob, ctl, told, up, serving, root, pc, call >>
      BY <2>2 DEF vars
    <3>2. SettingsKept'
      BY <3>1 DEF ScriptInv, SettingsKept
    <3>3. CoordShared'
      BY <3>1, SharedSame DEF ScriptInv
    <3> QED
      BY <3>1, <3>2, <3>3, ZenonT(60) DEF ScriptInv, TypeOK, CallKnown, Underway
  <2> QED
    BY <2>1, <2>2
<1> QED
  BY <1>1, InitInv, PTL DEF Spec

-----------------------------------------------------------------------------
(* The results *)

\* A call is remembered exactly while it is under way or its result is at hand,
\* and the settings always have their five entries with an integer coordinate,
\* whatever a script calls and however the call ends.
THEOREM ScriptTyped == Spec => []TypeOK
<1>1. ScriptInv => TypeOK
  BY DEF ScriptInv
<1> QED
  BY <1>1, Invariance, PTL

\* set_velj, set_accj, set_velx and set_accx keep only what the motion functions
\* can read, whatever values a script gives them: a list with one bad item is
\* refused before anything is assigned.
THEOREM SettingsStayUsable == Spec => []SettingsUsable
<1>1. ScriptInv => SettingsUsable
  BY KeptUsable DEF ScriptInv
<1> QED
  BY <1>1, Invariance, PTL

\* Once set_ref_coord has returned 0, a request whose coordinate was left to its
\* default names the coordinate in force at the controller until someone else sets
\* it: for every function of the module and method of a robot object, every order
\* of calls, and every moment at which the controller acts, answers or refuses.
THEOREM DefaultRefAgrees == Spec => []DefaultRefIsControllers
<1>1. ASSUME ScriptInv, Underway, call.dref, "ref" \in DOMAIN call.o.req,
             call.o.svc \notin FixedDefault, told
      PROVE  call.o.req.ref = ctl \/ AsksInTool(call.o)
  <2>1. call.o.err = "ok" /\ (Neutral(call.o, glob, call.dref) \/ SetsCoord(call.o, glob))
    BY <1>1 DEF ScriptInv, CallKnown
  <2>2. Neutral(call.o, glob, call.dref)
    BY <1>1, <2>1 DEF SetsCoord
  <2>3. call.o.req.ref = glob.coord \/ AsksInTool(call.o)
    BY <1>1, <2>1, <2>2 DEF Neutral
  <2>4. glob.coord = ctl
    BY <1>1, <2>2 DEF ScriptInv, CoordShared, Taken, SetsRef, Neutral
  <2> QED
    BY <2>3, <2>4
<1>2. ScriptInv => DefaultRefIsControllers
  BY <1>1 DEF DefaultRefIsControllers, AsksInTool
<1> QED
  BY <1>2, Invariance, PTL
=============================================================================
