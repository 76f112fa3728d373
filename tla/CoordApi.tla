------------------------------ MODULE CoordApi ------------------------------
(***************************************************************************)
(* Coordinates, poses, forces and conditions of DSR_ROBOT2.py: the default  *)
(* reference coordinate, the functions that read a pose in a coordinate,    *)
(* kinematics, user coordinates, compliance and force control.              *)
(* Conventions as in MotionApi.                                             *)
(***************************************************************************)
EXTENDS MotionApi

BaseOrWorld == {DR_BASE, DR_WORLD}
NamedCoords == {DR_BASE, DR_TOOL, DR_WORLD} \cup UserCoords

\* if _ref != DR_BASE and _ref != DR_WORLD: raise VALUE, without a type check
EqualsOneOf(v, S) == ValueIf(~(IsNum(v) /\ v.n \in S))

\* _g_coord is assigned last, whatever the service answered.
set_ref_coord(g, a) ==
  LET o == Call(IntIn(a.coord, NamedCoords), g, "set_ref_coord", "status",
                [coord |-> AsInt8(a.coord)])
  IN  IF o.err = "ok" THEN [o EXCEPT !.g.coord = a.coord] ELSE o

-----------------------------------------------------------------------------
(* Poses and kinematics *)

PoseIn(g, ref, err, svc, answer) == Call(err, g, svc, answer, [ref |-> AsInt8(ref)])

get_current_posx(g, a) ==
  LET ref == Coord(a.ref, g.coord)
  IN  PoseIn(g, ref, IntIn(ref, BaseOrWorld \cup UserCoords), "get_current_posx", "pair")

get_desired_posx(g, a) ==
  LET ref == Coord(a.ref, g.coord)
  IN  PoseIn(g, ref, IntIn(ref, NamedCoords), "get_desired_posx", "value")

InBaseOrWorld(g, a, svc) ==
  LET ref == Coord(a.ref, PyInt(DR_BASE))
  IN  PoseIn(g, ref, EqualsOneOf(ref, BaseOrWorld), svc, "value")

get_current_tool_flange_posx(g, a) == InBaseOrWorld(g, a, "get_current_tool_flange_posx")
get_current_velx(g, a) == InBaseOrWorld(g, a, "get_current_velx")
get_desired_velx(g, a) == InBaseOrWorld(g, a, "get_desired_velx")
get_current_rotm(g, a) == InBaseOrWorld(g, a, "get_current_rotm")

get_tool_force(g, a) ==
  LET ref == Coord(a.ref, PyInt(DR_BASE))
  IN  PoseIn(g, ref, EqualsOneOf(ref, {DR_BASE, DR_TOOL, DR_WORLD}), "get_tool_force", "read")

get_current_solution_space(g, a) == Getter(g, "get_current_solution_space")

get_solution_space(g, a) ==
  Call(get_posj(a.pos), g, "get_solution_space", "value", [pos |-> AsFloat64s(6, Floats(a.pos))])

get_orientation_error(g, a) ==
  Call(get_posx(a.xd) ++ get_posx(a.xc) ++ IntIn(a.axis, DR_AXIS_XYZ \cup DR_AXIS_ABC),
    g, "get_orientation_error", "value",
    [xd |-> AsFloat64s(6, Floats(a.xd)), xc |-> AsFloat64s(6, Floats(a.xc)), axis |-> AsInt8(a.axis)])

trans(g, a) ==
  LET ref == Coord(a.ref, g.coord)
  IN  Call(get_posx(a.pos) ++ get_posx(a.delta) ++ IntIn(ref, NamedCoords)
           ++ IntIn(a.ref_out, BaseOrWorld \cup UserCoords),
    g, "trans", "value",
    [pos |-> AsFloat64s(6, Floats(a.pos)), delta |-> AsFloat64s(6, Floats(a.delta)),
     ref |-> AsInt8(ref), ref_out |-> AsInt8(a.ref_out)])

fkin(g, a) ==
  LET ref == Coord(a.ref, PyInt(DR_BASE))
  IN  Call(get_posj(a.pos) ++ EqualsOneOf(ref, BaseOrWorld), g, "fkin", "value",
    [pos |-> AsFloat64s(6, Floats(a.pos)), ref |-> AsInt8(ref)])

ikin(g, a) ==
  LET ref == Coord(a.ref, PyInt(DR_BASE))
  IN  Call(get_posx(a.pos) ++ EqualsOneOf(ref, BaseOrWorld) ++ IntIn(a.sol_space, DR_SOLS),
    g, "ikin", "value",
    [pos |-> AsFloat64s(6, Floats(a.pos)), sol_space |-> AsInt8(a.sol_space), ref |-> AsInt8(ref)])

coord_transform(g, a) ==
  Call(get_normal_pos(a.pose_in) ++ TypeIf(a.ref_in.ty # "int") ++ TypeIf(a.ref_out.ty # "int"),
    g, "coord_transform", "value",
    [pos_in |-> AsFloat64s(6, Floats(a.pose_in)), ref_in |-> AsInt8(a.ref_in),
     ref_out |-> AsInt8(a.ref_out)])

-----------------------------------------------------------------------------
(* Functions declared with *args and **kargs: the numbers of positional and *)
(* keyword arguments choose a form, which says which names the positional   *)
(* ones stand for.  a.args is their sequence, a.kargs maps names to values. *)

\* Chosen when every name of has was given by keyword and none of hasnt was.
Form(nargs, nkargs, names, has, hasnt, nType) ==
  [nargs |-> nargs, nkargs |-> nkargs, names |-> names, has |-> has, hasnt |-> hasnt,
   nType |-> nType]

get_kargs(kargs, name) == IF name \in DOMAIN kargs THEN kargs[name] ELSE None

Chosen(forms, a) ==
  {f \in forms : /\ f.nargs = Len(a.args)
                 /\ f.nkargs = Cardinality(DOMAIN a.kargs)
                 /\ \A x \in f.has : get_kargs(a.kargs, x) # None
                 /\ \A x \in f.hasnt : get_kargs(a.kargs, x) = None}

\* The value of one name: a positional argument, or else the keyword's.
Bound(f, a, name) ==
  LET at == {i \in DOMAIN f.names : f.names[i] = name}
  IN  IF at = {} THEN get_kargs(a.kargs, name) ELSE a.args[CHOOSE i \in at : TRUE]

X123 == << "x1", "x2", "x3" >>
x123 == {"x1", "x2", "x3"}

parallel_axis_forms ==
  { Form(0, 2, << >>, {"vect", "axis"}, {}, 0),
    Form(0, 3, << >>, {"vect", "axis", "ref"}, {}, 3),
    Form(0, 4, << >>, x123 \cup {"axis"}, {}, 0),
    Form(0, 5, << >>, x123 \cup {"axis", "ref"}, {}, 2),
    Form(1, 1, << "vect" >>, {"axis"}, {}, 0),
    Form(2, 1, << "vect", "axis" >>, {}, {}, 3),
    Form(2, 0, << "vect", "axis" >>, {}, {}, 0),
    Form(3, 0, << "vect", "axis", "ref" >>, {}, {}, 3),
    Form(3, 1, X123, {"axis"}, {}, 0),
    Form(4, 1, X123 \o << "axis" >>, {}, {}, 2),
    Form(4, 0, X123 \o << "axis" >>, {}, {}, 0),
    Form(5, 0, X123 \o << "axis", "ref" >>, {}, {}, 2) }

\* x1, x2 and x3, or the vector
PosesOrVector(x1, x2, x3, vect) ==
  IF x1 # None THEN get_posx(x1) ++ get_posx(x2) ++ get_posx(x3)
  ELSE TypeIf(vect.ty # "list") ++ ValueIf(Len(vect.s) # 3)

\* The form with a vector and no reference assigns names that do not exist.
parallel_axis(g, a) ==
  IF DOMAIN a.kargs \ (x123 \cup {"vect", "axis", "ref"}) # {} \/ Chosen(parallel_axis_forms, a) = {}
  THEN Raised("TYPE", g)
  ELSE LET f     == CHOOSE f \in Chosen(parallel_axis_forms, a) : TRUE
           V(x)  == Bound(f, a, x)
           ref   == IF f.nType = 0 THEN PyInt(DR_BASE) ELSE V("ref")
           poses == f.nType = 2 \/ (f.nType = 0 /\ V("x1") # None)
       IN Call(PosesOrVector(V("x1"), V("x2"), V("x3"), V("vect")) ++ IntIn(V("axis"), DR_AXIS_XYZ)
               ++ EqualsOneOf(ref, BaseOrWorld) ++ PyIf(f.nType = 0 /\ ~poses),
            g, IF poses THEN "parallel_axis1" ELSE "parallel_axis2", "status",
            IF poses
            THEN [x1 |-> AsFloat64s(6, Floats(V("x1"))), x2 |-> AsFloat64s(6, Floats(V("x2"))),
                  x3 |-> AsFloat64s(6, Floats(V("x3"))), axis |-> AsInt8(V("axis")), ref |-> AsInt8(ref)]
            ELSE [vect |-> AsFloat64s(3, Floats(V("vect"))), axis |-> AsInt8(V("axis")),
                  ref |-> AsInt8(ref)])

align_axis_forms ==
  { Form(0, 3, << >>, {"vect", "pos", "axis"}, {}, 0),
    Form(0, 5, << >>, x123 \cup {"pos", "axis"}, {}, 0),
    Form(0, 6, << >>, x123 \cup {"pos", "axis", "ref"}, {}, 2),
    Form(0, 4, << >>, {"vect", "pos", "axis", "ref"}, {}, 3),
    Form(1, 2, << "vect" >>, {"pos", "axis"}, {}, 0),
    Form(2, 1, << "vect", "pos" >>, {"axis"}, {}, 0),
    Form(3, 0, << "vect", "pos", "axis" >>, {}, {}, 0),
    Form(3, 1, << "vect", "pos", "axis" >>, {}, {}, 3),
    Form(3, 2, X123, {"pos", "axis"}, {}, 0),
    Form(4, 0, << "vect", "pos", "axis", "ref" >>, {}, {}, 3),
    Form(4, 1, X123 \o << "pos" >>, {"axis"}, {}, 0),
    Form(5, 0, X123 \o << "pos", "axis" >>, {}, {}, 0),
    Form(5, 1, X123 \o << "pos", "axis" >>, {}, {}, 2),
    Form(6, 0, X123 \o << "pos", "axis", "ref" >>, {}, {}, 2) }
  \cup {Form(5, n, << >>, {}, {}, 0) : n \in 2..7}

\* Every form assigns req.pos, a field neither request has: nothing is ever sent.
align_axis(g, a) ==
  IF DOMAIN a.kargs \ (x123 \cup {"vect", "pos", "axis", "ref"}) # {} \/ Chosen(align_axis_forms, a) = {}
  THEN Raised("TYPE", g)
  ELSE LET f    == CHOOSE f \in Chosen(align_axis_forms, a) : TRUE
           V(x) == Bound(f, a, x)
       IN Raised(PosesOrVector(V("x1"), V("x2"), V("x3"), V("vect")) ++ get_posx(V("pos"))
                 ++ IntIn(V("axis"), DR_AXIS_XYZ)
                 ++ (IF f.nType = 0 THEN "ok" ELSE EqualsOneOf(V("ref"), BaseOrWorld)) ++ "PY", g)

\* The number of poses is the form's nType.
calc_coord_forms ==
  LET xs(n) == SubSeq(<< "x1", "x2", "x3", "x4" >>, 1, n)
  IN  UNION {{ Form(0, n + 2, << >>, {}, {}, n), Form(n, 2, xs(n), {}, {}, n),
               Form(n + 2, 0, xs(n) \o << "ref", "mod" >>, {}, {}, n) } : n \in 1..4}

calc_coord(g, a) ==
  IF DOMAIN a.kargs \ (x123 \cup {"x4", "ref", "mod"}) # {} \/ Chosen(calc_coord_forms, a) = {}
  THEN Raised("TYPE", g)
  ELSE LET f    == CHOOSE f \in Chosen(calc_coord_forms, a) : TRUE
           V(x) == Bound(f, a, x)
           \* a pose that was not given is six zeros
           X(x) == IF \A i \in DOMAIN f.names : f.names[i] # x
                   THEN Coord(V(x), List(Times(6, PyFloat(0)))) ELSE V(x)
           Given(v, check) == IF v = None THEN "ok" ELSE check
       IN Call(Given(X("x1"), get_posx(X("x1"))) ++ Given(X("x2"), get_posx(X("x2")))
               ++ Given(X("x3"), get_posx(X("x3"))) ++ Given(X("x4"), get_posx(X("x4")))
               ++ Given(V("ref"), EqualsOneOf(V("ref"), BaseOrWorld))
               ++ Given(V("mod"), EqualsOneOf(V("mod"), {0, 1})),
            g, "calc_coord", "value",
            [input_pos_cnt |-> PyInt(f.nType),
             x1 |-> AsFloat64s(6, Floats(X("x1"))), x2 |-> AsFloat64s(6, Floats(X("x2"))),
             x3 |-> AsFloat64s(6, Floats(X("x3"))), x4 |-> AsFloat64s(6, Floats(X("x4"))),
             ref |-> AsInt8(V("ref")), mod |-> AsInt8(V("mod"))])

-----------------------------------------------------------------------------
(* User coordinates *)

set_user_cart_coord_forms ==
  { Form(0, 2, << >>, {}, {}, 5),
    Form(1, 1, << "pos" >>, {}, {}, 5),
    Form(2, 0, << "pos", "ref" >>, {}, {}, 5),
    Form(0, 5, << >>, x123 \cup {"pos", "ref"}, {}, 3),
    Form(0, 4, << >>, {"ref"}, {}, 4),
    Form(0, 4, << >>, x123 \cup {"pos"}, {"ref"}, 0),
    Form(0, 3, << >>, {"u1", "v1", "pos"}, {}, 1),
    Form(0, 3, << >>, x123, {"u1"}, 2),
    Form(1, 3, << "pos" >>, x123, {}, 0),
    Form(1, 2, << "pos" >>, {"u1", "v1"}, {}, 1),
    Form(2, 1, << "u1", "v1" >>, {}, {"pos"}, 1),
    Form(3, 1, << "u1", "v1", "pos" >>, {"ref"}, {}, 4),
    Form(3, 1, X123, {}, {"ref", "pos"}, 0),
    Form(3, 0, << "u1", "v1", "pos" >>, {}, {}, 1),
    Form(3, 0, X123, {}, {}, 2),
    Form(4, 0, X123 \o << "pos" >>, {}, {}, 0),
    Form(4, 1, X123 \o << "pos" >>, {}, {}, 3),
    Form(5, 0, X123 \o << "pos", "ref" >>, {}, {}, 0) }

\* Three positional arguments: the length of the first one tells two vectors
\* and a pose from three poses.
CartCoordForm(a) ==
  {f \in Chosen(set_user_cart_coord_forms, a) :
     f.nargs = 3 /\ f.nkargs = 0 => Len(a.args[1].s) = IF f.nType = 1 THEN 3 ELSE 6}

UnsizedFirst(a) == Len(a.args) = 3 /\ DOMAIN a.kargs = {} /\ ~IsSeq(a.args[1]) /\ a.args[1] # Str

\* nType 0 and 1 replace the reference by DR_BASE, also when five positional
\* arguments gave one; nType 2 does nothing and returns an unbound variable.
set_user_cart_coord(g, a) ==
  IF DOMAIN a.kargs \ (x123 \cup {"pos", "u1", "v1", "ref"}) # {} THEN Raised("TYPE", g)
  ELSE IF UnsizedFirst(a) THEN Raised("PY", g)
  ELSE IF CartCoordForm(a) = {} THEN Raised("TYPE", g)
  ELSE LET f    == CHOOSE f \in CartCoordForm(a) : TRUE
           V(x) == Bound(f, a, x)
           ref  == IF f.nType \in {0, 1} THEN PyInt(DR_BASE) ELSE V("ref")
           IfPose(v)   == IF v = None THEN "ok" ELSE get_posx(v)
           IfVector(v) == IF v = None THEN "ok"
                          ELSE TypeIf(v.ty # "list") ++ ValueIf(Len(v.s) # 3)
           pos  == AsFloat64s(6, Floats(V("pos")))
       IN Call(IfPose(V("x1")) ++ IfPose(V("x2")) ++ IfPose(V("x3")) ++ IfPose(V("pos"))
               ++ IfVector(V("u1")) ++ IfVector(V("v1"))
               ++ PyIf(f.nType = 2) ++ EqualsOneOf(ref, BaseOrWorld),
            g, CASE f.nType \in {0, 3} -> "set_user_cart_coord2"
                 [] f.nType \in {1, 4} -> "set_user_cart_coord3"
                 [] OTHER -> "set_user_cart_coord1",
            "value",
            CASE f.nType \in {0, 3} ->
                 [x1 |-> AsFloat64s(6, Floats(V("x1"))), x2 |-> AsFloat64s(6, Floats(V("x2"))),
                  x3 |-> AsFloat64s(6, Floats(V("x3"))), pos |-> pos, ref |-> AsInt8(ref)]
              [] f.nType \in {1, 4} ->
                 [u1 |-> AsFloat64s(3, Floats(V("u1"))), v1 |-> AsFloat64s(3, Floats(V("v1"))),
                  pos |-> pos, ref |-> AsInt8(ref)]
              [] OTHER -> [pos |-> pos, ref |-> AsInt8(ref)])

overwrite_user_cart_coord(g, a) ==
  LET ref == Coord(a.ref, PyInt(DR_BASE))
  IN  Call(get_posx(a.pos) ++ EqualsOneOf(ref, BaseOrWorld), g, "overwrite_user_cart_coord", "value",
    [id |-> AsInt8(a.id), pos |-> AsFloat64s(6, Floats(a.pos)), ref |-> AsInt8(ref)])

get_user_cart_coord(g, a) ==
  Call("ok", g, "get_user_cart_coord", "zero", [id |-> AsInt8(a.id)])

-----------------------------------------------------------------------------
(* Compliance, force and the conditions a script polls *)

\* -1 stands for the motion's default; more than a second is cut to one
ShortTime(t) == NumberNot(t, LAMBDA n : n # -1 /\ n < 0)
Capped(t)    == AsFloat64(PyFloat(IF t.n > 1 THEN 1 ELSE t.n))

SixOrType(v) == TypeIf(~IsList(6, v)) ++ is_number(v, "VALUE")

Stiffness(g, a, svc) ==
  Call(SixOrType(a.stx) ++ ShortTime(a.time), g, svc, "status",
    [stx |-> AsFloat64s(6, Floats(a.stx)), ref |-> AsInt8(g.coord), time |-> Capped(a.time)])

task_compliance_ctrl(g, a) == Stiffness(g, a, "task_compliance_ctrl")
set_stiffnessx(g, a)       == Stiffness(g, a, "set_stiffnessx")

release_compliance_ctrl(g, a) == Call("ok", g, "release_compliance_ctrl", "status", NoFields)

\* dir is not converted: the field wants six integers
set_desired_force(g, a) ==
  Call(SixOrType(a.fd) ++ SixOrType(a.dir) ++ ShortTime(a.time) ++ TypeIf(a.mod.ty # "int"),
    g, "set_desired_force", "status",
    [fd |-> AsFloat64s(6, Floats(a.fd)), dir |-> AsInt8s(6, a.dir), ref |-> AsInt8(g.coord),
     time |-> Capped(a.time), mod |-> AsInt8(a.mod)])

release_force(g, a) ==
  Call(ShortTime(a.time), g, "release_force", "status", [time |-> Capped(a.time)])

is_done_bolt_tightening(g, a) ==
  Call(Number(a.m) ++ NumberNot(a.timeout, Negative) ++ IntIn(a.axis, DR_AXIS_XYZ),
    g, "is_done_bolt_tightening", "status",
    [m |-> AsFloat64(ToFloat(a.m)), timeout |-> AsFloat64(ToFloat(a.timeout)), axis |-> AsInt8(a.axis)])

\* At least one limit, and in order when both are there
Bounds(min, max) ==
  ValueIf(min.n = DR_COND_NONE /\ max.n = DR_COND_NONE)
  ++ ValueIf(min.n # DR_COND_NONE /\ max.n # DR_COND_NONE /\ min.n > max.n)

check_position_condition(g, a) ==
  LET ref == Coord(a.ref, g.coord)
      pos == Coord(a.pos, List(Times(6, PyFloat(0))))
  IN  Call(IntIn(a.axis, DR_AXIS_XYZ) ++ Number(a.min) ++ Number(a.max) ++ Bounds(a.min, a.max)
           ++ IntIn(ref, AnyCoord) ++ IntIn(a.mod, DR_MV_MODS)
           ++ ValueIf(a.mod.n = 1 /\ a.pos = None) ++ get_normal_pos(pos),
    g, "check_position_condition", "status",
    [axis |-> AsInt8(a.axis), min |-> AsFloat64(ToFloat(a.min)), max |-> AsFloat64(ToFloat(a.max)),
     ref |-> AsInt8(ref), mode |-> AsInt8(a.mod), pos |-> AsFloat64s(6, Floats(pos))])

check_force_condition_limits(g, a, extra) ==
  LET ref == Coord(a.ref, g.coord)
  IN  Call(IntIn(a.axis, DR_AXIS_XYZ \cup DR_AXIS_ABC) ++ Number(a.min) ++ Number(a.max)
           ++ ValueIf(a.min.n = DR_COND_NONE /\ a.max.n = DR_COND_NONE) ++ extra
           ++ Bounds(a.min, a.max) ++ IntIn(ref, AnyCoord),
    g, "check_force_condition", "status",
    [axis |-> AsInt8(a.axis), min |-> AsFloat64(ToFloat(a.min)), max |-> AsFloat64(ToFloat(a.max)),
     ref |-> IF a.axis.n \in DR_AXIS_ABC THEN PyInt(DR_TOOL) ELSE AsInt8(ref)])

check_force_condition(g, a) == check_force_condition_limits(g, a, "ok")

\* The last limit that was given decides between poses and angles.
OrientationByPose(a) == ~IsNum(IF a.max # None THEN a.max ELSE a.min)

LimitType(v) ==
  TypeIf(v # None /\ ~(v.ty = "posx" \/ IsList(POINT_COUNT, v) \/ IsNum(v)))

check_orientation_condition1(g, a) ==
  LET ref == Coord(a.ref, g.coord)
      mod == Coord(a.mod, PyInt(0))
      Limit(v)   == IF v = None THEN List(Times(6, PyInt(DR_COND_NONE))) ELSE v
      LimitOk(v) == IF v = None THEN "ok" ELSE get_normal_pos(v)
  IN  Call(LimitOk(a.min) ++ LimitOk(a.max) ++ IntIn(ref, AnyCoord) ++ IntIn(mod, {0}),
    g, "check_orientation_condition1", "status",
    [axis |-> AsInt8(a.axis), min |-> AsFloat64s(6, Floats(Limit(a.min))),
     max |-> AsFloat64s(6, Floats(Limit(a.max))), ref |-> AsInt8(ref), mode |-> AsInt8(mod)])

check_orientation_condition2(g, a) ==
  LET ref == Coord(a.ref, g.coord)
      mod == Coord(a.mod, PyInt(1))
      min == Coord(a.min, PyInt(DR_COND_NONE))
      max == Coord(a.max, PyInt(DR_COND_NONE))
  IN  Call(Number(min) ++ Number(max) ++ Bounds(min, max) ++ IntIn(ref, AnyCoord) ++ IntIn(mod, {1})
           ++ ValueIf(a.pos = None) ++ get_normal_pos(a.pos),
    g, "check_orientation_condition2", "status",
    [axis |-> AsInt8(a.axis), min |-> AsFloat64(ToFloat(min)), max |-> AsFloat64(ToFloat(max)),
     ref |-> AsInt8(ref), mode |-> AsInt8(mod), pos |-> AsFloat64s(6, Floats(a.pos))])

check_orientation_condition(g, a) ==
  LET e == IntIn(a.axis, DR_AXIS_ABC) ++ LimitType(a.min) ++ LimitType(a.max)
  IN  IF e # "ok" THEN Raised(e, g)
      ELSE IF OrientationByPose(a) THEN check_orientation_condition1(g, a)
      ELSE check_orientation_condition2(g, a)
=============================================================================
