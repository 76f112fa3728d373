------------------------------ MODULE DrCommon ------------------------------
(***************************************************************************)
(* What the Python API shares: the values a script passes, the helpers of  *)
(* DR_common2.py, the exception of DR_error2.py, and the fields of a ROS 2  *)
(* request, whose setters refuse a value of another type.                   *)
(*                                                                          *)
(* A Python value is a record: its type, its number (a scalar's value) and  *)
(* its items (a list's values).  A float holds whole numbers only: no check *)
(* of the API tells 0.5 from 1.  A string is always one that is no number.  *)
(*                                                                          *)
(* A check of the API is a verdict: "ok", "TYPE" or "VALUE" (the DR_Error   *)
(* raised), or "PY" (an exception of Python itself).  Checks are chained    *)
(* with ++ : the first one that fails is the one the script sees.           *)
(***************************************************************************)
EXTENDS Integers, Sequences, FiniteSets

PyValue(ty, n, s) == [ty |-> ty, n |-> n, s |-> s]

None     == PyValue("NoneType", 0, << >>)
Str      == PyValue("str", 0, << >>)
PyInt(n)   == PyValue("int", n, << >>)
PyFloat(n) == PyValue("float", n, << >>)
List(s)  == PyValue("list", 0, s)

\* [v] * k
Times(k, v) == [i \in 1..k |-> v]

IsNum(v)     == v.ty \in {"int", "float"}
IsSeq(v)     == v.ty \in {"list", "posj", "posx"}
IsList(k, v) == v.ty = "list" /\ Len(v.s) = k

POINT_COUNT    == 6
DR_COND_NONE   == -10000
DR_BASE        == 0
DR_TOOL        == 1
DR_WORLD       == 2
DR_TC_USER_MIN == 101
DR_TC_USER_MAX == 200
UserCoords     == DR_TC_USER_MIN..DR_TC_USER_MAX
\* ref < DR_BASE or ref > DR_TC_USER_MAX is refused: 3..100 pass
AnyCoord       == DR_BASE..DR_TC_USER_MAX
\* DR_AXIS_X, Y, Z are 0, 1, 2 and DR_AXIS_A, B, C are 10, 11, 12
DR_AXIS_XYZ    == 0..2
DR_AXIS_ABC    == 10..12

-----------------------------------------------------------------------------
(* Verdicts *)

e1 ++ e2 == IF e1 # "ok" THEN e1 ELSE e2

TypeIf(c)  == IF c THEN "TYPE" ELSE "ok"
ValueIf(c) == IF c THEN "VALUE" ELSE "ok"
PyIf(c)    == IF c THEN "PY" ELSE "ok"

\* if type(v) != int: raise TYPE ... if v is out of its range: raise VALUE
IntIn(v, S) == TypeIf(v.ty # "int") ++ ValueIf(v.n \notin S)

\* if type(v) != int and type(v) != float: raise TYPE ... if Bad(v): raise VALUE
NumberNot(v, Bad(_)) == TypeIf(~IsNum(v)) ++ ValueIf(Bad(v.n))

Number(v) == TypeIf(~IsNum(v))

\* for item in s: if Bad(item): raise VALUE
\* A comparison with an item that is not a number is a TypeError.
ItemsNot(s, Bad(_)) ==
  LET hits  == {i \in DOMAIN s : ~IsNum(s[i]) \/ Bad(s[i].n)}
      first == CHOOSE i \in hits : \A j \in hits : i <= j
  IN  IF hits = {} THEN "ok" ELSE IF IsNum(s[first]) THEN "VALUE" ELSE "PY"

-----------------------------------------------------------------------------
(* DR_common2.py *)

get_param(x, y) == IF x # None THEN x ELSE y

\* The item is_number ends up looking at: it returns from inside its loop, so
\* only the first item of a list, and the first item of that, is examined.
Lead(v) ==
  LET x == IF IsSeq(v) /\ v.s # << >> THEN v.s[1] ELSE v
  IN  IF IsSeq(x) /\ x.s # << >> THEN x.s[1] ELSE x

\* The verdict of "if is_number(v) != True: raise err": float(None) is a
\* TypeError, which is_number does not catch.
is_number(v, err) ==
  LET x == Lead(v)
  IN  IF x.ty = "str" THEN err
      ELSE IF IsNum(x) \/ (IsSeq(x) /\ x.s = << >>) THEN "ok" ELSE "PY"

\* posj(...) and posx(...), called with one list, six scalars, or a pose
Pose(ty, items) == PyValue(ty, 0, items)

PoseItems(ty, q) ==
  IF q.ty = ty \/ IsList(POINT_COUNT, q) THEN q.s
  ELSE << q >> \o Times(POINT_COUNT - 1, PyInt(0))

posj(q1) == is_number(List(PoseItems("posj", q1)), "TYPE")
posx(x)  == is_number(List(PoseItems("posx", x)), "TYPE")

get_posj(pos) ==
  IF pos.ty = "posj" \/ IsList(POINT_COUNT, pos) THEN is_number(pos, "VALUE")
  ELSE "TYPE"

get_posx(pos) ==
  IF pos.ty = "posx" \/ IsList(POINT_COUNT, pos) THEN is_number(pos, "VALUE")
  ELSE "TYPE"

\* def_type is posx in every call of the API; numpy arrays are left out.
get_normal_pos(pos) ==
  IF pos.ty \in {"posx", "posj"} \/ IsList(POINT_COUNT, pos)
  THEN is_number(pos, "VALUE")
  ELSE "TYPE"

\* The class get_normal_pos(pos, def_type=posx) returns: a list becomes a posx.
NormalType(pos) == IF pos.ty = "list" THEN "posx" ELSE pos.ty

DR_LINE   == 0
DR_CIRCLE == 1

posb(seg_type, posx1, posx2, radius) ==
     IntIn(seg_type, {DR_LINE, DR_CIRCLE})
  ++ get_posx(posx1)
  ++ (IF seg_type.n = DR_LINE THEN ValueIf(posx2 # None)
      ELSE ValueIf(posx2 = None) ++ get_posx(posx2))
  ++ NumberNot(radius, LAMBDA n : n < 0)

\* The posb object, and its to_list()
Posb(seg_type, posx1, posx2, radius) ==
  PyValue("posb", 0, << seg_type, posx1, posx2, radius >>)

to_list(seg) == seg.s

-----------------------------------------------------------------------------
(* Conversions and request fields.  Misfit stands for a conversion or an    *)
(* assignment that raised: float() of something that is no number, or the   *)
(* assertion in the setter of a message field.                              *)

Misfit == PyValue("misfit", 0, << >>)

\* float(x), int(x), [float(x) for x in v]
ToFloat(v) == IF IsNum(v) THEN PyFloat(v.n) ELSE Misfit
ToInt(v)   == IF IsNum(v) THEN PyInt(v.n) ELSE Misfit
Floats(v)  ==
  IF IsSeq(v) /\ \A i \in DOMAIN v.s : IsNum(v.s[i])
  THEN List([i \in DOMAIN v.s |-> PyFloat(v.s[i].n)])
  ELSE Misfit

\* ros_listToFloat64MultiArray
ros_listToFloat64MultiArray(s) == [i \in DOMAIN s |-> Floats(List(s[i]))]

Fits(v, ok) == IF ok THEN v ELSE Misfit

\* float64, float64[k], int8, int8[k], int32 and uint32, string and an array
\* of Float64MultiArray; the scripts' integers are far from the 32-bit bounds
AsFloat64(v)     == Fits(v, v.ty = "float")
AsFloat64s(k, v) == Fits(v, /\ IsSeq(v) /\ Len(v.s) = k
                            /\ \A i \in 1..k : v.s[i].ty = "float")
AsInt8(v)        == Fits(v, v.ty = "int" /\ v.n \in -128..127)
AsInt8s(k, v)    == Fits(v, /\ IsSeq(v) /\ Len(v.s) = k
                            /\ \A i \in 1..k : AsInt8(v.s[i]) # Misfit)
AsInt32(v)       == Fits(v, v.ty = "int")
AsUint32(v)      == Fits(v, v.ty = "int" /\ v.n >= 0)
AsString(v)      == Fits(v, v.ty = "str")
AsArrays(s)      == IF \E i \in DOMAIN s : s[i] = Misfit THEN Misfit ELSE List(s)

-----------------------------------------------------------------------------
(* What a call of the API comes to: the verdict of its checks and, when it  *)
(* is "ok", the service it calls with which request ("" when it calls none),*)
(* the settings the module keeps afterwards, whether it first waits for the *)
(* service to exist, whether the service's name starts with a slash, and how*)
(* it makes its return value from the answer:                               *)
(*   "status"  0 if result.success else -1, and -1 when there is no result  *)
(*   "value"   a field of the result, and -1 when there is no result        *)
(*   "kept"    as "status", -1 being assigned before the call is tried      *)
(*   "read"    as "value", -1 or an empty value being assigned before       *)
(*   "pair"    as "value", with (None, None) for no result and 0 when the   *)
(*             call failed                                                  *)
(*   "zero"    as "value", with 0 for both                                  *)
(*   "ignored" 0, whatever came back                                        *)
(*   "stream"  0 at once: the request is published on a topic               *)
(*   "none"    no service is called                                         *)

Outcome(err, svc, req, g, answer) ==
  [err |-> err, svc |-> svc, req |-> req, g |-> g, answer |-> answer,
   waits |-> FALSE, absolute |-> FALSE]

NoFields == << >>

Raised(err, g) == Outcome(err, "", NoFields, g, "none")

\* A function that only changes settings, and returns 0.
Settings(err, g, new) == Outcome(err, "", NoFields, IF err = "ok" THEN new ELSE g, "none")

\* The checks, then the request, field by field, then the call.
Call(err, g, svc, answer, req) ==
  LET fields == IF err # "ok" THEN err ELSE PyIf(\E f \in DOMAIN req : req[f] = Misfit)
  IN  IF fields = "ok" THEN Outcome("ok", svc, req, g, answer)
      ELSE Outcome(fields, svc, NoFields, g, "none")

\* The same, with "while not client.wait_for_service(timeout_sec=1.0)" before.
CallWaiting(err, g, svc, answer, req) ==
  [Call(err, g, svc, answer, req) EXCEPT !.waits = TRUE]

\* A message published on a topic.
Publish(err, g, topic, msg) == Call(err, g, topic, "stream", msg)

\* A function without arguments that reads one value from the controller.
Getter(g, svc) == Call("ok", g, svc, "value", NoFields)
=============================================================================
