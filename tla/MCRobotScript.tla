--------------------------- MODULE MCRobotScript ---------------------------
EXTENDS RobotScript

SixFloats == << PyFloat(10), PyFloat(20), PyFloat(30), PyFloat(40), PyFloat(50), PyFloat(60) >>

MCGoodPose     == List(SixFloats)
MCGoodJoints   == List(<< Pose("posj", SixFloats), Pose("posj", SixFloats) >>)
MCGoodTask     == List(<< Pose("posx", SixFloats), Pose("posx", SixFloats) >>)
Segment        == Posb(PyInt(0), Pose("posx", SixFloats), None, PyInt(1))
MCGoodSegments == List(<< Segment >>)

MCPoses ==
  { Pose("posj", SixFloats), Pose("posx", SixFloats), Str, List(Times(5, PyFloat(1))),
    List(<< Str >> \o Times(5, PyFloat(1))), List(<< PyInt(1), Str >> \o Times(4, PyInt(1))) }

MCPoseLists == { MCGoodJoints, MCGoodTask, List(<< MCGoodPose >>), List(<< >>), Str,
                 List(Times(128, Pose("posj", << >>))) }

MCSegments == { List(<< >>), List(<< MCGoodPose >>), Str,
                List(<< Posb(PyInt(1), MCGoodPose, MCGoodPose, PyInt(0)) >>) }

MCVelocities ==
  { PyFloat(0), PyInt(-1), List(<< PyInt(0) >> \o Times(5, PyInt(30))),
    List(<< PyInt(30), Str >> \o Times(4, PyInt(30))), List(<< PyInt(30), PyInt(30) >>) }

MCNewSpeeds ==
  { PyFloat(0), Str, List(Times(6, PyInt(30))), List(<< PyInt(30), Str >> \o Times(4, PyInt(30))),
    List(<< PyInt(30), PyInt(-1) >> \o Times(4, PyInt(30))), List(Times(5, PyInt(30))) }

MCScalars == { None, Str, PyFloat(7), PyInt(-1), PyInt(10), PyInt(200) }

MCRefCoords == { PyInt(0), PyInt(1), PyInt(150), PyInt(201), PyFloat(0) }

MCCoords == { PyInt(0), PyInt(1), PyInt(101), PyInt(150), PyInt(201), PyFloat(0) }
=============================================================================
