SPECIFICATION Spec
CONSTANTS
  Poses <- MCPoses
  PoseLists <- MCPoseLists
  Segments <- MCSegments
  Velocities <- MCVelocities
  NewSpeeds <- MCNewSpeeds
  MaxChanged = 2
  Scalars <- MCScalars
  RefCoords <- MCRefCoords
  Coords <- MCCoords
  GoodPose <- MCGoodPose
  GoodJoints <- MCGoodJoints
  GoodTask <- MCGoodTask
  GoodSegments <- MCGoodSegments
CHECK_DEADLOCK FALSE
INVARIANT UserCoordsSent
