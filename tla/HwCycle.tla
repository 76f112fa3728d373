-------------------------------- MODULE HwCycle --------------------------------
(***************************************************************************)
(* DRHWInterface::read and DRHWInterface::write of dsr_hw_interface2.cpp   *)
(* in the controller manager's loop: read, update of the controllers,      *)
(* write.                                                                  *)
(*                                                                         *)
(* The six joint positions are abstracted to the length of the commanded   *)
(* path: a position is a natural number, and the sum of the joints'        *)
(* changes that positionCommandRunning compares with 0.0001 is the         *)
(* distance of two numbers.  Threshold is 0.0001 in the unit of positions. *)
(***************************************************************************)
EXTENDS Integers

CONSTANTS
    Mode,           \* the "mode" parameter
    Period,         \* 1/update_rate, 0 if update_rate is not positive
    Fallback,       \* the period write assumes in virtual mode without a rate
    Dts,            \* durations the controller manager may pass to write
    MaxPos,         \* bound: largest commanded position
    Threshold,      \* the least change that is sent
    MaxTroubles     \* bound: how often the safety mode lapses or is refused

ASSUME ModeAssumption == Mode \in {"real", "virtual"}
ASSUME PeriodAssumption ==
    Period \in Nat /\ Fallback \in Nat \ {0} /\ Dts \subseteq Nat
ASSUME PosAssumption ==
    MaxPos \in Nat /\ Threshold \in Nat \ {0} /\ MaxTroubles \in Nat

VARIABLES
    phase,          \* the next step of the control loop
    active,         \* FALSE once read has returned ERROR
    cmd,            \* joint_position_command_
    pre,            \* pre_joint_position_command_
    idle,           \* static bool of write
    call,           \* the motion call of the last write, if any
    sent,           \* external: the target the robot was last given
    armed,          \* external: safety mode AUTONOMOUS, event MOVE
    asked,          \* history: a controller has written the command
    troubles        \* lapses and refusals of the safety mode so far
vars == <<phase, active, cmd, pre, idle, call, sent, armed, asked, troubles>>

Pos == 0..MaxPos
NoTarget == -1
Distance(a, b) == IF a >= b THEN a - b ELSE b - a

\* Mutant: the previous command starts as the pose of the robot.
InitFromPose ==
    /\ phase = "read"
    /\ active = TRUE
    /\ cmd = 0 /\ pre \in Pos /\ sent = NoTarget
    /\ idle = FALSE
    /\ call = "none"
    /\ armed \in BOOLEAN
    /\ asked = FALSE
    /\ troubles = 0

\* The vectors are zero-filled by on_init, wherever the robot is, and
\* export_command_interfaces copies one to the other.  No target has been
\* sent.  on_init has set the safety mode and ignored the answer.
Init ==
    /\ phase = "read"
    /\ active = TRUE
    /\ cmd = 0 /\ pre = 0 /\ sent = NoTarget
    /\ idle = FALSE
    /\ call = "none"
    /\ armed \in BOOLEAN
    /\ asked = FALSE
    /\ troubles = 0

\* read: a missing pose is an ERROR in virtual mode, and the resource
\* manager then drives the component no longer.
Read ==
    /\ phase = "read" /\ active
    /\ \/ phase' = "update" /\ UNCHANGED active
       \/ Mode = "virtual" /\ active' = FALSE /\ UNCHANGED phase
    /\ UNCHANGED <<cmd, pre, idle, call, sent, armed, asked, troubles>>

\* A controller, if one is active, writes the command interface.
Update ==
    /\ phase = "update"
    /\ phase' = "write"
    /\ \/ cmd' \in Pos /\ asked' = TRUE
       \/ UNCHANGED <<cmd, asked>>
    /\ UNCHANGED <<active, pre, idle, call, sent, armed, troubles>>

-----------------------------------------------------------------------------
OutOfBand(dt, period) == 10 * dt < 3 * period \/ 10 * dt > 15 * period

\* The cycles whose dt is outside [0.3, 1.5] periods.
Skipped(dt) ==
    \/ Mode = "real" /\ Period > 0 /\ OutOfBand(dt, Period)
    \/ /\ Mode = "virtual"
       /\ OutOfBand(dt, IF Period > 0 THEN Period ELSE Fallback)

positionCommandRunning(lhs, rhs) == Distance(lhs, rhs) >= Threshold

\* Mutant: a skipped cycle remembers the command as handled.
WriteSkipForgets ==
    /\ phase = "write"
    /\ \E dt \in Dts : Skipped(dt)
    /\ phase' = "read"
    /\ call' = "none"
    /\ pre' = cmd
    /\ UNCHANGED <<active, cmd, idle, sent, armed, asked, troubles>>

WriteSkip ==
    /\ phase = "write"
    /\ \E dt \in Dts : Skipped(dt)
    /\ phase' = "read"
    /\ call' = "none"
    /\ UNCHANGED <<active, cmd, pre, idle, sent, armed, asked, troubles>>

Trouble == troubles < MaxTroubles /\ troubles' = troubles + 1

\* Mutant: the safety mode is not set again.
RearmNever == UNCHANGED <<armed, troubles>>

\* set_safety_mode(AUTONOMOUS, MOVE) may be refused: its answer is ignored.
Rearm ==
    \/ armed' = TRUE /\ UNCHANGED troubles
    \/ Trouble /\ UNCHANGED armed

\* The branch of write that sends a command.
MotionWrite(target) ==
    /\ phase = "write"
    /\ \E dt \in Dts : ~Skipped(dt)
    /\ positionCommandRunning(pre, cmd)
    /\ phase' = "read"
    /\ \/ idle /\ Rearm
       \/ ~idle /\ UNCHANGED <<armed, troubles>>
    /\ idle' = FALSE
    /\ call' = IF Mode = "real" THEN "servoj_rt" ELSE "amovej"
    /\ sent' = target
    /\ pre' = cmd
    /\ UNCHANGED <<active, cmd, asked>>

\* Mutant: the change is sent, not the target.
WriteMotionRelative == MotionWrite(cmd - pre)

WriteMotion == MotionWrite(cmd)

WriteQuiet ==
    /\ phase = "write"
    /\ \E dt \in Dts : ~Skipped(dt)
    /\ ~positionCommandRunning(pre, cmd)
    /\ phase' = "read"
    /\ idle' = TRUE
    /\ pre' = cmd
    /\ call' = "none"
    /\ UNCHANGED <<active, cmd, sent, armed, asked, troubles>>

\* The robot controller leaves the MOVE event, at any time.
SafetyLapses ==
    /\ armed
    /\ armed' = FALSE
    /\ Trouble
    /\ UNCHANGED <<phase, active, cmd, pre, idle, call, sent, asked>>

Write == WriteMotion \/ WriteQuiet
Next == Read \/ Update \/ Write \/ WriteSkip \/ SafetyLapses

\* The loop keeps running, and it keeps its period often enough: a cycle in
\* the accepted band happens again and again.
Fairness ==
    /\ WF_vars(Read /\ active')
    /\ WF_vars(Update)
    /\ SF_vars(Write)
    /\ WF_vars(Write \/ WriteSkip)

Spec == Init /\ [][Next]_vars /\ Fairness

-----------------------------------------------------------------------------
\* Every variable stays in its type.
TypeOK ==
    /\ phase \in {"read", "update", "write"}
    /\ active \in BOOLEAN
    /\ cmd \in Pos /\ pre \in Pos /\ sent \in Pos \union {NoTarget}
    /\ idle \in BOOLEAN
    /\ call \in {"none", "servoj_rt", "amovej"}
    /\ armed \in BOOLEAN
    /\ asked \in BOOLEAN
    /\ troubles \in 0..MaxTroubles

\* The robot is sent nowhere before a controller has commanded a position.
\* The command starts as zeros, which is no pose of the robot: that they are
\* not sent rests on the previous command being the same zeros
\* (dsr_hw_interface2.cpp:82-84,306,440).
NothingUnasked == sent # NoTarget => asked

\* A command that differs enough and stays is sent, whatever cycles are
\* skipped in between: a skipped cycle leaves the previous command alone
\* (dsr_hw_interface2.cpp:408,431).
CommandIsSent ==
    \A c \in Pos :
        (active /\ cmd = c /\ positionCommandRunning(pre, c))
            ~> (sent = c \/ cmd # c \/ ~active)

\* A missed lapse and a refused set_safety_mode are healed at the next pause:
\* after the last of them, if quiet cycles keep coming, motion is commanded
\* only with the MOVE event in force (dsr_hw_interface2.cpp:444-447,497).
ArmedAgain == []<>idle => <>[](call # "none" => armed)
===============================================================================
