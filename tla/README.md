# A verification of the Doosan ROS 2 packages

This directory holds TLA+ models of the parts of the repository that decide what a
robot is told and when: the bring-up of the hardware interface, the callbacks that react
to the robot's state and to the control authority, the control cycle, the motion and
analog services of the controller, the Python API that scripts use and its TCP functions.
TLC checks them on small instances; TLAPS proves the most important results for every
instance.

## The system

| part | state it keeps | operations | what makes it correct |
|---|---|---|---|
| hardware interface, `dsr_hardware2/src/dsr_hw_interface2.cpp` | connection to DRFL, static flags `get_control_access`, `is_standby`, joint commands | `on_init`, `read`, `write`, destructor, two DRFL lambdas | success means an authorised, configured robot; commands reach the robot, and only commands that someone gave |
| controller, `dsr_controller2/src/dsr_controller2.cpp` | `g_bHasControlAuthority`, `init_state`, `g_stDrState`, analog modes; requests queued per callback group | about 135 services, DRFL callbacks, lifecycle | the authority flag is true; stops are reset and served; answers are true; values are in range |
| joint trajectory node, `dsr_joint_trajectory.cpp` | the last message, `new_msg_` | subscription, loop | a trajectory is executed whole |
| Python API, `dsr_common2/imp/DSR_ROBOT2.py` with `DR_common2.py`, `DR_error2.py` | default velocities and accelerations, reference coordinate, analog modes; the context of rclpy | about 200 functions and the methods of `CDsrRobot`, each one service call or one message | what is checked is what is sent; defaults mean what the controller has |
| TCP functions, `DR_tcp_server2.py`, `DR_tcp_client2.py` | dictionaries of connections, states, end data | open, close, clean, state, end data, write, read, flush | no leak, truthful state, calls that return |
| robot synchronisation, `DSR_util2.py` | a lock and a flag per robot | wait, wake up one or all | nobody passes unwoken, no wake-up is lost |
| C++ client library, `dsr_common2/src/dsr_robot.cpp` | service clients | one function per service | as the Python API |
| DRFL and the robot controller (closed) | robot state, authority, link, motion | commands, monitoring events | external |
| launch files, emulator scripts | processes, containers | start, stop | what is started is stopped |

The controller manager loads the hardware interface (`on_init`), then configures and
activates the controller. Both talk to one DRFL object. DRFL has a thread of its own that
calls whatever callback is registered for an event; the hardware interface's lambdas are
replaced one by one by the controller's callbacks in `on_configure`. `on_activate` creates
the services one after the other while clients may already be asking. The node is spun by
a multi-threaded executor; all services share the default callback group, which runs one
handler at a time, except `move_stop`, which has a group of its own. A handler makes one
DRFL call, and the synchronous ones block in it. A script's function checks its arguments,
fills a request, calls a service and spins until the answer comes, without a time limit.

Hard behaviours: two threads around plain flags, events delivered after the state has
moved on, an authority that a pendant can take at any moment, retry loops, handlers that
block the group in which the way out would be served, requests lost because their service
does not exist yet, memories of modes and coordinates that others change, peers that
vanish. `PROJECT.json` lists these hazards line by line with the properties that cover
them.

## Modules

| module | models | state and actions |
|---|---|---|
| `Drcf` | robot controller and DRFL (external) | the record `drcf` holds robot state, holder of the authority, link, pendant, RT stream and the events to deliver; each DRFL call is an operator from a controller to the controllers it may leave |
| `HwInterface` | `on_init`, lambdas, destructor | `pc` walks through `on_init`; every read and every store of a shared flag is a step, and the two stores of the access lambda may become visible in either order |
| `DrflCallbacks` | the controller's callbacks, `on_configure` | one operator per callback, called on the record without the event it handles |
| `Bringup` | the composition of these three | `Deliver` and `FinishCallback` (the second store of a lambda) are DRFL's thread, `HwStep` the controller manager's |
| `HwCycle` | `read`, `write` | `Read`, `Update`, then `WriteSkip`, `WriteMotion` or `WriteQuiet`; `SafetyLapses` at any time |
| `MotionServices` | the nine move handlers, jog, wait, stop, pause, resume, check_motion | `asked`, `at` and `res` follow each client's request from `Send` through its handler, which may be blocked in DRFL, to `Respond`; `motion` is DRFL's |
| `MotionPromise` | what these services promise, without an executor | a request takes effect at one instant between asking and answer |
| `StopOrder` | `MotionServices` with a history of what was requested before which stop | |
| `DrCommon` | Python values, `posj`, `posx`, `posb`, `is_number`, the conversions of `DR_common2.py`, the fields of a ROS request | operators that return a verdict: `ok`, the `DR_Error` raised, or an exception of Python; `++` chains checks, the first failure wins |
| `MotionApi` | setters of the defaults, `movej` ... `move_periodic`, wait, pause, jog | one operator per function: from the settings and the arguments to an *outcome* (what is raised, which settings are assigned, what is sent where, how the answer is read) |
| `StreamApi` | `servoj` ... `torque_rt` and the realtime services | as `MotionApi` |
| `CoordApi` | reference and user coordinates, poses, kinematics, force and compliance, conditions | as `MotionApi` |
| `IoApi` | modes, states, digital I/O, Modbus, tool and TCP configuration, DRL | as `MotionApi` |
| `CDsrRobot` | the methods of robot objects | the function's outcome, with the service name, the wait and the settings the method really uses |
| `RobotScript` | a script: any sequence of those calls | `pc` follows one call: `Invoke`, waiting for the service, sent or lost, `Execute` at the controller, `Reply` or `Interrupt`, `Return`; the controller acts and the answer arrives in separate steps, and `OthersSetRef` changes the coordinate behind the script's back |
| `TcpSocket` | both TCP files, by `role` | one action per function; one per round of the loops of open, read, flush and clean; a close may raise |
| `AnalogIo` | analog functions and handlers | a call puts a request into `pending`; a handler takes it, looks at the memory or stores it, and calls DRFL in a second step, between which `on_activate_resets` may fall |
| `MCBringup`, `MCRobotScript`, `MCTcpSocket` | instances for TLC | |
| `BringupProofs`, `BringupReadyProofs`, `HwCycleProofs`, `MotionServicesProofs`, `AnalogIoProofs`, `TcpSocketProofs`, `RobotScriptProofs`, `RobotMotionProofs` | theorems | |

Definitions whose comment begins with "Mutant" are variants of the definition after them
with a plausible mistake; the properties are known to fail under them. `map` in
`PROJECT.json` gives the lines every definition stands for.

What is abstracted: robot states other than those the callbacks react to; the joint
vector (one path length) and clocks (a set of durations); the geometry of motion requests
on the side of the controller; fractions of Python floats, which no check tells apart;
strings, which are never numbers here; contents of TCP data (byte counts); log texts;
`g_stDrState`, which no modelled code reads. The motion handlers share their control, so
they are one action, `move_cb`.

External behaviour is an assumption. A robot-control command takes effect exactly when
ROS holds the authority and the command applies to the state; a forced request is ignored
while the controller boots; DRFL delivers events in order and one at a time; a lost link
loses what was pending. A synchronous DRFL motion returns when that motion is over, `mwait`
when the robot rests; DRFL may refuse anything; the answer for a motion that was stopped
is not known. The setters of generated request classes refuse values of another type or
outside the width of the field, as rosidl's do in the Humble release these packages are
written for. `ros2_control_node` gives the executor at least two threads. On the socket
side the model follows Linux: buffered data are read before the end of the stream, a reset
is reported once.

Two things in the Python file look like state and are not: the private methods `_movejx`
... `_move_wait` of `CDsrRobot` are never called (the public ones call the module's
functions), and robot objects have no setters, so their own default velocities stay zero.

## Runs

| run | instance | shows |
|---|---|---|
| `Bringup` | real mode, all five faults, 4 disturbances, 3 pending events, 2 retries | flags truthful, standby after grant, success means configured, no unauthorised command; `on_init` returns, stops are reset |
| `HwCycle` | virtual mode, band [3, 15] of period 10, durations on both sides of both edges, 7 positions, threshold 3, 3 lapses or refusals of the safety mode | the zeros of the start are not sent, lasting commands are, motion is armed again after the last lapse |
| `MotionServices` | 3 clients, all requests | a synchronous motion is never displaced; the services implement `MotionPromise`; a stop is answered past any blocked handler; only a paused or jogging robot under a waiting handler holds up a request; stopping gets the services out of that |
| `ScriptApi` | every function and method, good arguments and one wrong one at a time, from before the services exist, in a node with and without a namespace | the defaults the setters keep are usable; a motion that gives none is accepted; a default coordinate is the one `set_ref_coord` reported; what is sent can move; calls that wait for their service return |
| `TcpSafety` | a server or a client script, 2 sockets, valid and invalid ports (65536 too), lengths from 0, time-outs, 2 bytes, closes that raise | no leak, truthful state, a flush discards what had arrived |
| `TcpLive` | 1 socket of either file, reads of length zero too | reads return, a lost peer is noticed, open is not blocked by itself |
| `AnalogRange` | a script and a direct client; on channel 2 input types and refused modes too | outputs in range and memory true on the channel that is left alone, with handlers that straddle the reset |
| `BringupSuccess` | virtual mode, 1 disturbance | violated: `on_init` may return SUCCESS after a LOSS |
| `StopOvertakes` | 2 clients | violated: a stop may be served before a motion that was requested first, which then runs |
| `UserCoords` | as `ScriptApi` | violated: user coordinates above 127 pass the check and do not fit the request |
| `TcpFlush` | 1 server socket | violated: a flush of a closed connection never returns |
| `AnalogInputType` | 2 scripts | violated: setting an input's type lets values outside the box's range through |

The violated properties state what comments, headers, messages or tests of the code say;
`findings` quotes them.

Bounds. Two disturbances suffice to give and take the authority, a third and a fourth let
a fault fall in between; three pending events hold a GRANT, its LOSS and a state between
them. The code's 20 and 10 retries are parameters: two show a failure, a retry and an
exhausted loop. Three clients are the fewest of which one waits for its motion, one pauses
it and one stops it; two suffice for a stop and the motion it overtakes. In `RobotScript`
the arguments of a call differ from a good call in at most one place, so that every check
is reached with every class of wrong value and the checks before it pass; methods that
only repeat their function are called with good arguments. `MaxChanged = 2` settings may
differ from their initial value at a time, the fewest with which a velocity and an
acceleration can be set, and settings change only once the services are up (the setters
look at no service). Analog values 2 and 15 lie in one range each and outside the other.
Two sockets are the fewest that can compete for a port; two bytes the fewest that a read
of one leaves a rest of. `MaxDisturbances`, `MaxEvents`, `MaxChanged`, `MaxBytes`,
`MaxPos` and `MaxTroubles` are the bounds the code does not have. Three troubles of the safety
mode are a lapse, a refused attempt to set it again and a second lapse.

Deadlock is not checked where the system may stop: a bring-up may end, a robot may be left
alone, a flush may spin, a script whose `DR_Error` shut rclpy down makes no more calls.
In `MotionServices` everybody can wait for ever: `mwait` on a paused robot while resume
waits behind it in the same group. `AnsweredUnlessHeldUp` says that this is the only such
case and `StopReleases` that a stop resolves it.

Fairness. DRFL's thread and the controller manager's thread run, and nothing they wait
for is excluded by the other, so `Deliver`, `FinishCallback`, `HwStep` and
`ConfigureController` are weakly fair. The destructor may run and need not: what the
resource manager does with a component whose `on_init` failed is not decided here. In
`HwCycle` the loop runs and its period is kept again and again
(strong fairness of an in-band write); without it a command may indeed wait for ever. In
`MotionServices` the handlers are strongly fair: requests of one service are taken in the
order of arrival and the executor serves every ready service before it waits again, so a
request whose group becomes free again and again is taken; a call of DRFL that can return
returns, and a motion that is neither paused nor a jog reaches its target. In `RobotScript`
`on_activate` ends, a service that exists is found, and the controller acts and answers
(this is what `MotionServices` shows of it, unless it is held up). In `TcpSocket` a call that is
under way goes on. Robot, pendant, plant, peers and clients owe nothing.

Restrictions that belong to results, not to bounds. `OutputInRange` is about channels
whose input's type nobody sets and whose modes DRFL takes, because otherwise it fails
(`AnalogInputType`), and about handlers that begin after `on_activate` has ended: one that
looked at the memory before the reset may have seen the initial 0, CURRENT, and put out a
current into a box in VOLTAGE. `OffMeansGone` exempts connections that were read with length
0: `recv(0)` returns no byte and line 333 of the server file takes that for a disconnection.
What it says is that nothing else switches a living peer off; it does not say that the bytes
were handed over, since a flush discards and a reset loses some. `FlushDrains` is about the
bytes that had arrived when the flush was called: more may come between the last `select` and
the return. `NoLeak` counts a socket whose close raised as held: its entries stay, and a
second close or a clean removes them. `GrantThenStandby` and `BootFlagsTruthful` speak of
moments at which no lambda is between its two stores; in between, both flags may be set with
a standby from before the grant, and `on_init` may read them so. `NothingUnasked` is all that
is claimed of the zeros the commands start as: a first command close to zero is taken for
them and not sent, and changes below the threshold are forgotten one by one. `ArmedAgain`
promises nothing about motion between a lapse and the next pause, nor after an answer of
`set_safety_mode` that was ignored until the next pause. `DefaultRefIsControllers` starts when
a `set_ref_coord` of the script has returned 0 and ends when one returns something else or
someone else sets the coordinate: the script never reads it back. After a SIGTERM a function
may return -1 for what the controller has done. `DefaultsAccepted`,
`DefaultRefIsControllers` and `MotionMoves` name their exceptions: `move_spiral` and `servol` refuse a default with an unset second value;
`get_current_posx` refuses a default of `DR_TOOL`; a force condition on a rotation axis is always asked in
`DR_TOOL`; `movej` and `movejx` send the first item of their lists only; the
time of `moveb` is not checked.
`WaitersReturn` is about functions that wait for their service: those that do not wait
lose a request sent too early and hang.

Other disagreements the models contain and no run is spent on: the callback for the
initialised pendant requests nothing (`dsr_controller2.cpp:2478` says it does); jog's
refusal of the fourth axis of the p3020 is overwritten (`dsr_controller2.cpp:705`); an
open that meets a socket error retries for ever (`DR_tcp_server2.py:52` promises -2);
end data are stored under `str(id(sock))` and looked up under `id(sock)`, so they are never
sent (`DR_tcp_server2.py:213`, 242); a second close of a client socket raises a KeyError
(`DR_tcp_client2.py:107` names other errors); an analog mode is remembered although DRFL
refused it (`dsr_controller2.cpp:1763`), and a coordinate although the controller refused
it (`DSR_ROBOT2.py:1415`); `move_home` of a robot object returns 0 whatever was answered
(`DSR_ROBOT2.py:8820`); a port above 65535 passes the check and leaves open with an
OverflowError (`DR_tcp_server2.py:62`); before `on_activate` ends, an unset analog mode
counts as CURRENT (`dsr_controller2.cpp:1689` says it is refused); Modbus indices and
values are checked against 65535 and sent as int8 (`DSR_ROBOT2.py:6069`); a method called
by a robot object uses a name that starts with a slash and finds no service when the
controller was started in a namespace.

## Proofs

- `AuthorityIsSafe`, `CommandsAreSafe` (`BringupProofs`). The invariant checked by TLC is
  not inductive: with events pending, flag and holder may differ. `AuthInv` says by how
  much. While the pendant holds the authority, every pending GRANT is followed by a
  pending LOSS (`Revoked`), so delivering a late GRANT sets a flag that a LOSS will
  clear; and a set flag with the pendant holding implies a pending LOSS (`Covered`). The
  flag is set only by a callback that is installed after `on_init` has returned. The
  lemmas reduce each DRFL call to one of two effects on the authority (`Quiet`,
  `Granted`), each action has a case. `NoStrayCommand` follows since a covered flag makes
  a guarded command obeyed or overtaken by a LOSS.
- `GrantBeforeStandby`, `TypesAreSafe` (`BringupProofs`). Between its two stores the access
  lambda may have set `get_control_access` and not yet cleared `is_standby`. The invariant
  of the first therefore exempts that moment only, and adds that with the stores made in
  the other order `is_standby` is clear until the second one; `TypesAreSafe` is
  inductive on top of `AuthInv`.
- `BootFlagsAreTruthful` (`BringupReadyProofs`). While events are pending the flags lag
  behind. `BootInv` says what makes up for it: the last pending report of a state is the
  state the robot is in (none pending: a set flag is right), and a `get_control_access`
  that the pendant has made false is followed by a pending LOSS. With nothing pending both
  collapse into the property.
- `SuccessIsReady` (`BringupReadyProofs`). `ReadyInv` follows the script of `on_init`: the
  calls before the one at hand have taken effect, `start_rt_control` is the seventh of the
  real script and of no other, and a link that was lost never comes back, so a stream that
  stopped cannot be taken for one that runs.
- `CycleSafe` (`HwCycleProofs`): types, and that nothing is sent before a controller has
  commanded a position. It needs that until then the command and the previous command are
  both the zeros of the start.
- `ServicesTyped`, `SyncIsSafe`, `ServicesKeepPromise` (`MotionServicesProofs`): for every
  set of clients. `SyncNotDisplaced` needs to know that the blocked handler excludes every
  other command but a stop: `OneAtATime` (two running handlers of one group are the same)
  and `Progress` (only a synchronous motion or a wait blocks, a handler that has returned
  has an answer) with `TypeOK` make it inductive. The refinement maps a blocked motion to
  `under way`, a returned handler to its answer and every other request to one without
  effect; a wait that DRFL releases takes effect at that instant, every handler at its
  DRFL call, sending and answering are steps of the promise, and blocking in `mwait`
  stutters.
- `OutputIsSafe`, `MemoryIsSafe`, `AnalogTyped` (`AnalogIoProofs`): for any clients, values
  and channels that are touched. The invariant adds that no request for the input's type
  of an untouched channel is pending; that a handler which is at its call of DRFL and began
  after `on_activate` has checked its value against the memory, which is the box's mode
  since no other handler runs; and that a mode which is stored and not yet set at the box is
  the one that is about to be set.
- `SocketsTyped`, `NothingLeaks`, `FlushIsSafe`, `OffIsGone` (`TcpSocketProofs`): for any
  sockets, ports, lengths and time-outs and for both files. `NoLeak` speaks of the moments
  between two calls; the invariant holds during them too: the dictionaries agree at every
  step, and only the socket that is being opened may hold a port or a connection outside
  them; a socket whose close raised is in both. `FlushDrains` needs that what is in the inbox
  of a connection that is being flushed was sent after the call, once `select` has found
  nothing. `OffMeansGone` holds for every length, with the connections that were read with
  length 0 exempt.
- `ScriptTyped`, `SettingsStayUsable`, `DefaultRefAgrees` (`RobotScriptProofs`): for every argument, not only the classes of the run. The first
  half of the module looks at the functions: each of them, and each method of a robot
  object, is `Neutral` (it leaves the settings alone, is not `set_ref_coord`, reads its
  answer in one of the known ways, and what it sends for a coordinate that was not given
  is `_g_coord`) or is one of the five setters (`SetsCoord`, `SetsSpeed`). The second half
  knows nothing else of a call. Its invariant `ScriptInv` adds to these properties that
  the settings an open call will assign differ from the present ones in the coordinate at
  most (`CallKnown`), and that script and controller share a coordinate the script was told of, but
  while the controller has taken the next one and its answer is on the way (`CoordShared`). An attempt to prove
  `check_force_condition` neutral failed and showed the exception for rotation axes named
  above; no instance had reached it before.
- `MotionsMove`, `DefaultsAreAccepted` (`RobotMotionProofs`, on top of `RobotScriptProofs`):
  that a motion under way has a time or a velocity and an acceleration, and that no good
  call is refused for any other reason than the ones `DefaultsAccepted` names. Again the
  functions come first. A function that sends no motion (`Still`) has to pass its own
  checks, and the fields of its request have to hold, when it is called with good
  arguments. For the motions, `TaskChecked` and the `...Sound`
  lemmas say what the checks let through: `check_valid_vel_acc_task` and
  `check_valid_vel_acc_joint` look at the speeds that are then sent, so a request that has
  no time has speeds that are positive somewhere, or the defaults were never set. Both
  need the settings: that the defaults are the initial ones or six, or two, numbers of the
  right sign (`Usable`), and that the coordinate in force fits an int8 and is one the
  functions name (`Nameable`), are the part of `ScriptInv` that makes them inductive; it
  was strengthened for this. `MotionInv` is the two properties themselves: a call keeps its
  request from `Invoke` to `Reply`, and a refused one leaves the settings it was refused
  with.

Assumptions are the named `ASSUME`s of the modules: sets and numbers have their types,
faults are among the five states, retries and thresholds are positive, scripts and nodes
are different clients, `Nobody` is no client. For scripts: the numbers in a speed are
integers (`ValuesAssumption`; floats hold whole numbers in this model), a coordinate that is
an int is nothing else (`CoordsAssumption`), and the good arguments of `DefaultsAccepted`
are good: a pose is six positive floats, a list holds 1 to 127 poses or segments of the
right class (`GoodAssumption`). Lists of more than 127 are outside it on purpose: their
count does not fit the int8 it is sent in.

Only model-checked: the liveness properties (`OnInitReturns`,
`StopsAreReset`, `CommandIsSent`, `ArmedAgain`, `ReadReturns`, `DisconnectNoticed`,
`OpenNotStuck`, `WaitersReturn`, `StopServed`, `AnsweredUnlessHeldUp`, `StopReleases`).
Liveness under fairness, induction over recursive data and recursive operators are beyond
the prover used.

## Not modelled

- The remaining services: one DRFL call each and no memory that a second call could find.
  `move_home` is left out because the code does not show whether DRFL blocks in it,
  `trans` because it hands uninitialised arrays to DRFL and any pose may come back.
- The subscriptions for streamed motion, on the side of the controller.
- The monitoring copies in `g_stDrState` and the getters that read them.
- The trajectory node, `CRobotSync` (no user in the repository), the real-time example,
  the C++ library (stateless service clients without checks), the launch files and
  emulator scripts.
- The mesh scripts under `scripts/`, and the geometry, message, MoveIt and simulator
  packages: numerical code and configuration without control logic of the robot.

## Plan

1. `DrState`: monitoring callbacks, unlocked getters, the clearing in `on_activate`.
2. Streams in `MotionServices`: messages that wait behind a synchronous motion.
3. `JointTrajectory`, `RealtimeControl`, `RobotSync`: hand-over between threads.
4. `Authority`, an abstract specification of who may command the robot, with `Bringup`
   shown to implement it.
5. `TcpStream`: partial sends and retries; the stream as the peer sees it.
6. Proofs: the refinement of 4; `Neutral` and `Still` for functions that are added.
