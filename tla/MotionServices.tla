---------------------------- MODULE MotionServices -----------------------------
(***************************************************************************)
(* The motion services of dsr_controller2.cpp: several clients, the two    *)
(* callback groups of the node and DRFL underneath.  A handler makes one   *)
(* DRFL call; the synchronous ones (sync_type 0, mwait) block inside it.   *)
(* All handlers belong to the node's default group, which runs one at a    *)
(* time, so whatever is asked while one blocks waits behind it; only       *)
(* move_stop was given a group of its own (cb_group_, line 2311).          *)
(* ros2_control_node spins the node with two threads or more.              *)
(*                                                                         *)
(* The nine move services share one control and differ in the geometry     *)
(* they copy, which is left out.                                           *)
(***************************************************************************)
EXTENDS Naturals

CONSTANTS
    Clients,    \* service clients; a program may own several
    Nobody      \* the owner of no motion

ASSUME NobodyAssumption == Nobody \notin Clients

VARIABLES
    asked,      \* asked[c]: the request of client c, until it is answered
    at,         \* at[c]: how far its handler is
    res,        \* res[c]: the response the handler has filled in
    motion      \* external: the motion DRFL is executing

\* What the services promise; also the requests and the motions.
Promise == INSTANCE MotionPromise WITH
    request <- asked,
    result  <- [c \in Clients |->
                   IF at[c] = "blocked" /\ asked[c].op = "move" THEN "under way"
                   ELSE IF at[c] = "returned" THEN res[c] ELSE "none"]

None     == Promise!None
Requests == Promise!Requests
Rest     == Promise!Rest
vars     == <<asked, at, res, motion>>

Init ==
    /\ asked = [c \in Clients |-> None]
    /\ at = [c \in Clients |-> "idle"]
    /\ res = [c \in Clients |-> "none"]
    /\ motion = Rest

-----------------------------------------------------------------------------
(***************************************************************************)
(* The clients and the executor.                                           *)
(***************************************************************************)
Send(c, r) ==
    /\ at[c] = "idle"
    /\ asked' = [asked EXCEPT ![c] = r]
    /\ at' = [at EXCEPT ![c] = "queued"]
    /\ UNCHANGED <<res, motion>>

\* Mutant: every service in the default group.
GroupOf_default(op) == "default"

GroupOf(op) == IF op = "move_stop" THEN "cb_group_" ELSE "default"

Running(c) == at[c] \in {"blocked", "returned"}

\* Mutant: a reentrant callback group.
BeginReentrant(c, op) ==
    /\ at[c] = "queued"
    /\ asked[c].op = op
    /\ UNCHANGED asked

\* Mutant: stops go first.
BeginStopsFirst(c, op) ==
    /\ at[c] = "queued"
    /\ asked[c].op = op
    /\ \A d \in Clients : /\ Running(d) => GroupOf(asked[d].op) # GroupOf(op)
                          /\ asked[d].op = "move_stop" => op = "move_stop"
    /\ UNCHANGED asked

\* A thread takes the request: no handler of its group is running.
Begin(c, op) ==
    /\ at[c] = "queued"
    /\ asked[c].op = op
    /\ \A d \in Clients : Running(d) => GroupOf(asked[d].op) # GroupOf(op)
    /\ UNCHANGED asked

Return(c, x) ==
    /\ at' = [at EXCEPT ![c] = "returned"]
    /\ res' = [res EXCEPT ![c] = x]

Block(c) ==
    /\ at' = [at EXCEPT ![c] = "blocked"]
    /\ UNCHANGED res

\* DRFL does not do it.
Refused(c) == Return(c, "failed") /\ UNCHANGED motion

\* The handler ends: the response res[c] goes out and the group is free.
Respond(c) ==
    /\ at[c] = "returned"
    /\ at' = [at EXCEPT ![c] = "idle"]
    /\ asked' = [asked EXCEPT ![c] = None]
    /\ res' = [res EXCEPT ![c] = "none"]
    /\ UNCHANGED motion

-----------------------------------------------------------------------------
(***************************************************************************)
(* The handlers.                                                           *)
(***************************************************************************)
\* Mutant: the branches of sync_type exchanged.
move_cb_swapped(c) ==
    /\ Begin(c, "move")
    /\ \/ Refused(c)
       \/ /\ motion' = Promise!Moving(c)
          /\ IF asked[c].sync_type = 1 THEN Block(c) ELSE Return(c, "ok")

move_cb(c) ==
    /\ Begin(c, "move")
    /\ \/ Refused(c)
       \/ /\ motion' = Promise!Moving(c)
          /\ IF asked[c].sync_type = 0 THEN Block(c) ELSE Return(c, "ok")

\* The refusal of the p3020's fourth axis is overwritten by DRFL's answer, so
\* it makes no difference.
jog_cb(c) ==
    /\ Begin(c, "jog")
    /\ \/ Refused(c)
       \/ /\ motion' = IF asked[c].speed = 0 THEN Rest ELSE Promise!Jogging(c)
          /\ Return(c, "ok")

movewait_cb(c) ==
    /\ Begin(c, "move_wait")
    /\ \/ Refused(c)
       \/ IF motion = Rest THEN Return(c, "ok") ELSE Block(c)
    /\ UNCHANGED motion

\* Mutant: success is assumed, as in trans_cb.
move_stop_cb_assumes(c) ==
    /\ Begin(c, "move_stop")
    /\ \E m \in {Rest, motion} : motion' = m
    /\ Return(c, "ok")

move_stop_cb(c) ==
    /\ Begin(c, "move_stop")
    /\ \/ Refused(c)
       \/ motion' = Rest /\ Return(c, "ok")

move_pause_cb(c) ==
    /\ Begin(c, "move_pause")
    /\ \/ Refused(c)
       \/ /\ motion.state = "moving"
          /\ motion' = [motion EXCEPT !.state = "paused"]
          /\ Return(c, "ok")

move_resume_cb(c) ==
    /\ Begin(c, "move_resume")
    /\ \/ Refused(c)
       \/ /\ motion.state = "paused"
          /\ motion' = [motion EXCEPT !.state = "moving"]
          /\ Return(c, "ok")

\* Mutant: DRFL's own states are handed on.
check_motion_cb_raw(c) ==
    /\ Begin(c, "check_motion")
    /\ Return(c, motion.state)
    /\ UNCHANGED motion

check_motion_cb(c) ==
    /\ Begin(c, "check_motion")
    /\ Return(c, IF motion = Rest THEN "idle" ELSE "busy")
    /\ UNCHANGED motion

-----------------------------------------------------------------------------
(***************************************************************************)
(* DRFL (external).  A synchronous call returns when its motion is over;   *)
(* what it returns for one that was stopped is not known.                  *)
(***************************************************************************)
DrflReturns(c) ==
    /\ at[c] = "blocked"
    /\ IF asked[c].op = "move" THEN motion.by # c ELSE motion = Rest
    /\ \E x \in {"ok", "failed"} : Return(c, x)
    /\ UNCHANGED <<asked, motion>>

\* The motion reaches its target, a jog its limit.
DrflHalts ==
    /\ motion.state \in {"moving", "jogging"}
    /\ motion' = Rest
    /\ UNCHANGED <<asked, at, res>>

Handler(c) ==
    \/ move_cb(c) \/ jog_cb(c) \/ movewait_cb(c)
    \/ move_stop_cb(c) \/ move_pause_cb(c) \/ move_resume_cb(c)
    \/ check_motion_cb(c)

Next ==
    \/ \E c \in Clients : \/ \E r \in Requests : Send(c, r)
                          \/ Handler(c) \/ DrflReturns(c) \/ Respond(c)
    \/ DrflHalts

(***************************************************************************)
(* Requests of a service are taken in the order of their arrival, and the  *)
(* executor serves every ready service once before it waits again, so a    *)
(* request whose group becomes free again and again is taken (strong       *)
(* fairness).  Threads run, DRFL returns, and a motion that is neither     *)
(* paused nor a jog reaches its target.                                    *)
(***************************************************************************)
Fairness ==
    /\ \A c \in Clients : /\ SF_vars(Handler(c))
                          /\ WF_vars(DrflReturns(c))
                          /\ WF_vars(Respond(c))
    /\ WF_vars(motion.state = "moving" /\ DrflHalts)

Safe == Init /\ [][Next]_vars
Spec == Safe /\ Fairness

-----------------------------------------------------------------------------
\* Types: the requests, how far their handlers are, the responses and the motion.
TypeOK ==
    /\ asked \in [Clients -> Requests \union {None}]
    /\ at \in [Clients -> {"idle", "queued", "blocked", "returned"}]
    /\ res \in [Clients -> Promise!Answers]
    /\ motion \in Promise!Motions

\* Nobody's command displaces a synchronous motion while its client waits for
\* it: until it ends or is stopped, the robot executes that motion
\* (dsr_controller2.cpp:413-420,2267,2311).
SyncNotDisplaced ==
    \A c \in Clients :
        at[c] = "blocked" /\ asked[c].op = "move" => motion.by \in {c, Nobody}

\* The services keep their promise: effects are atomic, answers are true, and
\* a synchronous motion is answered only when it is over, whatever is asked in
\* the meantime (dsr_controller2.cpp:406-816).
KeepsPromise == Promise!Spec

\* A stop is answered, although another handler may be blocked in DRFL for
\* ever, waiting for a motion that is paused (dsr_controller2.cpp:2311).
StopServed == \A c \in Clients : asked[c].op = "move_stop" ~> at[c] = "idle"

\* The default group waits for a motion that will not end by itself: only a
\* stop gets the robot out, for resume and jog wait behind the same handler.
HeldUp == /\ motion.state \in {"paused", "jogging"}
          /\ \E c \in Clients : at[c] = "blocked"

\* Nothing else holds up a request: it is answered, or the robot was paused
\* (or left jogging) under a handler that waits for it.
AnsweredUnlessHeldUp ==
    \A c \in Clients : at[c] = "queued" ~> (at[c] = "idle" \/ HeldUp)

\* DRFL has just carried out a stop of d.
Stops(d) == /\ asked[d].op = "move_stop" /\ at[d] = "queued"
            /\ at'[d] = "returned" /\ res'[d] = "ok"

\* Stopping gets the services out of it: while stops keep succeeding, no handler
\* stays blocked, whatever was paused or left jogging under it
\* (dsr_controller2.cpp:721-724,2311).
StopReleases ==
    []<><<\E d \in Clients : Stops(d)>>_vars
        => \A c \in Clients : at[c] = "blocked" ~> at[c] = "idle"
===============================================================================
