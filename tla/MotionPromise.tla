----------------------------- MODULE MotionPromise -----------------------------
(***************************************************************************)
(* What the motion services promise to their clients, with neither an      *)
(* executor nor callback groups nor handlers: a request takes effect at    *)
(* one instant between the moment it is sent and the moment it is          *)
(* answered, the answer says whether it did, a synchronous motion is       *)
(* answered only when that motion is over, and a wait only when the robot  *)
(* has come to rest.  Any number of requests may be under way.             *)
(***************************************************************************)
EXTENDS Naturals

CONSTANTS
    Clients,    \* service clients; a program may own several
    Nobody      \* nobody's motion: the robot is at rest

\* The requests, with the fields that decide what happens: sync_type of the
\* moves (MoveJoint.srv: SYNC = 0, ASYNC = 1) and speed of jog (0 = stop).
None == [op |-> "none"]
Requests ==
    [op : {"move"}, sync_type : {0, 1}]
        \union [op : {"jog"}, speed : {0, 1}]
        \union [op : {"move_wait", "move_stop", "move_pause", "move_resume",
                      "check_motion"}]

Rest       == [by |-> Nobody, state |-> "rest"]
Moving(c)  == [by |-> c, state |-> "moving"]
Jogging(c) == [by |-> c, state |-> "jogging"]
Motions    == {Rest} \union [by : Clients, state : {"moving", "jogging", "paused"}]

\* The answers: success, or the status check_motion reports.
Answers == {"none", "ok", "failed", "idle", "busy"}

VARIABLES
    request,    \* request[c]: what c has asked for and not been answered
    result,     \* result[c]: what became of it: "none" so far, "under way"
                \* for a synchronous motion, or the answer to come
    motion      \* the motion of the robot
vars == <<request, result, motion>>

Init ==
    /\ request = [c \in Clients |-> None]
    /\ result = [c \in Clients |-> "none"]
    /\ motion = Rest

Ask(c, r) ==
    /\ request[c] = None
    /\ request' = [request EXCEPT ![c] = r]
    /\ UNCHANGED <<result, motion>>

\* What request r of c makes of the motion: the results and motions allowed.
Effect(c, r) ==
    \/ result'[c] = "failed" /\ motion' = motion /\ r.op # "check_motion"
    \/ /\ r.op = "move"
       /\ motion' = Moving(c)
       /\ result'[c] = IF r.sync_type = 0 THEN "under way" ELSE "ok"
    \/ /\ r.op = "jog"
       /\ motion' = IF r.speed = 0 THEN Rest ELSE Jogging(c)
       /\ result'[c] = "ok"
    \/ r.op = "move_wait" /\ motion = Rest /\ motion' = Rest /\ result'[c] = "ok"
    \/ r.op = "move_stop" /\ motion' = Rest /\ result'[c] = "ok"
    \/ /\ r.op = "move_pause" /\ motion.state = "moving"
       /\ motion' = [motion EXCEPT !.state = "paused"]
       /\ result'[c] = "ok"
    \/ /\ r.op = "move_resume" /\ motion.state = "paused"
       /\ motion' = [motion EXCEPT !.state = "moving"]
       /\ result'[c] = "ok"
    \/ /\ r.op = "check_motion"
       /\ motion' = motion
       /\ result'[c] = IF motion = Rest THEN "idle" ELSE "busy"

TakeEffect(c) ==
    /\ request[c] # None /\ result[c] = "none"
    /\ \E x \in Answers \union {"under way"} :
           result' = [result EXCEPT ![c] = x]
    /\ Effect(c, request[c])
    /\ UNCHANGED request

\* A motion of c that was stopped may be reported either way.
Complete(c) ==
    /\ result[c] = "under way"
    /\ motion.by # c
    /\ \E x \in {"ok", "failed"} : result' = [result EXCEPT ![c] = x]
    /\ UNCHANGED <<request, motion>>

\* c receives result[c].
Answer(c) ==
    /\ result[c] \in Answers \ {"none"}
    /\ request' = [request EXCEPT ![c] = None]
    /\ result' = [result EXCEPT ![c] = "none"]
    /\ UNCHANGED motion

Halt ==
    /\ motion.state \in {"moving", "jogging"}
    /\ motion' = Rest
    /\ UNCHANGED <<request, result>>

Next ==
    \/ \E c \in Clients : \/ \E r \in Requests : Ask(c, r)
                          \/ TakeEffect(c) \/ Complete(c) \/ Answer(c)
    \/ Halt

Spec == Init /\ [][Next]_vars
===============================================================================
