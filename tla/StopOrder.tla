------------------------------- MODULE StopOrder -------------------------------
(***************************************************************************)
(* MotionServices with a history of which motions were requested before    *)
(* which stops.  One program may own several clients and send through them *)
(* one after the other without waiting (call_async).                       *)
(***************************************************************************)
EXTENDS MotionServices

VARIABLES
    earlier,    \* for a stop under way, the clients whose last motion was
                \* requested before it
    undone      \* clients whose last motion was requested before a stop that
                \* has been answered with success

Motional(r) == r.op \in {"move", "jog"}

HInit == Init /\ earlier = [c \in Clients |-> {}] /\ undone = {}

HSend(c, r) ==
    /\ Send(c, r)
    /\ earlier' = [d \in Clients |->
           IF d = c /\ r.op = "move_stop"
           THEN {e \in Clients : motion.by = e \/ Motional(asked[e])}
           ELSE IF Motional(r) THEN earlier[d] \ {c} ELSE earlier[d]]
    /\ undone' = IF Motional(r) THEN undone \ {c} ELSE undone

HRespond(c) ==
    /\ Respond(c)
    /\ undone' = IF asked[c].op = "move_stop" /\ res[c] = "ok"
                 THEN undone \union earlier[c] ELSE undone
    /\ earlier' = [earlier EXCEPT ![c] = {}]

HNext ==
    \/ \E c \in Clients : (\E r \in Requests : HSend(c, r)) \/ HRespond(c)
    \/ /\ (\E c \in Clients : Handler(c) \/ DrflReturns(c)) \/ DrflHalts
       /\ UNCHANGED <<earlier, undone>>

HSpec == HInit /\ [][HNext]_<<vars, earlier, undone>>

\* A motion that was requested before a stop, and the stop has succeeded, does
\* not run any more: after move_joint and then move_stop, "Motion Status is 0"
\* (dsr_tests/test/test_cli_dsr_system.py:726-757).
StopWins == motion.by \notin undone
===============================================================================
