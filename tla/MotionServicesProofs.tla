------------------------- MODULE MotionServicesProofs --------------------------
(***************************************************************************)
(* For every set of clients, the motion services implement their promise,  *)
(* and a synchronous motion is never displaced.                            *)
(***************************************************************************)
EXTENDS MotionServices, TLAPS

\* A client is idle when it has no request; only synchronous requests block; a
\* handler that has returned has filled in its response.
Progress ==
    \A c \in Clients :
        /\ at[c] = "idle" <=> asked[c] = None
        /\ at[c] = "blocked" =>
               \/ asked[c].op = "move" /\ asked[c].sync_type = 0
               \/ asked[c].op = "move_wait"
        /\ at[c] = "returned" => res[c] # "none"

\* No two handlers of one callback group run at a time.
OneAtATime ==
    \A c, d \in Clients :
        Running(c) /\ Running(d) /\ GroupOf(asked[c].op) = GroupOf(asked[d].op)
            => c = d

IInv == TypeOK /\ Progress /\ OneAtATime /\ SyncNotDisplaced

\* The result the promise sees.
Result == [c \in Clients |->
              IF at[c] = "blocked" /\ asked[c].op = "move" THEN "under way"
              ELSE IF at[c] = "returned" THEN res[c] ELSE "none"]

-----------------------------------------------------------------------------
(***************************************************************************)
(* The values the handlers tell apart.                                     *)
(***************************************************************************)
\* A request has one of the seven operations and is not None.
LEMMA RequestOps ==
    ASSUME NEW r \in Requests
    PROVE  /\ r.op \in {"move", "jog", "move_wait", "move_stop", "move_pause",
                        "move_resume", "check_motion"}
           /\ r # None
BY DEF Requests, None, Promise!Requests, Promise!None

\* The motions the handlers start are motions.
LEMMA MotionValues ==
    ASSUME NEW c \in Clients
    PROVE  /\ Rest \in Promise!Motions
           /\ Promise!Moving(c) \in Promise!Motions
           /\ Promise!Jogging(c) \in Promise!Motions
           /\ Rest.by = Nobody
           /\ Promise!Moving(c).by = c
           /\ Promise!Jogging(c).by = c
BY DEF Rest, Promise!Rest, Promise!Moving, Promise!Jogging, Promise!Motions

\* Pausing and resuming keep the owner of a motion.
LEMMA MotionStates ==
    ASSUME NEW m \in Promise!Motions, m.state \in {"moving", "paused"},
           NEW x \in {"moving", "paused"}
    PROVE  /\ [m EXCEPT !.state = x] \in Promise!Motions
           /\ [m EXCEPT !.state = x].by = m.by
BY DEF Promise!Motions, Promise!Rest

-----------------------------------------------------------------------------
(***************************************************************************)
(* The invariant is inductive.                                             *)
(***************************************************************************)
LEMMA InitInv == Init => IInv
<1> SUFFICES ASSUME Init PROVE IInv
  OBVIOUS
<1>1. TypeOK
  BY DEF Init, TypeOK, Promise!Answers, Promise!Motions, Rest
<1>2. Progress /\ OneAtATime /\ SyncNotDisplaced
  BY DEF Init, Progress, OneAtATime, SyncNotDisplaced, Running
<1> QED BY <1>1, <1>2 DEF IInv

\* A request is sent.
LEMMA SendInv ==
    ASSUME IInv, NEW c \in Clients, NEW r \in Requests, Send(c, r)
    PROVE  IInv'
<1>1. TypeOK'
  BY DEF IInv, TypeOK, Send
<1>2. Progress'
  BY RequestOps DEF IInv, TypeOK, Progress, Send
<1>3. OneAtATime'
  BY DEF IInv, TypeOK, OneAtATime, Send, Running
<1>4. SyncNotDisplaced'
  BY DEF IInv, TypeOK, SyncNotDisplaced, Send
<1> QED BY <1>1, <1>2, <1>3, <1>4 DEF IInv

\* A handler answers and leaves the group free.
LEMMA RespondInv ==
    ASSUME IInv, NEW c \in Clients, Respond(c)
    PROVE  IInv'
<1>1. TypeOK'
  BY DEF IInv, TypeOK, Respond, Promise!Answers
<1>2. Progress'
  BY DEF IInv, TypeOK, Progress, Respond
<1>3. OneAtATime'
  BY DEF IInv, TypeOK, OneAtATime, Respond, Running
<1>4. SyncNotDisplaced'
  BY DEF IInv, TypeOK, SyncNotDisplaced, Respond
<1> QED BY <1>1, <1>2, <1>3, <1>4 DEF IInv

\* A handler that begins is alone in its group, whether it blocks or returns.
LEMMA BeginAlone ==
    ASSUME IInv, NEW c \in Clients, NEW op, Begin(c, op),
           NEW x, at' = [at EXCEPT ![c] = x]
    PROVE  OneAtATime'
BY DEF IInv, TypeOK, OneAtATime, Begin, Running, GroupOf

\* While a handler of the default group begins, none of that group is blocked:
\* the synchronous handlers all belong to it.
LEMMA BeginUnblocked ==
    ASSUME IInv, NEW c \in Clients, NEW op, Begin(c, op), op # "move_stop"
    PROVE  \A d \in Clients : at[d] # "blocked"
BY DEF IInv, TypeOK, Progress, Begin, Running, GroupOf

\* A handler that returns with a response fills it in.
LEMMA ReturnInv ==
    ASSUME IInv, NEW c \in Clients, NEW op, Begin(c, op),
           NEW x \in Promise!Answers \ {"none"}, Return(c, x),
           motion' \in Promise!Motions,
           \/ motion' = motion
           \/ motion'.by = Nobody
           \/ op # "move_stop"
    PROVE  IInv'
<1>1. TypeOK'
  BY DEF IInv, TypeOK, Begin, Return
<1>2. Progress'
  BY DEF IInv, TypeOK, Progress, Begin, Return
<1>3. OneAtATime'
  BY BeginAlone DEF Return
<1>4. SyncNotDisplaced'
  <2>1. CASE motion' = motion \/ motion'.by = Nobody
    BY <2>1 DEF IInv, TypeOK, SyncNotDisplaced, Begin, Return
  <2>2. CASE op # "move_stop"
    BY <2>2, BeginUnblocked DEF IInv, TypeOK, SyncNotDisplaced, Begin, Return
  <2> QED BY <2>1, <2>2
<1> QED BY <1>1, <1>2, <1>3, <1>4 DEF IInv

\* A synchronous handler of the default group blocks; its motion is the robot's.
LEMMA BlockInv ==
    ASSUME IInv, NEW c \in Clients, NEW op, Begin(c, op), Block(c),
           motion' \in Promise!Motions, op # "move_stop",
           \/ op = "move" /\ asked[c].sync_type = 0 /\ motion'.by = c
           \/ op = "move_wait"
    PROVE  IInv'
<1>1. TypeOK'
  BY DEF IInv, TypeOK, Begin, Block
<1>2. Progress'
  BY DEF IInv, TypeOK, Progress, Begin, Block
<1>3. OneAtATime'
  BY BeginAlone DEF Block
<1>4. SyncNotDisplaced'
  BY BeginUnblocked DEF IInv, TypeOK, SyncNotDisplaced, Begin, Block
<1> QED BY <1>1, <1>2, <1>3, <1>4 DEF IInv

\* Every handler keeps the invariant: it returns a response or blocks.
LEMMA HandlerInv ==
    ASSUME IInv, NEW c \in Clients, Handler(c)
    PROVE  IInv'
<1> USE MotionValues
<1>0. motion \in Promise!Motions /\ asked[c] \in Requests \union {None}
  BY DEF IInv, TypeOK
<1>a. /\ "ok" \in Promise!Answers \ {"none"} /\ "failed" \in Promise!Answers \ {"none"}
      /\ "idle" \in Promise!Answers \ {"none"} /\ "busy" \in Promise!Answers \ {"none"}
  BY DEF Promise!Answers
<1>b. ASSUME NEW op, Begin(c, op), Refused(c) PROVE IInv'
  BY <1>0, <1>a, <1>b, ReturnInv DEF Refused
<1>1. CASE move_cb(c)
  <2>1. CASE Refused(c)
    BY <1>1, <2>1, <1>b DEF move_cb
  <2>2. CASE motion' = Promise!Moving(c)
    <3>1. CASE asked[c].sync_type = 0 /\ Block(c)
      BY <1>1, <2>2, <3>1, BlockInv DEF move_cb
    <3>2. CASE Return(c, "ok")
      BY <1>1, <2>2, <3>2, <1>a, ReturnInv DEF move_cb
    <3> QED BY <1>1, <2>1, <3>1, <3>2 DEF move_cb
  <2> QED BY <1>1, <2>1, <2>2 DEF move_cb
<1>2. CASE jog_cb(c)
  BY <1>2, <1>a, <1>b, ReturnInv DEF jog_cb
<1>3. CASE movewait_cb(c)
  <2>1. CASE Return(c, "ok")
    BY <1>3, <2>1, <1>0, <1>a, ReturnInv DEF movewait_cb
  <2>2. CASE Block(c)
    BY <1>3, <2>2, <1>0, BlockInv DEF movewait_cb
  <2> QED BY <1>3, <2>1, <2>2, <1>b DEF movewait_cb
<1>4. CASE move_stop_cb(c)
  BY <1>4, <1>a, <1>b, ReturnInv DEF move_stop_cb
<1>5. CASE move_pause_cb(c)
  <2>1. CASE Refused(c)
    BY <1>5, <2>1, <1>b DEF move_pause_cb
  <2>2. CASE motion.state = "moving" /\ motion' = [motion EXCEPT !.state = "paused"]
             /\ Return(c, "ok")
    <3>1. motion' \in Promise!Motions
      BY <2>2, <1>0, MotionStates, Zenon
    <3> QED BY <1>5, <2>2, <3>1, <1>a, ReturnInv DEF move_pause_cb
  <2> QED BY <1>5, <2>1, <2>2 DEF move_pause_cb
<1>6. CASE move_resume_cb(c)
  <2>1. CASE Refused(c)
    BY <1>6, <2>1, <1>b DEF move_resume_cb
  <2>2. CASE motion.state = "paused" /\ motion' = [motion EXCEPT !.state = "moving"]
             /\ Return(c, "ok")
    <3>1. motion' \in Promise!Motions
      BY <2>2, <1>0, MotionStates, Zenon
    <3> QED BY <1>6, <2>2, <3>1, <1>a, ReturnInv DEF move_resume_cb
  <2> QED BY <1>6, <2>1, <2>2 DEF move_resume_cb
<1>7. CASE check_motion_cb(c)
  BY <1>7, <1>0, <1>a, ReturnInv DEF check_motion_cb
<1> QED BY <1>1, <1>2, <1>3, <1>4, <1>5, <1>6, <1>7 DEF Handler

\* DRFL returns from a synchronous call.
LEMMA DrflReturnsInv ==
    ASSUME IInv, NEW c \in Clients, DrflReturns(c)
    PROVE  IInv'
<1>1. TypeOK'
  BY DEF IInv, TypeOK, DrflReturns, Return, Promise!Answers
<1>2. Progress'
  BY DEF IInv, TypeOK, Progress, DrflReturns, Return
<1>3. OneAtATime'
  BY DEF IInv, TypeOK, OneAtATime, DrflReturns, Return, Running
<1>4. SyncNotDisplaced'
  BY DEF IInv, TypeOK, SyncNotDisplaced, DrflReturns, Return
<1> QED BY <1>1, <1>2, <1>3, <1>4 DEF IInv

\* The robot comes to rest.
LEMMA DrflHaltsInv == ASSUME IInv, DrflHalts PROVE IInv'
<1>0. Rest \in Promise!Motions /\ Rest.by = Nobody
  BY DEF Rest, Promise!Rest, Promise!Motions
<1>1. TypeOK'
  BY <1>0 DEF IInv, TypeOK, DrflHalts
<1>2. Progress' /\ OneAtATime'
  BY DEF IInv, Progress, OneAtATime, DrflHalts, Running, GroupOf
<1>3. SyncNotDisplaced'
  BY <1>0 DEF SyncNotDisplaced, DrflHalts
<1> QED BY <1>1, <1>2, <1>3 DEF IInv

\* Every step of the services preserves the inductive invariant.
LEMMA NextInv == IInv /\ [Next]_vars => IInv'
<1> SUFFICES ASSUME IInv, [Next]_vars PROVE IInv'
  OBVIOUS
<1>1. CASE UNCHANGED vars
  BY <1>1 DEF vars, IInv, TypeOK, Progress, OneAtATime, SyncNotDisplaced, Running, GroupOf
<1>2. CASE Next
  BY <1>2, SendInv, RespondInv, HandlerInv, DrflReturnsInv, DrflHaltsInv DEF Next
<1> QED BY <1>1, <1>2

\* The invariant holds in every reachable state.
LEMMA Invariance == Safe => []IInv
BY InitInv, NextInv, PTL DEF Safe

\* For every set of clients, the requests, responses and motions of the services
\* keep their types (dsr_controller2.cpp:406-816).
THEOREM ServicesTyped == Spec => []TypeOK
<1>1. IInv => TypeOK
  BY DEF IInv
<1> QED BY <1>1, Invariance, PTL DEF Spec

\* For every set of clients, nobody's command displaces a synchronous motion
\* while its client waits for it (dsr_controller2.cpp:2267,2311).
THEOREM SyncIsSafe == Spec => []SyncNotDisplaced
<1>1. IInv => SyncNotDisplaced
  BY DEF IInv
<1> QED BY <1>1, Invariance, PTL DEF Spec

-----------------------------------------------------------------------------
(***************************************************************************)
(* The refinement: every step is a step of the promise or leaves it alone. *)
(***************************************************************************)
LEMMA InitPromise == Init => Promise!Init
BY DEF Init, Promise!Init, None, Rest

\* Sending is asking.
LEMMA SendPromise ==
    ASSUME IInv, NEW c \in Clients, NEW r \in Requests, Send(c, r)
    PROVE  Promise!Ask(c, r)
<1>1. asked[c] = None
  BY DEF IInv, Progress, Send
<1>2. Result' = Result
  BY DEF IInv, TypeOK, Send, Result
<1> QED BY <1>1, <1>2 DEF Send, Promise!Ask, None, Result

\* A handler that returns takes effect.
LEMMA ReturnPromise ==
    ASSUME IInv, NEW c \in Clients, at[c] = "queued" \/ at[c] = "blocked",
           at[c] = "blocked" => asked[c].op # "move",
           NEW x \in Promise!Answers, Return(c, x), UNCHANGED asked
    PROVE  /\ asked[c] # None
           /\ Result[c] = "none"
           /\ Result' = [Result EXCEPT ![c] = x]
           /\ Result'[c] = x
<1>1. asked[c] # None
  BY DEF IInv, Progress
<1>2. Result[c] = "none"
  BY DEF Result
<1>3. Result' = [Result EXCEPT ![c] = x]
  BY DEF IInv, TypeOK, Result, Return
<1> QED BY <1>1, <1>2, <1>3 DEF Result

\* What has to be shown for a step to be the effect of c's request.
LEMMA TakesEffect ==
    ASSUME NEW c \in Clients, asked[c] # None, Result[c] = "none",
           NEW x \in Promise!Answers \union {"under way"},
           Result' = [Result EXCEPT ![c] = x], UNCHANGED asked,
           Promise!Effect(c, asked[c])
    PROVE  Promise!TakeEffect(c)
BY DEF Promise!TakeEffect, Result, None

\* DRFL's refusal is an effect too.
LEMMA RefusedPromise ==
    ASSUME IInv, NEW c \in Clients, NEW op, op # "check_motion",
           Begin(c, op), Refused(c)
    PROVE  Promise!TakeEffect(c)
<1>1. "failed" \in Promise!Answers
  BY DEF Promise!Answers
<1>2. /\ asked[c] # None /\ Result[c] = "none"
      /\ Result' = [Result EXCEPT ![c] = "failed"] /\ Result'[c] = "failed"
  BY <1>1, ReturnPromise DEF Begin, Refused
<1>3. Promise!Effect(c, asked[c])
  BY <1>2 DEF Promise!Effect, Begin, Refused, Result
<1> QED BY <1>1, <1>2, <1>3, TakesEffect DEF Begin

\* Every handler takes effect, except that a wait that blocks does nothing yet.
LEMMA HandlerPromise ==
    ASSUME IInv, NEW c \in Clients, Handler(c)
    PROVE  Promise!TakeEffect(c) \/ UNCHANGED Promise!vars
<1>0. {"ok", "idle", "busy"} \subseteq Promise!Answers
  BY DEF Promise!Answers
<1>a. ASSUME NEW op, Begin(c, op), NEW x \in {"ok", "idle", "busy"},
             Return(c, x)
      PROVE  /\ asked[c] # None /\ Result[c] = "none"
             /\ Result' = [Result EXCEPT ![c] = x] /\ Result'[c] = x
             /\ x \in Promise!Answers \union {"under way"}
  BY <1>0, <1>a, ReturnPromise DEF Begin
<1>1. CASE move_cb(c)
  <2>1. CASE Refused(c)
    BY <1>1, <2>1, RefusedPromise DEF move_cb
  <2>2. CASE motion' = Promise!Moving(c) /\ asked[c].sync_type = 0 /\ Block(c)
    <3>1. asked[c] # None /\ Result[c] = "none" /\ asked[c].op = "move"
      BY <1>1 DEF move_cb, Begin, IInv, Progress, Result
    <3>2. Result' = [Result EXCEPT ![c] = "under way"] /\ Result'[c] = "under way"
      BY <1>1, <2>2, <3>1 DEF move_cb, Begin, Block, IInv, TypeOK, Result
    <3>3. Promise!Effect(c, asked[c])
      BY <2>2, <3>1, <3>2 DEF Promise!Effect, Result
    <3> QED BY <1>1, <3>1, <3>2, <3>3, TakesEffect DEF move_cb, Begin
  <2>3. CASE motion' = Promise!Moving(c) /\ asked[c].sync_type # 0 /\ Return(c, "ok")
    <3>1. /\ asked[c] # None /\ Result[c] = "none"
          /\ Result' = [Result EXCEPT ![c] = "ok"] /\ Result'[c] = "ok"
      BY <1>1, <2>3, <1>a DEF move_cb
    <3>2. Promise!Effect(c, asked[c])
      BY <1>1, <2>3, <3>1 DEF Promise!Effect, Result, move_cb, Begin
    <3> QED BY <1>0, <1>1, <3>1, <3>2, TakesEffect DEF move_cb, Begin
  <2> QED BY <1>1, <2>1, <2>2, <2>3 DEF move_cb
<1>2. CASE jog_cb(c)
  <2>1. CASE Refused(c)
    BY <1>2, <2>1, RefusedPromise DEF jog_cb
  <2>2. CASE ~Refused(c)
    <3>1. /\ asked[c] # None /\ Result[c] = "none"
          /\ Result' = [Result EXCEPT ![c] = "ok"] /\ Result'[c] = "ok"
      BY <1>2, <2>2, <1>a DEF jog_cb
    <3>2. Promise!Effect(c, asked[c])
      BY <1>2, <2>2, <3>1 DEF Promise!Effect, Result, jog_cb, Begin, Rest
    <3> QED BY <1>0, <1>2, <3>1, <3>2, TakesEffect DEF jog_cb, Begin
  <2> QED BY <2>1, <2>2
<1>3. CASE movewait_cb(c)
  <2>1. CASE Refused(c)
    BY <1>3, <2>1, RefusedPromise DEF movewait_cb
  <2>2. CASE motion = Rest /\ Return(c, "ok")
    <3>1. /\ asked[c] # None /\ Result[c] = "none"
          /\ Result' = [Result EXCEPT ![c] = "ok"] /\ Result'[c] = "ok"
      BY <1>3, <2>2, <1>a DEF movewait_cb
    <3>2. Promise!Effect(c, asked[c])
      BY <1>3, <2>2, <3>1 DEF Promise!Effect, Result, movewait_cb, Begin, Rest
    <3> QED BY <1>0, <1>3, <3>1, <3>2, TakesEffect DEF movewait_cb, Begin
  <2>3. CASE Block(c)
    <3>1. asked[c].op = "move_wait" /\ at[c] = "queued" /\ UNCHANGED <<asked, motion, res>>
      BY <1>3, <2>3 DEF movewait_cb, Begin, Block
    <3>2. Result' = Result
      BY <2>3, <3>1 DEF IInv, TypeOK, Block, Result
    <3> QED BY <3>1, <3>2 DEF Promise!vars, Result
  <2> QED BY <1>3, <2>1, <2>2, <2>3 DEF movewait_cb
<1>4. CASE move_stop_cb(c)
  <2>1. CASE Refused(c)
    BY <1>4, <2>1, RefusedPromise DEF move_stop_cb
  <2>2. CASE ~Refused(c)
    <3>1. /\ asked[c] # None /\ Result[c] = "none"
          /\ Result' = [Result EXCEPT ![c] = "ok"] /\ Result'[c] = "ok"
      BY <1>4, <2>2, <1>a DEF move_stop_cb
    <3>2. Promise!Effect(c, asked[c])
      BY <1>4, <2>2, <3>1 DEF Promise!Effect, Result, move_stop_cb, Begin, Rest
    <3> QED BY <1>0, <1>4, <3>1, <3>2, TakesEffect DEF move_stop_cb, Begin
  <2> QED BY <2>1, <2>2
<1>5. CASE move_pause_cb(c)
  <2>1. CASE Refused(c)
    BY <1>5, <2>1, RefusedPromise DEF move_pause_cb
  <2>2. CASE ~Refused(c)
    <3>1. /\ asked[c] # None /\ Result[c] = "none"
          /\ Result' = [Result EXCEPT ![c] = "ok"] /\ Result'[c] = "ok"
      BY <1>5, <2>2, <1>a DEF move_pause_cb
    <3>2. Promise!Effect(c, asked[c])
      BY <1>5, <2>2, <3>1, Zenon DEF Promise!Effect, Result, move_pause_cb, Begin
    <3> QED BY <1>0, <1>5, <3>1, <3>2, TakesEffect DEF move_pause_cb, Begin
  <2> QED BY <2>1, <2>2
<1>6. CASE move_resume_cb(c)
  <2>1. CASE Refused(c)
    BY <1>6, <2>1, RefusedPromise DEF move_resume_cb
  <2>2. CASE ~Refused(c)
    <3>1. /\ asked[c] # None /\ Result[c] = "none"
          /\ Result' = [Result EXCEPT ![c] = "ok"] /\ Result'[c] = "ok"
      BY <1>6, <2>2, <1>a DEF move_resume_cb
    <3>2. Promise!Effect(c, asked[c])
      BY <1>6, <2>2, <3>1, Zenon DEF Promise!Effect, Result, move_resume_cb, Begin
    <3> QED BY <1>0, <1>6, <3>1, <3>2, TakesEffect DEF move_resume_cb, Begin
  <2> QED BY <2>1, <2>2
<1>7. CASE check_motion_cb(c)
  <2> DEFINE x == IF motion = Rest THEN "idle" ELSE "busy"
  <2>1. /\ asked[c] # None /\ Result[c] = "none"
        /\ Result' = [Result EXCEPT ![c] = x] /\ Result'[c] = x
    BY <1>7, <1>a DEF check_motion_cb
  <2>2. Promise!Effect(c, asked[c])
    BY <1>7, <2>1 DEF Promise!Effect, Result, check_motion_cb, Begin, Rest
  <2> QED BY <1>0, <1>7, <2>1, <2>2, TakesEffect DEF check_motion_cb, Begin
<1> QED BY <1>1, <1>2, <1>3, <1>4, <1>5, <1>6, <1>7 DEF Handler

\* A synchronous motion completes; a wait takes effect when it returns.
LEMMA DrflReturnsPromise ==
    ASSUME IInv, NEW c \in Clients, DrflReturns(c)
    PROVE  Promise!Complete(c) \/ Promise!TakeEffect(c)
<1>1. PICK x \in {"ok", "failed"} : Return(c, x)
  BY DEF DrflReturns
<1>2. x \in Promise!Answers /\ at[c] = "blocked" /\ UNCHANGED <<asked, motion>>
  BY DEF Promise!Answers, DrflReturns
<1>3. CASE asked[c].op = "move"
  <2>1. Result[c] = "under way" /\ motion.by # c
    BY <1>2, <1>3 DEF Result, DrflReturns
  <2>2. Result' = [Result EXCEPT ![c] = x]
    BY <1>1, <1>2 DEF IInv, TypeOK, Result, Return
  <2> QED BY <1>2, <2>1, <2>2 DEF Promise!Complete, Result
<1>4. CASE asked[c].op # "move"
  <2>1. /\ asked[c] # None /\ Result[c] = "none"
        /\ Result' = [Result EXCEPT ![c] = x] /\ Result'[c] = x
    BY <1>1, <1>2, <1>4, ReturnPromise
  <2>2. asked[c].op = "move_wait" /\ motion = Rest
    BY <1>2, <1>4 DEF IInv, Progress, DrflReturns
  <2>3. Promise!Effect(c, asked[c])
    BY <1>2, <2>1, <2>2 DEF Promise!Effect, Result, Rest
  <2> QED BY <1>2, <2>1, <2>3, TakesEffect
<1> QED BY <1>3, <1>4

\* Responding is answering.
LEMMA RespondPromise ==
    ASSUME IInv, NEW c \in Clients, Respond(c)
    PROVE  Promise!Answer(c)
<1>1. Result[c] = res[c] /\ res[c] \in Promise!Answers \ {"none"}
  BY DEF IInv, TypeOK, Progress, Respond, Result
<1>2. Result' = [Result EXCEPT ![c] = "none"]
  BY DEF IInv, TypeOK, Respond, Result
<1> QED BY <1>1, <1>2 DEF Respond, Promise!Answer, None, Result

\* Every step of the services is a step of the promise, or leaves it as it is.
LEMMA NextPromise == IInv /\ [Next]_vars => [Promise!Next]_(Promise!vars)
<1> SUFFICES ASSUME IInv, [Next]_vars PROVE [Promise!Next]_(Promise!vars)
  OBVIOUS
<1>1. CASE UNCHANGED vars
  BY <1>1 DEF vars, Promise!vars
<1>2. CASE \E c \in Clients : \E r \in Requests : Send(c, r)
  BY <1>2, SendPromise DEF Promise!Next, Requests
<1>3. CASE \E c \in Clients : Handler(c)
  BY <1>3, HandlerPromise DEF Promise!Next
<1>4. CASE \E c \in Clients : DrflReturns(c)
  BY <1>4, DrflReturnsPromise DEF Promise!Next
<1>5. CASE \E c \in Clients : Respond(c)
  BY <1>5, RespondPromise DEF Promise!Next
<1>6. CASE DrflHalts
  BY <1>6 DEF DrflHalts, Promise!Next, Promise!Halt, Rest
<1> QED BY <1>1, <1>2, <1>3, <1>4, <1>5, <1>6 DEF Next

\* For every set of clients, the services with their callback groups and
\* blocking DRFL calls implement the promise (dsr_controller2.cpp:406-816,2311).
THEOREM ServicesKeepPromise == Spec => KeepsPromise
<1>1. Init => Promise!Init
  BY InitPromise
<1>2. IInv /\ [Next]_vars => [Promise!Next]_(Promise!vars)
  BY NextPromise
<1> QED BY <1>1, <1>2, Invariance, PTL DEF Spec, Safe, KeepsPromise, Promise!Spec
===============================================================================
