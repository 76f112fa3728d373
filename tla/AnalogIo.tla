------------------------------- MODULE AnalogIo --------------------------------
(***************************************************************************)
(* The analog channels of the control box: the Python functions of         *)
(* DSR_ROBOT2.py, the service handlers of dsr_controller2.cpp and the box. *)
(* Three parties remember the mode of an output channel: every script, the *)
(* controller node and the box itself; the first two only to check ranges. *)
(*                                                                         *)
(* A script waits for the answer to its call.  The handlers belong to one  *)
(* mutually exclusive callback group and run one at a time, in any order   *)
(* among the clients.  on_activate creates the services first and resets   *)
(* the controller's memory last, on another thread: its two stores may     *)
(* come between a handler's look at the memory and its call of DRFL.       *)
(***************************************************************************)
EXTENDS Integers

CONSTANTS
    Scripts,        \* clients that use DSR_ROBOT2.py
    Nodes,          \* clients that call the services directly
    Values,         \* values a client may want to put out
    InputTypes,     \* channels whose input's type clients set
    Refusals        \* channels whose output's mode DRFL may refuse to set

ASSUME ClientsAssumption == Scripts \intersect Nodes = {}
ASSUME ValuesAssumption == Values \subseteq Int

DR_ANALOG_CURRENT == 0
DR_ANALOG_VOLTAGE == 1
Modes    == {DR_ANALOG_CURRENT, DR_ANALOG_VOLTAGE}
NotSet   == -1
Channels == {1, 2}

ASSUME ChannelsAssumption ==
    InputTypes \subseteq Channels /\ Refusals \subseteq Channels

Clients  == Scripts \union Nodes

VARIABLES
    resets,         \* how many of on_activate's last stores are done
    scriptMode,     \* _g_analog_output_mode_ch1/2 of every script
    g_nAnalogOutputMode,    \* g_nAnalogOutputModeCh1/2
    box,            \* external: the mode of every output of the box
    pending,        \* the request of every client
    answer,         \* success of every client's last request
    running,        \* the client whose handler is about to call DRFL
    fresh,          \* that handler began after on_activate had ended
    out             \* the value last put out, with its channel, the box's mode
                    \* and whether its handler was fresh
service == <<pending, answer, running, fresh>>
vars == <<resets, scriptMode, g_nAnalogOutputMode, box, service, out>>

NoRequest == [op |-> "none"]
Request ==
    LET Ch == Channels \union {0, 3}
        Md == Modes \union {2}
    IN {NoRequest}
           \union [op : {"output"}, channel : Ch, value : Values]
           \union [op : {"output_type", "input_type"}, channel : Ch, mode : Md]
           \union [op : {"input"}, channel : Ch]
NoOutput  == [channel |-> 1, value |-> NotSet, mode |-> NotSet, fresh |-> FALSE]

\* on_activate has ended.
active == resets = 2

\* The services have just been created; the globals of the node are zero and
\* the box is in the modes of an earlier session.
Init ==
    /\ resets = 0
    /\ scriptMode = [c \in Scripts |-> [ch \in Channels |-> NotSet]]
    /\ g_nAnalogOutputMode = [ch \in Channels |-> 0]
    /\ box \in [Channels -> Modes]
    /\ pending = [c \in Clients |-> NoRequest]
    /\ answer = [c \in Clients |-> FALSE]
    /\ running = {}
    /\ fresh = FALSE
    /\ out = NoOutput

InRange(mode, v) ==
    \/ mode = DR_ANALOG_CURRENT /\ v >= 4 /\ v <= 20
    \/ mode = DR_ANALOG_VOLTAGE /\ v >= 0 /\ v <= 10

-----------------------------------------------------------------------------
(***************************************************************************)
(* DSR_ROBOT2.py.  A call that raises changes nothing.                     *)
(***************************************************************************)
Call(c, req) ==
    /\ pending[c] = NoRequest
    /\ pending' = [pending EXCEPT ![c] = req]
    /\ UNCHANGED <<resets, g_nAnalogOutputMode, box, answer, running, fresh, out>>

set_analog_output(c, ch, v) ==
    /\ InRange(scriptMode[c][ch], v)
    /\ Call(c, [op |-> "output", channel |-> ch, value |-> v])
    /\ UNCHANGED scriptMode

\* The script's memory is set before the answer is known.
set_mode_analog_output(c, ch, mod) ==
    /\ Call(c, [op |-> "output_type", channel |-> ch, mode |-> mod])
    /\ scriptMode' = [scriptMode EXCEPT ![c][ch] = mod]

set_mode_analog_input(c, ch, mod) ==
    /\ ch \in InputTypes
    /\ Call(c, [op |-> "input_type", channel |-> ch, mode |-> mod])
    /\ UNCHANGED scriptMode

get_analog_input(c, ch) ==
    /\ Call(c, [op |-> "input", channel |-> ch])
    /\ UNCHANGED scriptMode

\* A node that calls the services directly may ask for anything.
NodeRequest(c) ==
    /\ \E ch \in Channels \union {0, 3} :
           \/ \E v \in Values :
                  Call(c, [op |-> "output", channel |-> ch, value |-> v])
           \/ Call(c, [op |-> "input", channel |-> ch])
           \/ \E m \in Modes \union {2} :
                  \/ Call(c, [op |-> "output_type", channel |-> ch, mode |-> m])
                  \/ /\ ch \in Channels => ch \in InputTypes
                     /\ Call(c, [op |-> "input_type", channel |-> ch, mode |-> m])
    /\ UNCHANGED scriptMode

-----------------------------------------------------------------------------
(***************************************************************************)
(* The service handlers.                                                   *)
(***************************************************************************)
\* A handler begins: no other is running.
Handle(c, op) == running = {} /\ pending[c].op = op
Req(c)        == pending[c]

\* It goes on to its call of DRFL.
GoOn(c) ==
    /\ running' = {c}
    /\ fresh' = active
    /\ UNCHANGED <<pending, answer>>
AtDrfl(c, op) == c \in running /\ pending[c].op = op

\* The handler ends and the client gets its answer.
Respond(c, success) ==
    /\ pending' = [pending EXCEPT ![c] = NoRequest]
    /\ answer' = [answer EXCEPT ![c] = success]
    /\ running' = {}
    /\ fresh' = FALSE

\* What DRFL may answer when the mode of output ch is set.
DrflAnswers(ch) == IF ch \in Refusals THEN BOOLEAN ELSE {TRUE}

\* Mutant: only the script checks the range.
set_analog_output_cb_trusting(c) ==
    /\ Handle(c, "output")
    /\ IF Req(c).channel \in Channels THEN GoOn(c) ELSE Respond(c, FALSE)
    /\ UNCHANGED <<resets, scriptMode, g_nAnalogOutputMode, box, out>>

\* The range check, by the controller's memory.
set_analog_output_cb(c) ==
    /\ Handle(c, "output")
    /\ IF /\ Req(c).channel \in Channels
          /\ InRange(g_nAnalogOutputMode[Req(c).channel], Req(c).value)
       THEN GoOn(c)
       ELSE Respond(c, FALSE)
    /\ UNCHANGED <<resets, scriptMode, g_nAnalogOutputMode, box, out>>

\* Drfl->set_analog_output.
DrflSetAnalogOutput(c) ==
    /\ AtDrfl(c, "output")
    /\ \E ok \in BOOLEAN :
           /\ out' = IF ok THEN [channel |-> Req(c).channel, value |-> Req(c).value,
                                 mode |-> box[Req(c).channel], fresh |-> fresh]
                           ELSE out
           /\ Respond(c, ok)
    /\ UNCHANGED <<resets, scriptMode, g_nAnalogOutputMode, box>>

\* Asks for the mode of the output of that channel, not for the input's.
get_analog_input_cb(c) ==
    /\ Handle(c, "input")
    /\ Respond(c, /\ Req(c).channel \in Channels
                  /\ g_nAnalogOutputMode[Req(c).channel] # NotSet)
    /\ UNCHANGED <<resets, scriptMode, g_nAnalogOutputMode, box, out>>

ValidType(r) == r.channel \in Channels /\ r.mode \in Modes

\* Mutant: the mode is stored without the range check.
set_analog_output_type_cb_any(c) ==
    /\ Handle(c, "output_type")
    /\ IF Req(c).channel \in Channels
       THEN /\ g_nAnalogOutputMode' =
                   [g_nAnalogOutputMode EXCEPT ![Req(c).channel] = Req(c).mode]
            /\ GoOn(c)
       ELSE Respond(c, FALSE) /\ UNCHANGED g_nAnalogOutputMode
    /\ UNCHANGED <<resets, scriptMode, box, out>>

\* The controller's memory is set before DRFL is asked.
set_analog_output_type_cb(c) ==
    /\ Handle(c, "output_type")
    /\ IF ValidType(Req(c))
       THEN /\ g_nAnalogOutputMode' =
                   [g_nAnalogOutputMode EXCEPT ![Req(c).channel] = Req(c).mode]
            /\ GoOn(c)
       ELSE Respond(c, FALSE) /\ UNCHANGED g_nAnalogOutputMode
    /\ UNCHANGED <<resets, scriptMode, box, out>>

\* Mutant: the mode is only remembered.
DrflSetModeAnalogOutputLocal(c) ==
    /\ AtDrfl(c, "output_type")
    /\ Respond(c, TRUE)
    /\ UNCHANGED <<resets, scriptMode, g_nAnalogOutputMode, box, out>>

\* Drfl->set_mode_analog_output; nothing is taken back when it refuses.
DrflSetModeAnalogOutput(c) ==
    /\ AtDrfl(c, "output_type")
    /\ \E ok \in DrflAnswers(Req(c).channel) :
           /\ box' = IF ok THEN [box EXCEPT ![Req(c).channel] = Req(c).mode] ELSE box
           /\ Respond(c, ok)
    /\ UNCHANGED <<resets, scriptMode, g_nAnalogOutputMode, out>>

\* The type of the input goes to the memory of the output's mode.
set_analog_input_type_cb(c) ==
    /\ Handle(c, "input_type")
    /\ \E ok \in BOOLEAN :
           IF ValidType(Req(c)) /\ ok
           THEN /\ g_nAnalogOutputMode' = [g_nAnalogOutputMode EXCEPT
                                               ![Req(c).channel] = Req(c).mode]
                /\ Respond(c, TRUE)
           ELSE Respond(c, FALSE) /\ UNCHANGED g_nAnalogOutputMode
    /\ UNCHANGED <<resets, scriptMode, box, out>>

\* The last two statements of on_activate, one channel each.
on_activate_resets ==
    /\ ~active
    /\ resets' = resets + 1
    /\ g_nAnalogOutputMode' = [g_nAnalogOutputMode EXCEPT ![resets'] = NotSet]
    /\ UNCHANGED <<scriptMode, box, service, out>>

-----------------------------------------------------------------------------
ScriptCall(c) ==
    \E ch \in Channels :
        \/ \E v \in Values : set_analog_output(c, ch, v)
        \/ \E m \in Modes : \/ set_mode_analog_output(c, ch, m)
                            \/ set_mode_analog_input(c, ch, m)
        \/ get_analog_input(c, ch)

Handler(c) ==
    \/ set_analog_output_cb(c) \/ DrflSetAnalogOutput(c)
    \/ get_analog_input_cb(c)
    \/ set_analog_output_type_cb(c) \/ DrflSetModeAnalogOutput(c)
    \/ set_analog_input_type_cb(c)

Next ==
    \/ \E c \in Scripts : ScriptCall(c)
    \/ \E c \in Nodes : NodeRequest(c)
    \/ \E c \in Clients : Handler(c)
    \/ on_activate_resets

Spec == Init /\ [][Next]_vars

-----------------------------------------------------------------------------
\* Every variable stays in its type; the modes are those of the enumeration.
TypeOK ==
    /\ resets \in 0..2
    /\ scriptMode \in [Scripts -> [Channels -> Modes \union {NotSet}]]
    /\ g_nAnalogOutputMode \in [Channels -> Modes \union {NotSet}]
    /\ box \in [Channels -> Modes]
    /\ pending \in [Clients -> Request]
    /\ answer \in [Clients -> BOOLEAN]
    /\ running \subseteq Clients
    /\ fresh \in BOOLEAN
    /\ out \in [channel : Channels, value : Values \union {NotSet},
               mode : Modes \union {NotSet}, fresh : BOOLEAN]

\* Nobody sets the type of this channel's input, and DRFL takes its modes.
Untouched(ch) == ch \notin InputTypes \union Refusals

\* What a handler that began after on_activate had ended puts out on an
\* untouched channel lies in the range of the mode the box is in, although the
\* scripts' memories go stale when another client changes the mode, and
\* whatever is done to the other channel.  A handler that looked at the memory
\* before the reset is out: it may have seen the initial 0, DR_ANALOG_CURRENT,
\* and put out a current later (dsr_controller2.cpp:1663-1717,2430-2431).
OutputInRange ==
    out.fresh /\ Untouched(out.channel) => InRange(out.mode, out.value)

\* Once on_activate has ended, and while no handler is between its store and
\* its call of DRFL, the controller's memory of an untouched channel is unset or
\* is the mode of the box, also when the reset came in the middle of a handler
\* (dsr_controller2.cpp:1763-1767,2430-2431).
MemoryIsTrue ==
    active /\ running = {} =>
        \A ch \in Channels :
            Untouched(ch) => g_nAnalogOutputMode[ch] \in {NotSet, box[ch]}

\* The same of every channel: "value is out of range [normal range: 4.0 ~ 20.0]"
\* (dsr_controller2.cpp:1678).
EveryOutputInRange == out.fresh => InRange(out.mode, out.value)
===============================================================================
