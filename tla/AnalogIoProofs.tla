---------------------------- MODULE AnalogIoProofs -----------------------------
(***************************************************************************)
(* Proofs about AnalogIo: on a channel whose input's type nobody sets and  *)
(* whose modes DRFL does not refuse, the requests of any number of scripts *)
(* and nodes whose handlers begin after on_activate put out only values of *)
(* the mode the box is in.                                                 *)
(***************************************************************************)
EXTENDS AnalogIo, TLAPS

(***************************************************************************)
(* The inductive invariant.  The memory of a channel is true from its own  *)
(* reset on, before on_activate has ended; while a handler is between its  *)
(* store and its call of DRFL the memory is the mode it is about to set.   *)
(* What a fresh handler is about to put out is in range already.           *)
(***************************************************************************)
\* A request under way sets the type only of an input in InputTypes.
Allowed(r) ==
    r.op = "input_type" /\ r.channel \in Channels => r.channel \in InputTypes

\* The handlers run one at a time, and one at its call of DRFL has checked
\* its request.
OneAtDrfl ==
    /\ \A c, d \in running : c = d
    /\ \A c \in running : /\ pending[c].op \in {"output", "output_type"}
                          /\ pending[c].channel \in Channels
                          /\ pending[c].op = "output_type" => pending[c].mode \in Modes

SetsMode(c, ch) == pending[c].op = "output_type" /\ pending[c].channel = ch

Remembers(ch) ==
    /\ \A c \in running :
           SetsMode(c, ch) => g_nAnalogOutputMode[ch] \in {NotSet, pending[c].mode}
    /\ \/ \E c \in running : SetsMode(c, ch)
       \/ g_nAnalogOutputMode[ch] \in {NotSet, box[ch]}

MemoryInv == \A ch \in Channels : ch <= resets /\ Untouched(ch) => Remembers(ch)

OutputReady ==
    \A c \in running :
        pending[c].op = "output" /\ fresh /\ Untouched(pending[c].channel)
            => InRange(box[pending[c].channel], pending[c].value)

IInv ==
    /\ TypeOK
    /\ OutputInRange
    /\ OneAtDrfl
    /\ MemoryInv
    /\ OutputReady
    /\ \A c \in Clients : Allowed(pending[c])

\* The initial states satisfy it.
LEMMA InitIInv == Init => IInv
  <1> SUFFICES ASSUME Init PROVE IInv
    OBVIOUS
  <1>1. pending \in [Clients -> Request]
    BY DEF Init, Request
  <1>2. out \in [channel : Channels, value : Values \union {NotSet},
                 mode : Modes \union {NotSet}, fresh : BOOLEAN]
    BY DEF Init, NoOutput, Channels
  <1>3. TypeOK
    <2>1. /\ scriptMode \in [Scripts -> [Channels -> Modes \union {NotSet}]]
          /\ g_nAnalogOutputMode \in [Channels -> Modes \union {NotSet}]
      BY DEF Init, Modes, DR_ANALOG_CURRENT, DR_ANALOG_VOLTAGE
    <2>2. box \in [Channels -> Modes] /\ running \subseteq Clients /\ resets \in 0..2
      BY DEF Init
    <2>3. answer \in [Clients -> BOOLEAN]
      BY DEF Init
    <2>4. fresh \in BOOLEAN
      BY DEF Init
    <2> QED
      BY <1>1, <1>2, <2>1, <2>2, <2>3, <2>4 DEF TypeOK
  <1>4. OutputInRange
    BY DEF Init, OutputInRange, NoOutput
  <1>5. \A c \in Clients : Allowed(pending[c])
    BY DEF Init, NoRequest, Allowed
  <1>6. OneAtDrfl /\ OutputReady
    BY DEF Init, OneAtDrfl, OutputReady
  <1>7. MemoryInv
    BY DEF Init, MemoryInv, Channels
  <1> QED
    BY <1>3, <1>4, <1>5, <1>6, <1>7 DEF IInv

\* A call of a client leaves the controller and the box alone.
LEMMA CallStep ==
    ASSUME IInv, NEW c \in Clients, NEW req \in Request, Allowed(req),
           Call(c, req),
           scriptMode' \in [Scripts -> [Channels -> Modes \union {NotSet}]]
    PROVE  IInv'
  <1>1. pending' = [pending EXCEPT ![c] = req]
    BY DEF Call
  <1>2. pending' \in [Clients -> Request]
    BY <1>1 DEF IInv, TypeOK
  <1>3. \A x \in Clients : Allowed(pending'[x])
    BY <1>1 DEF IInv, TypeOK
  <1>4. c \notin running
    BY DEF Call, IInv, OneAtDrfl, NoRequest
  <1>5. /\ UNCHANGED <<resets, g_nAnalogOutputMode, box, running, fresh, out>>
        /\ \A x \in running : pending'[x] = pending[x]
    BY <1>1, <1>4 DEF Call, IInv, TypeOK
  <1>6. TypeOK' /\ OutputInRange'
    BY <1>2 DEF Call, IInv, TypeOK, OutputInRange, InRange, Untouched
  <1>7. OneAtDrfl'
    BY <1>5 DEF IInv, OneAtDrfl
  <1>8. MemoryInv'
    BY <1>5 DEF IInv, MemoryInv, Remembers, SetsMode, Untouched
  <1>9. OutputReady'
    BY <1>5 DEF IInv, OutputReady, InRange, Untouched
  <1> QED
    BY <1>3, <1>6, <1>7, <1>8, <1>9 DEF IInv

\* The requests of the clients are requests, and allowed ones.
LEMMA RequestFacts ==
    /\ \A ch \in Channels \union {0, 3}, v \in Values :
           [op |-> "output", channel |-> ch, value |-> v] \in Request
    /\ \A ch \in Channels \union {0, 3}, m \in Modes \union {2} :
           /\ [op |-> "output_type", channel |-> ch, mode |-> m] \in Request
           /\ [op |-> "input_type", channel |-> ch, mode |-> m] \in Request
    /\ \A ch \in Channels \union {0, 3} :
           [op |-> "input", channel |-> ch] \in Request
  BY DEF Request

\* Requests other than the setting of an input's type are always allowed.
LEMMA AllowedFacts ==
    /\ \A ch, v : Allowed([op |-> "output", channel |-> ch, value |-> v])
    /\ \A ch, m : Allowed([op |-> "output_type", channel |-> ch, mode |-> m])
    /\ \A ch : Allowed([op |-> "input", channel |-> ch])
    /\ \A ch, m : (ch \in Channels => ch \in InputTypes) =>
           Allowed([op |-> "input_type", channel |-> ch, mode |-> m])
  BY DEF Allowed

\* A script's call.
LEMMA ScriptStep ==
    ASSUME IInv, NEW c \in Scripts, ScriptCall(c)
    PROVE  IInv'
  <1>0. c \in Clients
    BY DEF Clients
  <1>1. PICK ch \in Channels :
            \/ \E v \in Values : set_analog_output(c, ch, v)
            \/ \E m \in Modes : \/ set_mode_analog_output(c, ch, m)
                                \/ set_mode_analog_input(c, ch, m)
            \/ get_analog_input(c, ch)
    BY DEF ScriptCall
  <1>2. ASSUME NEW v \in Values, set_analog_output(c, ch, v)
        PROVE  IInv'
    <2>1. [op |-> "output", channel |-> ch, value |-> v] \in Request
      BY RequestFacts
    <2>2. scriptMode' \in [Scripts -> [Channels -> Modes \union {NotSet}]]
      BY <1>2 DEF set_analog_output, IInv, TypeOK
    <2> QED
      BY <1>0, <1>2, <2>1, <2>2, AllowedFacts, CallStep DEF set_analog_output
  <1>3. ASSUME NEW m \in Modes, set_mode_analog_output(c, ch, m)
        PROVE  IInv'
    <2>1. [op |-> "output_type", channel |-> ch, mode |-> m] \in Request
      BY RequestFacts
    <2>2. scriptMode' \in [Scripts -> [Channels -> Modes \union {NotSet}]]
      BY <1>3 DEF set_mode_analog_output, IInv, TypeOK
    <2> QED
      BY <1>0, <1>3, <2>1, <2>2, AllowedFacts, CallStep DEF set_mode_analog_output
  <1>4. CASE get_analog_input(c, ch)
    <2>1. [op |-> "input", channel |-> ch] \in Request
      BY RequestFacts
    <2>2. scriptMode' \in [Scripts -> [Channels -> Modes \union {NotSet}]]
      BY <1>4 DEF get_analog_input, IInv, TypeOK
    <2> QED
      BY <1>0, <1>4, <2>1, <2>2, AllowedFacts, CallStep DEF get_analog_input
  <1>5. ASSUME NEW m \in Modes, set_mode_analog_input(c, ch, m)
        PROVE  IInv'
    <2>1. [op |-> "input_type", channel |-> ch, mode |-> m] \in Request
      BY RequestFacts
    <2>2. scriptMode' \in [Scripts -> [Channels -> Modes \union {NotSet}]]
      BY <1>5 DEF set_mode_analog_input, IInv, TypeOK
    <2> QED
      BY <1>0, <1>5, <2>1, <2>2, AllowedFacts, CallStep DEF set_mode_analog_input
  <1> QED
    BY <1>1, <1>2, <1>3, <1>4, <1>5

\* A node's request.
LEMMA NodeStep ==
    ASSUME IInv, NEW c \in Nodes, NodeRequest(c)
    PROVE  IInv'
  <1>0. c \in Clients
    BY DEF Clients
  <1>1. scriptMode' \in [Scripts -> [Channels -> Modes \union {NotSet}]]
    BY DEF NodeRequest, IInv, TypeOK
  <1>2. PICK ch \in Channels \union {0, 3} :
            \/ \E v \in Values :
                   Call(c, [op |-> "output", channel |-> ch, value |-> v])
            \/ Call(c, [op |-> "input", channel |-> ch])
            \/ \E m \in Modes \union {2} :
                   \/ Call(c, [op |-> "output_type", channel |-> ch, mode |-> m])
                   \/ /\ ch \in Channels => ch \in InputTypes
                      /\ Call(c, [op |-> "input_type", channel |-> ch, mode |-> m])
    BY DEF NodeRequest
  <1>3. ASSUME NEW v \in Values,
               Call(c, [op |-> "output", channel |-> ch, value |-> v])
        PROVE  IInv'
    BY <1>0, <1>1, <1>3, RequestFacts, AllowedFacts, CallStep
  <1>4. CASE Call(c, [op |-> "input", channel |-> ch])
    BY <1>0, <1>1, <1>4, RequestFacts, AllowedFacts, CallStep
  <1>5. ASSUME NEW m \in Modes \union {2},
               Call(c, [op |-> "output_type", channel |-> ch, mode |-> m])
        PROVE  IInv'
    BY <1>0, <1>1, <1>5, RequestFacts, AllowedFacts, CallStep
  <1>6. ASSUME NEW m \in Modes \union {2}, ch \in Channels => ch \in InputTypes,
               Call(c, [op |-> "input_type", channel |-> ch, mode |-> m])
        PROVE  IInv'
    BY <1>0, <1>1, <1>6, RequestFacts, AllowedFacts, CallStep
  <1> QED
    BY <1>2, <1>3, <1>4, <1>5, <1>6

\* The answer to a client frees it for its next call.
LEMMA RespondFacts ==
    ASSUME IInv, NEW c \in Clients, NEW ok \in BOOLEAN, Respond(c, ok)
    PROVE  /\ pending' \in [Clients -> Request]
           /\ answer' \in [Clients -> BOOLEAN]
           /\ running' = {} /\ fresh' \in BOOLEAN
           /\ \A x \in Clients : Allowed(pending'[x])
           /\ OneAtDrfl' /\ OutputReady'
  <1>1. pending' = [pending EXCEPT ![c] = NoRequest]
    BY DEF Respond
  <1>2. NoRequest \in Request /\ Allowed(NoRequest)
    BY DEF Request, NoRequest, Allowed
  <1>3. pending' \in [Clients -> Request]
    BY <1>1, <1>2 DEF IInv, TypeOK
  <1>4. \A x \in Clients : Allowed(pending'[x])
    BY <1>1, <1>2 DEF IInv, TypeOK
  <1>5. answer' \in [Clients -> BOOLEAN] /\ running' = {} /\ fresh' \in BOOLEAN
    BY DEF Respond, IInv, TypeOK
  <1> QED
    BY <1>3, <1>4, <1>5 DEF OneAtDrfl, OutputReady

\* An answer that comes from a handler which is not at DRFL changes nothing
\* that the memory depends on.
LEMMA RefuseStep ==
    ASSUME IInv, NEW c \in Clients, NEW ok \in BOOLEAN, running = {}, Respond(c, ok),
           UNCHANGED <<resets, scriptMode, g_nAnalogOutputMode, box, out>>
    PROVE  IInv'
  <1>1. TypeOK'
    BY RespondFacts DEF IInv, TypeOK
  <1>2. OutputInRange'
    BY DEF IInv, OutputInRange, InRange, Untouched
  <1>3. MemoryInv'
    BY RespondFacts DEF IInv, MemoryInv, Remembers, Untouched
  <1> QED
    BY <1>1, <1>2, <1>3, RespondFacts DEF IInv

\* A request for an output has a value; one that sets a mode has a mode.
LEMMA ReqFacts ==
    ASSUME IInv, NEW c \in Clients
    PROVE  /\ pending[c] \in Request
           /\ pending[c].op = "output" => pending[c].value \in Values
  <1>1. pending[c] \in Request
    BY DEF IInv, TypeOK
  <1> QED
    BY <1>1 DEF Request, NoRequest

\* The range check: what goes on to DRFL is in range, if the memory is true.
LEMMA OutputCheckStep ==
    ASSUME IInv, NEW c \in Clients, set_analog_output_cb(c)
    PROVE  IInv'
  <1> DEFINE r == Req(c)
  <1>1. /\ running = {} /\ r.op = "output"
        /\ UNCHANGED <<resets, scriptMode, g_nAnalogOutputMode, box, out>>
    BY DEF set_analog_output_cb, Handle, Req
  <1>2. CASE Respond(c, FALSE)
    BY <1>1, <1>2, RefuseStep
  <1>3. CASE /\ r.channel \in Channels
             /\ InRange(g_nAnalogOutputMode[r.channel], r.value)
             /\ GoOn(c)
    <2>1. running' = {c} /\ fresh' = active /\ UNCHANGED <<pending, answer>>
      BY <1>3 DEF GoOn
    <2>2. TypeOK'
      BY <1>1, <2>1 DEF IInv, TypeOK, active
    <2>3. OutputInRange'
      BY <1>1 DEF IInv, OutputInRange, InRange, Untouched
    <2>4. OneAtDrfl'
      BY <1>1, <1>3, <2>1 DEF OneAtDrfl, Req
    <2>5. MemoryInv'
      <3>1. r.op # "output_type"
        BY <1>1
      <3> QED
        BY <1>1, <2>1, <3>1 DEF IInv, MemoryInv, Remembers, SetsMode, Untouched, Req
    <2>6. active /\ Untouched(r.channel) => InRange(box[r.channel], r.value)
      <3>1. ~InRange(NotSet, r.value)
        BY DEF InRange, NotSet, DR_ANALOG_CURRENT, DR_ANALOG_VOLTAGE
      <3>2. active /\ Untouched(r.channel) =>
                g_nAnalogOutputMode[r.channel] \in {NotSet, box[r.channel]}
        <4>1. active => r.channel <= resets
          BY <1>3 DEF active, Channels
        <4> QED
          BY <1>1, <1>3, <4>1 DEF IInv, MemoryInv, Remembers
      <3> QED
        BY <1>3, <3>1, <3>2
    <2>7. OutputReady'
      BY <1>1, <2>1, <2>6 DEF OutputReady, InRange, Untouched, Req
    <2> QED
      BY <2>1, <2>2, <2>3, <2>4, <2>5, <2>7 DEF IInv
  <1> QED
    BY <1>2, <1>3 DEF set_analog_output_cb

\* DRFL puts the value out.
LEMMA OutputStep ==
    ASSUME IInv, NEW c \in Clients, DrflSetAnalogOutput(c)
    PROVE  IInv'
  <1> DEFINE r == Req(c)
  <1>1. /\ c \in running /\ r.op = "output"
        /\ UNCHANGED <<resets, scriptMode, g_nAnalogOutputMode, box>>
    BY DEF DrflSetAnalogOutput, AtDrfl, Req
  <1>2. PICK ok \in BOOLEAN :
            /\ out' = IF ok THEN [channel |-> r.channel, value |-> r.value,
                                  mode |-> box[r.channel], fresh |-> fresh]
                            ELSE out
            /\ Respond(c, ok)
    BY DEF DrflSetAnalogOutput
  <1>3. r.channel \in Channels /\ r.value \in Values /\ box[r.channel] \in Modes
    BY <1>1, ReqFacts DEF IInv, OneAtDrfl, TypeOK, Req
  <1>4. out' \in [channel : Channels, value : Values \union {NotSet},
                  mode : Modes \union {NotSet}, fresh : BOOLEAN]
    BY <1>2, <1>3 DEF IInv, TypeOK
  <1>5. TypeOK'
    BY <1>1, <1>2, <1>4, RespondFacts DEF IInv, TypeOK
  <1>6. fresh /\ Untouched(r.channel) => InRange(box[r.channel], r.value)
    BY <1>1 DEF IInv, OutputReady, Req
  <1>7. OutputInRange'
    BY <1>2, <1>6 DEF IInv, OutputInRange, InRange, Untouched
  <1>8. MemoryInv'
    <2>1. \A d \in running : d = c
      BY <1>1 DEF IInv, OneAtDrfl
    <2>2. \A ch : ~\E d \in running : SetsMode(d, ch)
      BY <1>1, <2>1 DEF SetsMode, Req
    <2>3. running' = {}
      BY <1>2, RespondFacts
    <2> QED
      BY <1>1, <2>2, <2>3 DEF IInv, MemoryInv, Remembers, Untouched
  <1> QED
    BY <1>2, <1>5, <1>7, <1>8, RespondFacts DEF IInv

\* The mode is remembered; DRFL is about to be asked.
LEMMA ModeStoreStep ==
    ASSUME IInv, NEW c \in Clients, set_analog_output_type_cb(c)
    PROVE  IInv'
  <1> DEFINE r == Req(c)
  <1>1. /\ running = {} /\ r.op = "output_type"
        /\ UNCHANGED <<resets, scriptMode, box, out>>
    BY DEF set_analog_output_type_cb, Handle, Req
  <1>2. CASE Respond(c, FALSE) /\ UNCHANGED g_nAnalogOutputMode
    BY <1>1, <1>2, RefuseStep
  <1>3. CASE /\ ValidType(r)
             /\ g_nAnalogOutputMode' =
                    [g_nAnalogOutputMode EXCEPT ![r.channel] = r.mode]
             /\ GoOn(c)
    <2>1. running' = {c} /\ fresh' = active /\ UNCHANGED <<pending, answer>>
      BY <1>3 DEF GoOn
    <2>2. r.channel \in Channels /\ r.mode \in Modes
      BY <1>3 DEF ValidType
    <2>3. /\ g_nAnalogOutputMode' \in [Channels -> Modes \union {NotSet}]
          /\ g_nAnalogOutputMode'[r.channel] = r.mode
          /\ \A ch \in Channels : ch # r.channel =>
                 g_nAnalogOutputMode'[ch] = g_nAnalogOutputMode[ch]
      BY <1>3, <2>2 DEF IInv, TypeOK
    <2>4. TypeOK'
      BY <1>1, <2>1, <2>3 DEF IInv, TypeOK, active
    <2>5. OutputInRange'
      BY <1>1 DEF IInv, OutputInRange, InRange, Untouched
    <2>6. OneAtDrfl'
      BY <1>1, <2>1, <2>2 DEF OneAtDrfl, Req
    <2>7. MemoryInv'
      <3> SUFFICES ASSUME NEW ch \in Channels, ch <= resets, Untouched(ch)
                   PROVE  Remembers(ch)'
        BY <1>1 DEF MemoryInv, Untouched
      <3>1. CASE ch = r.channel
        BY <1>1, <2>1, <2>3, <3>1 DEF Remembers, SetsMode, Req
      <3>2. CASE ch # r.channel
        <4>1. g_nAnalogOutputMode[ch] \in {NotSet, box[ch]}
          BY <1>1 DEF IInv, MemoryInv, Remembers
        <4> QED
          BY <1>1, <2>1, <2>3, <3>2, <4>1 DEF Remembers, SetsMode, Req
      <3> QED
        BY <3>1, <3>2
    <2>8. OutputReady'
      BY <1>1, <2>1 DEF OutputReady, Req
    <2> QED
      BY <2>1, <2>4, <2>5, <2>6, <2>7, <2>8 DEF IInv
  <1> QED
    BY <1>2, <1>3 DEF set_analog_output_type_cb

\* DRFL sets the mode, or refuses it on a channel of Refusals.
LEMMA ModeStep ==
    ASSUME IInv, NEW c \in Clients, DrflSetModeAnalogOutput(c)
    PROVE  IInv'
  <1> DEFINE r == Req(c)
  <1>1. /\ c \in running /\ r.op = "output_type"
        /\ UNCHANGED <<resets, scriptMode, g_nAnalogOutputMode, out>>
    BY DEF DrflSetModeAnalogOutput, AtDrfl, Req
  <1>2. PICK ok \in BOOLEAN :
            /\ box' = IF ok THEN [box EXCEPT ![r.channel] = r.mode] ELSE box
            /\ ok \/ r.channel \in Refusals
            /\ Respond(c, ok)
    BY DEF DrflSetModeAnalogOutput, DrflAnswers
  <1>3. r.channel \in Channels /\ r.mode \in Modes
    BY <1>1 DEF IInv, OneAtDrfl, Req
  <1>4. /\ box' \in [Channels -> Modes]
        /\ ok => box'[r.channel] = r.mode
        /\ \A ch \in Channels : ch # r.channel => box'[ch] = box[ch]
    BY <1>2, <1>3 DEF IInv, TypeOK
  <1>5. TypeOK'
    BY <1>1, <1>2, <1>4, RespondFacts DEF IInv, TypeOK
  <1>6. OutputInRange'
    BY <1>1 DEF IInv, OutputInRange, InRange, Untouched
  <1>7. MemoryInv'
    <2>1. running' = {}
      BY <1>2, RespondFacts
    <2> SUFFICES ASSUME NEW ch \in Channels, ch <= resets, Untouched(ch)
                 PROVE  g_nAnalogOutputMode[ch] \in {NotSet, box'[ch]}
      BY <1>1, <2>1 DEF MemoryInv, Remembers, Untouched
    <2>2. Remembers(ch)
      BY DEF IInv, MemoryInv
    <2>3. CASE ch = r.channel
      <3>1. ok
        BY <1>2, <2>3 DEF Untouched
      <3>2. g_nAnalogOutputMode[ch] \in {NotSet, r.mode}
        BY <1>1, <2>2, <2>3 DEF Remembers, SetsMode, Req
      <3> QED
        BY <1>4, <2>3, <3>1, <3>2
    <2>4. CASE ch # r.channel
      <3>1. \A d \in running : d = c
        BY <1>1 DEF IInv, OneAtDrfl
      <3>2. ~\E d \in running : SetsMode(d, ch)
        BY <2>4, <3>1 DEF SetsMode, Req
      <3> QED
        BY <1>4, <2>2, <2>4, <3>2 DEF Remembers
    <2> QED
      BY <2>3, <2>4
  <1> QED
    BY <1>2, <1>5, <1>6, <1>7, RespondFacts DEF IInv

\* The type of an input overwrites the memory of a channel of InputTypes.
LEMMA InputTypeStep ==
    ASSUME IInv, NEW c \in Clients, set_analog_input_type_cb(c)
    PROVE  IInv'
  <1> DEFINE r == Req(c)
  <1>1. /\ running = {} /\ r.op = "input_type"
        /\ UNCHANGED <<resets, scriptMode, box, out>>
    BY DEF set_analog_input_type_cb, Handle, Req
  <1>2. CASE Respond(c, FALSE) /\ UNCHANGED g_nAnalogOutputMode
    BY <1>1, <1>2, RefuseStep
  <1>3. CASE /\ ValidType(r)
             /\ g_nAnalogOutputMode' =
                    [g_nAnalogOutputMode EXCEPT ![r.channel] = r.mode]
             /\ Respond(c, TRUE)
    <2>1. r.channel \in InputTypes /\ r.channel \in Channels /\ r.mode \in Modes
      BY <1>1, <1>3 DEF ValidType, Req, IInv, Allowed
    <2>2. /\ g_nAnalogOutputMode' \in [Channels -> Modes \union {NotSet}]
          /\ \A ch \in Channels : ch # r.channel =>
                 g_nAnalogOutputMode'[ch] = g_nAnalogOutputMode[ch]
      BY <1>3, <2>1 DEF IInv, TypeOK
    <2>3. TypeOK'
      BY <1>1, <1>3, <2>2, RespondFacts DEF IInv, TypeOK
    <2>4. MemoryInv'
      <3>1. running' = {}
        BY <1>3, RespondFacts
      <3> SUFFICES ASSUME NEW ch \in Channels, ch <= resets, Untouched(ch)
                   PROVE  g_nAnalogOutputMode'[ch] \in {NotSet, box[ch]}
        BY <1>1, <3>1 DEF MemoryInv, Remembers, Untouched
      <3>2. ch # r.channel
        BY <2>1 DEF Untouched
      <3> QED
        BY <1>1, <2>2, <3>2 DEF IInv, MemoryInv, Remembers
    <2>5. OutputInRange'
      BY <1>1 DEF IInv, OutputInRange, InRange, Untouched
    <2> QED
      BY <1>3, <2>3, <2>4, <2>5, RespondFacts DEF IInv
  <1> QED
    BY <1>2, <1>3 DEF set_analog_input_type_cb

\* A handler.
LEMMA HandlerStep ==
    ASSUME IInv, NEW c \in Clients, Handler(c)
    PROVE  IInv'
  <1>1. CASE get_analog_input_cb(c)
    <2>1. PICK ok \in BOOLEAN : Respond(c, ok)
      BY <1>1 DEF get_analog_input_cb
    <2> QED
      BY <1>1, <2>1, RefuseStep DEF get_analog_input_cb, Handle
  <1> QED
    BY <1>1, OutputCheckStep, OutputStep, ModeStoreStep, ModeStep, InputTypeStep DEF Handler

\* A store of on_activate, whatever handler is in the middle.
LEMMA ResetStep ==
    ASSUME IInv, on_activate_resets
    PROVE  IInv'
  <1>1. UNCHANGED <<scriptMode, box, pending, answer, running, fresh, out>>
    BY DEF on_activate_resets, service
  <1>2. resets' = resets + 1 /\ resets' \in Channels
    BY DEF on_activate_resets, active, IInv, TypeOK, Channels
  <1>3. /\ g_nAnalogOutputMode' \in [Channels -> Modes \union {NotSet}]
        /\ g_nAnalogOutputMode'[resets'] = NotSet
        /\ \A ch \in Channels : ch # resets' =>
               g_nAnalogOutputMode'[ch] = g_nAnalogOutputMode[ch]
    BY <1>2 DEF on_activate_resets, IInv, TypeOK
  <1>4. TypeOK'
    BY <1>1, <1>2, <1>3 DEF IInv, TypeOK, Channels
  <1>5. OutputInRange' /\ OneAtDrfl' /\ OutputReady'
    BY <1>1 DEF IInv, OutputInRange, OneAtDrfl, OutputReady, InRange, Untouched
  <1>6. MemoryInv'
    <2> SUFFICES ASSUME NEW ch \in Channels, ch <= resets', Untouched(ch)
                 PROVE  Remembers(ch)'
      BY DEF MemoryInv, Untouched
    <2>1. CASE ch = resets'
      BY <1>3, <2>1 DEF Remembers
    <2>2. CASE ch # resets'
      <3>1. ch <= resets
        BY <1>2, <2>2 DEF Channels, IInv, TypeOK
      <3> QED
        BY <1>1, <1>3, <2>2, <3>1 DEF IInv, MemoryInv, Remembers, SetsMode
    <2> QED
      BY <2>1, <2>2
  <1> QED
    BY <1>1, <1>4, <1>5, <1>6 DEF IInv

\* Every step keeps the invariant.
LEMMA NextIInv == IInv /\ [Next]_vars => IInv'
  <1> SUFFICES ASSUME IInv, [Next]_vars PROVE IInv'
    OBVIOUS
  <1>1. CASE UNCHANGED vars
    <2>1. UNCHANGED <<resets, scriptMode, g_nAnalogOutputMode, box, pending, answer,
                      running, fresh, out>>
      BY <1>1 DEF vars, service
    <2>2. TypeOK' /\ OutputInRange' /\ OneAtDrfl'
      BY <2>1 DEF IInv, TypeOK, OutputInRange, InRange, OneAtDrfl, Untouched
    <2>3. MemoryInv' /\ OutputReady'
      BY <2>1 DEF IInv, MemoryInv, Remembers, SetsMode, OutputReady, InRange, Untouched
    <2> QED
      BY <2>1, <2>2, <2>3 DEF IInv
  <1> QED
    BY <1>1, ScriptStep, NodeStep, HandlerStep, ResetStep DEF Next

\* The inductive invariant holds in every reachable state.
LEMMA Invariance == Spec => []IInv
  BY InitIInv, NextIInv, PTL DEF Spec

\* With any number of scripts and nodes and any values, what a handler that
\* began after on_activate puts out on a channel whose input's type nobody sets
\* and whose modes DRFL takes lies in the range of the box's mode, when the
\* check and the call of DRFL are two steps (dsr_controller2.cpp:1663-1717).
THEOREM OutputIsSafe == Spec => []OutputInRange
  <1>1. IInv => OutputInRange
    BY DEF IInv
  <1> QED
    BY <1>1, Invariance, PTL

\* With any number of clients, the controller's memory of such a channel is
\* unset or true when no handler is at DRFL, also when a reset came between a
\* handler's store and its call of DRFL (dsr_controller2.cpp:1763-1767,2430).
THEOREM MemoryIsSafe == Spec => []MemoryIsTrue
  <1>1. IInv => MemoryIsTrue
    <2> SUFFICES ASSUME IInv, active, running = {}, NEW ch \in Channels, Untouched(ch)
                 PROVE  g_nAnalogOutputMode[ch] \in {NotSet, box[ch]}
      BY DEF MemoryIsTrue
    <2>1. ch <= resets
      BY DEF active, Channels
    <2> QED
      BY <2>1 DEF IInv, MemoryInv, Remembers
  <1> QED
    BY <1>1, Invariance, PTL

\* With any number of clients, modes and requests keep their types.
THEOREM AnalogTyped == Spec => []TypeOK
  <1>1. IInv => TypeOK
    BY DEF IInv
  <1> QED
    BY <1>1, Invariance, PTL
===============================================================================
