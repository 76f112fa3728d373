---------------------------- MODULE TcpSocketProofs ----------------------------
(***************************************************************************)
(* Proofs about TcpSocket, for both files, any sockets, ports, lengths,    *)
(* time-outs and amounts of data, with closes that may raise: nothing      *)
(* leaks, a flush drains, and a connection is reported off only when it    *)
(* has ended or was read with length 0.                                    *)
(***************************************************************************)
EXTENDS TcpSocket, TLAPS

(***************************************************************************)
(* The inductive invariant.  NoLeak speaks of the time between two calls;  *)
(* during a call the dictionaries agree all the same, and only the socket  *)
(* that is being opened may hold a port without being in them.             *)
(***************************************************************************)
Opening == {"open", "accept", "open_failed"}

Calls ==
    {Idle}
        \union [op : Opening, sock : Socks, port : {p \in Ports : p >= 0}]
        \union [op : {"read"}, sock : Socks, timeout : Timeouts,
                time_cnt : Nat, size : Nat]
        \union [op : {"flush", "flushed"}, sock : Socks, before : Nat]
        \union [op : {"clean"}, todo : SUBSET Socks]

\* The call under way is well formed; an open is for a socket that is not
\* open, a read or a flush for one that is, and clean has every entry that is
\* left still to do.
CallsFit ==
    /\ call \in Calls
    /\ call.op \in Opening => call.sock \notin CONN_LIST
    /\ call.op = "accept" => role = "server" /\ lsn[call.sock] = call.port
    /\ call.op = "open" => lsn[call.sock] = NoPort
    /\ call.op \in {"read", "flush", "flushed"} => call.sock \in CONN_LIST
    /\ call.op = "clean" => call.todo = CONN_LIST

\* The two dictionaries hold the same sockets: those that are open, and those
\* whose close raised.
ListsAgree ==
    /\ CONN_LIST = DOMAIN CONN_STATE_LIST
    /\ CONN_LIST = {s \in Socks : net[s].ours \in {"open", "broken"}}

\* A port is held by the open sockets of a server, and otherwise only by one
\* that is in the dictionaries or being opened.
PortsHeld ==
    \A s \in Socks :
        /\ lsn[s] # NoPort =>
               /\ role = "server"
               /\ \/ s \in CONN_LIST
                  \/ call.op \in {"accept", "open_failed"} /\ call.sock = s
        /\ role = "server" /\ net[s].ours = "open" => lsn[s] # NoPort

\* What is to be read was sent.
InboxSent == \A s \in Socks : net[s].inbox <= net[s].sent

IInv == TypeOK /\ CallsFit /\ ListsAgree /\ PortsHeld /\ InboxSent

\* After a clean that went through nothing is left.
CleanDone ==
    call = Idle /\ ret.op = "clean" /\ ret.exc = "none" => CONN_LIST = {} /\ END_DATA = {}

\* A flush under way: the peer has sent at least what it had when the flush
\* began, and what is there after the select that found nothing came later.
FlushCounts ==
    /\ call.op = "flush" => call.before <= net[call.sock].sent
    /\ call.op = "flushed" =>
           net[call.sock].inbox <= net[call.sock].sent - call.before

-----------------------------------------------------------------------------
(***************************************************************************)
(* What the invariant says of the connections and of the call under way.   *)
(***************************************************************************)
Connection == [ours : {"none", "open", "broken", "closed"},
               peer : {"alive", "fin", "reset", "dead"},
               inbox : 0..MaxBytes, sent : 0..MaxBytes,
               zero : BOOLEAN]

OpenCalls  == [op : Opening, sock : Socks, port : {p \in Ports : p >= 0}]
ReadCalls  == [op : {"read"}, sock : Socks, timeout : Timeouts,
               time_cnt : Nat, size : Nat]
FlushCalls == [op : {"flush", "flushed"}, sock : Socks, before : Nat]
CleanCalls == [op : {"clean"}, todo : SUBSET Socks]

\* A call under way has a socket and the fields of its kind.
LEMMA CallFacts ==
    ASSUME NEW c \in Calls
    PROVE  /\ c.op \in {"idle", "open", "accept", "open_failed", "read", "flush",
                        "flushed", "clean"}
           /\ c.op = "idle" <=> c = Idle
           /\ c.op \notin {"idle", "clean"} => c.sock \in Socks
           /\ c.op = "clean" => c \in CleanCalls /\ c.todo \subseteq Socks
           /\ c.op \in {"flush", "flushed"} => c \in FlushCalls /\ c.before \in Nat
           /\ c.op \in Opening => /\ c \in OpenCalls
                                  /\ c.port \in Ports
                                  /\ c.port \in Int
                                  /\ c.port >= 0
           /\ c.op = "read" => /\ c \in ReadCalls
                               /\ c.size \in Nat
                               /\ c.time_cnt \in Nat
                               /\ c.timeout \in Int
  <1>0. Idle.op = "idle"
    BY DEF Idle
  <1>1. CASE c = Idle
    BY <1>0, <1>1 DEF Opening
  <1>2. CASE c \in OpenCalls
    <2>1. c.op \in Opening /\ c.sock \in Socks /\ c.port \in {p \in Ports : p >= 0}
      BY <1>2 DEF OpenCalls
    <2> QED
      BY <1>0, <1>2, <2>1, SizesAssumption DEF Opening
  <1>3. CASE c \in ReadCalls
    <2>1. /\ c.op = "read" /\ c.sock \in Socks /\ c.timeout \in Timeouts
          /\ c.size \in Nat /\ c.time_cnt \in Nat
      BY <1>3 DEF ReadCalls
    <2> QED
      BY <1>0, <1>3, <2>1, SizesAssumption DEF Opening
  <1>4. CASE c \in FlushCalls
    <2>1. c.op \in {"flush", "flushed"} /\ c.sock \in Socks /\ c.before \in Nat
      BY <1>4 DEF FlushCalls
    <2> QED
      BY <1>0, <1>4, <2>1 DEF Opening
  <1>5. CASE c \in CleanCalls
    <2>1. c.op = "clean" /\ c.todo \in SUBSET Socks
      BY <1>5 DEF CleanCalls
    <2> QED
      BY <1>0, <1>5, <2>1 DEF Opening
  <1> QED
    BY <1>1, <1>2, <1>3, <1>4, <1>5 DEF Calls, OpenCalls, ReadCalls, FlushCalls, CleanCalls

\* The initial state satisfies the invariant.
LEMMA InitIInv == Init => IInv /\ CleanDone /\ FlushCounts /\ OffMeansGone
  <1> SUFFICES ASSUME Init PROVE IInv /\ CleanDone /\ FlushCounts /\ OffMeansGone
    OBVIOUS
  <1>1. call = Idle /\ call.op = "idle" /\ call \in Calls
    BY DEF Init, Idle, Calls
  <1>2. DOMAIN CONN_STATE_LIST = {} /\ CONN_LIST = {}
    BY DEF Init
  <1>3. 0 \in 0..MaxBytes
    BY SizesAssumption
  <1>4. /\ net \in [Socks -> Connection]
        /\ \A s \in Socks : net[s].ours = "none" /\ net[s].inbox <= net[s].sent
    BY <1>3 DEF Init, Connection, Ended
  <1>5. TypeOK
    BY <1>1, <1>2, <1>4 DEF Init, TypeOK, Connection, NoPort
  <1>6. CallsFit
    BY <1>1 DEF CallsFit, Opening
  <1>7. ListsAgree
    BY <1>2, <1>4 DEF ListsAgree
  <1>8. PortsHeld /\ InboxSent
    BY <1>2, <1>4 DEF Init, PortsHeld, InboxSent
  <1>9. CleanDone /\ FlushCounts /\ OffMeansGone
    BY <1>1, <1>2 DEF Init, CleanDone, FlushCounts, OffMeansGone
  <1> QED
    BY <1>5, <1>6, <1>7, <1>8, <1>9 DEF IInv

(***************************************************************************)
(* Two kinds of steps leave the dictionaries, the ports and who is open as *)
(* they are.  A quiet step ends or starts a call; a step of a peer or of a *)
(* read changes what one connection holds.                                 *)
(***************************************************************************)
\* The connections may change, but not which of them are open.
SameEnds ==
    /\ net' \in [Socks -> Connection]
    /\ \A s \in Socks : net'[s].ours = net[s].ours
    /\ \A s \in Socks : net'[s].inbox <= net'[s].sent

\* A step that keeps entries, ports and ends and fits its call keeps IInv.
LEMMA QuietStep ==
    ASSUME IInv, SameEnds, UNCHANGED <<role, CONN_LIST, lsn>>,
           END_DATA' \subseteq {"str", "int"} \X Socks,
           reachable' \in BOOLEAN,
           DOMAIN CONN_STATE_LIST' = DOMAIN CONN_STATE_LIST,
           \A s \in CONN_LIST : CONN_STATE_LIST'[s] \in {0, 1},
           \/ call' = call
           \/ call' = Idle /\ call.op \notin {"accept", "open_failed"}
           \/ call = Idle /\ CallsFit'
           \/ call.op \in {"read", "flush"} /\ CallsFit'
    PROVE  IInv'
  <1>0. Idle.op = "idle" /\ Idle \in Calls
    BY DEF Idle, Calls
  <1>1. CallsFit'
    BY <1>0 DEF IInv, CallsFit, Opening
  <1>2. call'.op \in {"idle", "open", "accept", "open_failed", "read", "flush",
                      "flushed", "clean"}
    <2>1. call' \in Calls
      BY <1>1 DEF CallsFit
    <2> QED
      BY <2>1, CallFacts
  <1>3. TypeOK'
    BY <1>2 DEF IInv, TypeOK, SameEnds, Connection, ListsAgree
  <1>4. ListsAgree'
    BY DEF IInv, ListsAgree, SameEnds
  <1>5. PortsHeld'
    <2>1. CASE call' = call
      BY <2>1 DEF IInv, PortsHeld, SameEnds
    <2>2. CASE call.op \notin {"accept", "open_failed"}
      BY <2>2 DEF IInv, PortsHeld, SameEnds
    <2> QED
      BY <1>0, <2>1, <2>2
  <1>6. InboxSent'
    BY DEF InboxSent, SameEnds
  <1> QED
    BY <1>1, <1>3, <1>4, <1>5, <1>6 DEF IInv

\* Unchanged connections have the same ends.
LEMMA SameNet == ASSUME IInv, UNCHANGED net PROVE SameEnds
  BY DEF IInv, TypeOK, InboxSent, SameEnds, Connection

\* Changing what one connection holds keeps the ends.
LEMMA NetChange ==
    ASSUME IInv, NEW s \in Socks, NEW c \in Connection,
           net' = [net EXCEPT ![s] = c],
           c.ours = net[s].ours, c.inbox <= c.sent
    PROVE  SameEnds
  <1>1. net \in [Socks -> Connection]
    BY DEF IInv, TypeOK, Connection
  <1> QED
    BY <1>1 DEF IInv, InboxSent, SameEnds

-----------------------------------------------------------------------------
(***************************************************************************)
(* The calls of a script.                                                  *)
(***************************************************************************)
\* Opening starts with a socket that is not open.
LEMMA OpenStartInv ==
    ASSUME IInv, NEW s \in Socks, NEW p \in Ports, OpenStart(s, p), UNCHANGED role
    PROVE  IInv'
  <1>1. SameEnds
    BY SameNet DEF OpenStart
  <1>2. s \notin CONN_LIST
    BY DEF OpenStart, Opened
  <1>3. Idle.op = "idle" /\ Idle \in Calls
    BY DEF Idle, Calls
  <1>4. lsn[s] = NoPort
    BY <1>2, <1>3 DEF IInv, PortsHeld, OpenStart
  <1>5. call' = Idle \/ CallsFit'
    <2>1. CASE call' = [op |-> "open", sock |-> s, port |-> p] /\ p >= 0
      <3>1. call' \in Calls
        BY <2>1, SizesAssumption DEF Calls, Opening
      <3>2. call'.op = "open" /\ call'.sock = s
        BY <2>1
      <3> QED
        BY <3>1, <3>2, <1>2, <1>4 DEF CallsFit, OpenStart, lists, Opening
    <2> QED
      BY <2>1, SizesAssumption DEF OpenStart, Raise, Begin
  <1> QED
    BY <1>1, <1>3, <1>5, QuietStep DEF OpenStart, lists, IInv, TypeOK, ListsAgree

\* Calls that return at once and change no connection.
LEMMA StateInv ==
    ASSUME IInv, NEW s \in Socks, UNCHANGED role, socket_state(s) \/ socket_end_data(s)
    PROVE  IInv'
  <1>1. SameEnds
    BY SameNet DEF socket_state, socket_end_data
  <1>2. END_DATA' \subseteq {"str", "int"} \X Socks
    BY DEF IInv, TypeOK, socket_state, socket_end_data
  <1>3. Idle.op = "idle"
    BY DEF Idle
  <1> QED
    BY <1>1, <1>2, <1>3, QuietStep
       DEF socket_state, socket_end_data, Result, lists, IInv, TypeOK, ListsAgree

\* A write changes at most what the peer will answer.
LEMMA WriteInv ==
    ASSUME IInv, NEW s \in Socks, UNCHANGED role, socket_write(s)
    PROVE  IInv'
  <1>1. SameEnds
    <2>1. CASE UNCHANGED net
      BY <2>1, SameNet
    <2>2. CASE Opened(s)
      <3> DEFINE p == CASE net[s].peer = "fin"   -> "reset"
                        [] net[s].peer = "reset" -> "dead"
                        [] OTHER                 -> net[s].peer
                 c == [net[s] EXCEPT !.peer = p]
      <3>1. net[s] \in Connection /\ net[s].inbox <= net[s].sent
        BY DEF IInv, TypeOK, InboxSent, Connection
      <3>2. p \in {"alive", "fin", "reset", "dead"}
        BY <3>1 DEF Connection
      <3> HIDE DEF p
      <3>3. /\ c \in Connection
            /\ c.ours = net[s].ours
            /\ c.inbox = net[s].inbox
            /\ c.sent = net[s].sent
        BY <3>1, <3>2 DEF Connection
      <3>4. net' = [net EXCEPT ![s] = c]
        BY <2>2 DEF socket_write, p
      <3> QED
        BY <3>1, <3>3, <3>4, NetChange
    <2> QED
      BY <2>1, <2>2 DEF socket_write
  <1>3. Idle.op = "idle"
    BY DEF Idle
  <1> QED
    BY <1>1, <1>3, QuietStep DEF socket_write, lists, IInv, TypeOK, ListsAgree

\* A read or a flush starts with an open socket.
LEMMA StartInv ==
    ASSUME IInv, NEW s \in Socks, UNCHANGED role,
           \/ socket_flush(s)
           \/ \E l \in Lengths, t \in Timeouts : socket_read(s, l, t)
    PROVE  IInv'
  <1>1. SameEnds
    BY SameNet DEF socket_flush, socket_read
  <1>2. Idle.op = "idle" /\ Idle \in Calls
    BY DEF Idle, Calls
  <1>3. call = Idle
    BY DEF socket_flush, socket_read
  <1>4. call' = Idle \/ CallsFit'
    <2>1. CASE socket_flush(s) /\ Opened(s) /\ call' # Idle
      <3>0. net[s].sent \in Nat
        BY SizesAssumption DEF IInv, TypeOK
      <3>1. call' = [op |-> "flush", sock |-> s, before |-> net[s].sent]
        BY <2>1 DEF socket_flush, Begin, Raise
      <3>2. call' \in Calls /\ call'.op = "flush" /\ call'.sock = s
        BY <3>0, <3>1 DEF Calls
      <3> QED
        BY <2>1, <3>2 DEF CallsFit, Opening, Opened, socket_flush, lists
    <2>2. ASSUME NEW l \in Lengths, NEW t \in Timeouts, socket_read(s, l, t),
                 call' # Idle
          PROVE  CallsFit'
      <3>0. Opened(s) /\ l \in Int /\ l >= -1
        BY <2>2, SizesAssumption DEF socket_read, Raise, Result
      <3>1. /\ call' = [op |-> "read", sock |-> s, timeout |-> t, time_cnt |-> 0,
                        size |-> IF l = -1 THEN Buff ELSE l]
            /\ (IF l = -1 THEN Buff ELSE l) \in Nat
        BY <2>2, <3>0, SizesAssumption DEF socket_read, Raise, Result, Begin
      <3>2. call' \in Calls
        <4> DEFINE n == IF l = -1 THEN Buff ELSE l
        <4> HIDE DEF n
        <4>1. [op |-> "read", sock |-> s, timeout |-> t, time_cnt |-> 0, size |-> n] \in Calls
          BY <3>1 DEF Calls, n
        <4> QED
          BY <3>1, <4>1 DEF n
      <3>3. call'.op = "read" /\ call'.sock = s
        BY <3>1
      <3> QED
        BY <2>2, <3>0, <3>2, <3>3 DEF CallsFit, Opening, Opened, socket_read, lists
    <2>3. CASE socket_flush(s) /\ ~Opened(s)
      BY <2>3 DEF socket_flush, Result
    <2> QED
      BY <2>1, <2>2, <2>3
  <1> QED
    BY <1>1, <1>2, <1>3, <1>4, QuietStep
       DEF socket_flush, socket_read, lists, IInv, TypeOK, ListsAgree

\* An entry is dropped from both dictionaries, with its sockets and its port.
LEMMA DropInv ==
    ASSUME IInv, NEW s \in CONN_LIST, DropEntry(s), UNCHANGED <<role, reachable>>,
           call.op \in {"idle", "clean"}, CallsFit', END_DATA' \subseteq {"str", "int"} \X Socks
    PROVE  IInv'
  <1>1. s \in Socks /\ CONN_LIST \subseteq Socks
    BY DEF IInv, TypeOK
  <1>2. call'.op \in {"idle", "open", "accept", "open_failed", "read", "flush",
                      "flushed", "clean"}
    BY CallFacts DEF CallsFit
  <1>3. net \in [Socks -> Connection]
    BY DEF IInv, TypeOK, Connection
  <1> DEFINE c == Ended("closed")
  <1>4. c \in Connection /\ c.ours = "closed" /\ c.inbox <= c.sent
    BY SizesAssumption DEF Connection, Ended
  <1>5. net' = [net EXCEPT ![s] = c]
    BY DEF DropEntry
  <1> HIDE DEF c
  <1>6. /\ net' \in [Socks -> Connection] /\ net'[s] = c
        /\ \A x \in Socks \ {s} : net'[x] = net[x]
    BY <1>1, <1>3, <1>4, <1>5
  <1>7. /\ lsn' \in [Socks -> Ports \union {NoPort}] /\ lsn'[s] = NoPort
        /\ \A x \in Socks \ {s} : lsn'[x] = lsn[x]
    BY <1>1 DEF DropEntry, IInv, TypeOK
  <1>8. /\ CONN_LIST' = CONN_LIST \ {s}
        /\ DOMAIN CONN_STATE_LIST' = CONN_LIST'
        /\ \A x \in CONN_LIST' : CONN_STATE_LIST'[x] = CONN_STATE_LIST[x]
    BY DEF DropEntry, IInv, ListsAgree
  <1>9. ListsAgree'
    <2>1. \A x \in Socks : net'[x].ours \in {"open", "broken"} <=> x \in CONN_LIST'
      BY <1>4, <1>6, <1>8 DEF IInv, ListsAgree
    <2> QED
      BY <1>1, <1>8, <2>1 DEF ListsAgree
  <1>10. TypeOK'
    BY <1>1, <1>2, <1>6, <1>7, <1>8 DEF IInv, TypeOK, ListsAgree, Connection
  <1>11. PortsHeld'
    BY <1>4, <1>6, <1>7, <1>8 DEF IInv, PortsHeld
  <1>12. InboxSent'
    BY <1>4, <1>6 DEF IInv, InboxSent
  <1> QED
    BY <1>9, <1>10, <1>11, <1>12 DEF IInv

\* A close that raises leaves both entries, and the port while it is bound.
LEMMA RaiseInv ==
    ASSUME IInv, NEW s \in CONN_LIST, CloseRaises(s), UNCHANGED <<role, reachable, END_DATA>>,
           call.op \in {"idle", "clean"}, call' = Idle
    PROVE  IInv'
  <1>0. Idle.op = "idle" /\ Idle \in Calls
    BY DEF Idle, Calls
  <1>1. s \in Socks /\ CONN_LIST \subseteq Socks
    BY DEF IInv, TypeOK
  <1>2. CallsFit'
    BY <1>0 DEF CallsFit, Opening
  <1>3. net \in [Socks -> Connection]
    BY DEF IInv, TypeOK, Connection
  <1> DEFINE c == Ended("broken")
  <1>4. c \in Connection /\ c.ours = "broken" /\ c.inbox <= c.sent
    BY SizesAssumption DEF Connection, Ended
  <1>5. net' = [net EXCEPT ![s] = c]
    BY DEF CloseRaises
  <1> HIDE DEF c
  <1>6. /\ net' \in [Socks -> Connection] /\ net'[s] = c
        /\ \A x \in Socks \ {s} : net'[x] = net[x]
    BY <1>1, <1>3, <1>4, <1>5
  <1>7. /\ lsn' \in [Socks -> Ports \union {NoPort}]
        /\ lsn'[s] \in {lsn[s], NoPort}
        /\ \A x \in Socks \ {s} : lsn'[x] = lsn[x]
    BY <1>1 DEF CloseRaises, IInv, TypeOK
  <1>8. UNCHANGED <<CONN_LIST, CONN_STATE_LIST>>
    BY DEF CloseRaises, lists
  <1>9. ListsAgree'
    <2>1. \A x \in Socks : net'[x].ours \in {"open", "broken"} <=> x \in CONN_LIST
      BY <1>4, <1>6 DEF IInv, ListsAgree
    <2> QED
      BY <1>1, <1>8, <2>1 DEF IInv, ListsAgree
  <1>10. TypeOK'
    BY <1>0, <1>6, <1>7, <1>8 DEF IInv, TypeOK, Connection
  <1>11. PortsHeld'
    BY <1>0, <1>4, <1>6, <1>7, <1>8 DEF IInv, PortsHeld
  <1>12. InboxSent'
    BY <1>4, <1>6 DEF IInv, InboxSent
  <1> QED
    BY <1>2, <1>9, <1>10, <1>11, <1>12 DEF IInv

\* Closing one socket, open or not.
LEMMA CloseInv ==
    ASSUME IInv, NEW s \in Socks, UNCHANGED role,
           server_socket_close(s) \/ client_socket_close(s)
    PROVE  IInv'
  <1>0. Idle.op = "idle" /\ Idle \in Calls
    BY DEF Idle, Calls
  <1>1. call = Idle /\ call' = Idle
    BY DEF server_socket_close, client_socket_close, Result, Raise
  <1>2. END_DATA' \subseteq {"str", "int"} \X Socks /\ UNCHANGED <<END_DATA, reachable>>
    BY DEF IInv, TypeOK, server_socket_close, client_socket_close
  <1>3. CASE s \in CONN_LIST
    <2>1. DropEntry(s) \/ CloseRaises(s)
      BY <1>3 DEF server_socket_close, client_socket_close, Opened, IInv, ListsAgree
    <2>2. CallsFit'
      BY <1>0, <1>1 DEF CallsFit, Opening
    <2> QED
      BY <1>0, <1>1, <1>2, <1>3, <2>1, <2>2, DropInv, RaiseInv
  <1>4. CASE s \notin CONN_LIST
    <2>1. UNCHANGED <<lists, lsn, net>>
      BY <1>4 DEF server_socket_close, client_socket_close, Opened, IInv, ListsAgree
    <2>2. SameEnds
      BY <2>1, SameNet
    <2> QED
      BY <1>0, <1>1, <1>2, <2>1, <2>2, QuietStep DEF lists, IInv, TypeOK, ListsAgree
  <1> QED
    BY <1>3, <1>4

\* Cleaning starts with every entry still to do.
LEMMA CleanInv == ASSUME IInv, UNCHANGED role, clean_socket PROVE IInv'
  <1>1. SameEnds
    BY SameNet DEF clean_socket
  <1>2. call' = [op |-> "clean", todo |-> CONN_LIST]
    BY DEF clean_socket, Begin
  <1>3. call' \in Calls /\ call'.op = "clean" /\ call'.todo = CONN_LIST
    <2>1. CONN_LIST \in SUBSET Socks
      BY DEF IInv, TypeOK
    <2> QED
      BY <1>2, <2>1 DEF Calls
  <1>4. CallsFit'
    BY <1>3 DEF CallsFit, Opening, clean_socket, lists
  <1> QED
    BY <1>1, <1>4, QuietStep DEF clean_socket, lists, IInv, TypeOK, ListsAgree

-----------------------------------------------------------------------------
(***************************************************************************)
(* A call goes on.                                                         *)
(***************************************************************************)
\* One entry is cleaned, or the loop ends.
LEMMA CleanStepInv == ASSUME IInv, UNCHANGED role, CleanStep PROVE IInv'
  <1>0. Idle.op = "idle" /\ Idle \in Calls
    BY DEF Idle, Calls
  <1>1. /\ call \in CleanCalls /\ call.op = "clean"
        /\ call.todo = CONN_LIST /\ CONN_LIST \subseteq Socks
    BY CallFacts DEF IInv, CallsFit, CleanStep
  <1>2. UNCHANGED reachable /\ END_DATA' \subseteq {"str", "int"} \X Socks
    BY DEF IInv, TypeOK, CleanStep
  <1>3. CASE call' = Idle /\ UNCHANGED <<lists, lsn, net>>
    <2>1. SameEnds
      BY <1>3, SameNet
    <2> QED
      BY <1>1, <1>2, <1>3, <2>1, QuietStep DEF lists, IInv, TypeOK, ListsAgree
  <1>4. ASSUME NEW s \in call.todo, DropEntry(s), call' = [call EXCEPT !.todo = @ \ {s}]
        PROVE  IInv'
    <2>1. call' \in CleanCalls /\ call'.op = "clean" /\ call'.todo = CONN_LIST \ {s}
      BY <1>1, <1>4 DEF CleanCalls
    <2>2. CONN_LIST' = CONN_LIST \ {s}
      BY <1>4 DEF DropEntry
    <2>3. CallsFit'
      BY <2>1, <2>2 DEF CallsFit, Calls, CleanCalls, Opening
    <2> QED
      BY <1>1, <1>2, <1>4, <2>3, DropInv
  <1>5. ASSUME NEW s \in call.todo, CloseRaises(s), call' = Idle, UNCHANGED END_DATA
        PROVE  IInv'
    BY <1>1, <1>2, <1>5, RaiseInv
  <1> QED
    BY <1>3, <1>4, <1>5 DEF CleanStep, Result, Raise

\* A number that is no port ends the call.
LEMMA OverflowInv == ASSUME IInv, UNCHANGED role, OpenOverflow PROVE IInv'
  <1>1. SameEnds
    BY SameNet DEF OpenOverflow
  <1> QED
    BY <1>1, QuietStep DEF OpenOverflow, Raise, lists, IInv, TypeOK, ListsAgree

\* Binding takes a port for the socket that is being opened.
LEMMA OpenBindInv == ASSUME IInv, UNCHANGED role, OpenBind PROVE IInv'
  <1>1. call \in OpenCalls /\ call.sock \in Socks /\ call.port \in Ports
    BY CallFacts DEF IInv, CallsFit, OpenBind, Opening
  <1>2. PICK o \in {"accept", "open_failed"} :
            /\ call' = [call EXCEPT !.op = o]
            /\ o = "accept" => lsn' = [lsn EXCEPT ![call.sock] = call.port]
            /\ o = "open_failed" => lsn' = lsn
    BY DEF OpenBind
  <1>3. /\ call' \in OpenCalls /\ call'.op = o
        /\ call'.sock = call.sock /\ call'.port = call.port
    BY <1>1, <1>2 DEF OpenCalls, Opening
  <1>4. /\ lsn' \in [Socks -> Ports \union {NoPort}]
        /\ \A s \in Socks \ {call.sock} : lsn'[s] = lsn[s]
        /\ o = "accept" => lsn'[call.sock] = call.port
    BY <1>1, <1>2 DEF IInv, TypeOK
  <1>5. /\ UNCHANGED <<CONN_LIST, CONN_STATE_LIST, END_DATA, net, reachable>>
        /\ role = "server"
        /\ call.op = "open"
    BY DEF OpenBind, lists
  <1>6. CallsFit'
    BY <1>1, <1>3, <1>4, <1>5 DEF IInv, CallsFit, Calls, OpenCalls, Opening
  <1>7. PortsHeld'
    <2>1. net[call.sock].ours # "open"
      BY <1>1, <1>5 DEF IInv, ListsAgree, CallsFit, Opening
    <2> QED
      BY <1>1, <1>3, <1>4, <1>5, <2>1 DEF IInv, PortsHeld
  <1>8. ListsAgree' /\ InboxSent'
    BY <1>5 DEF IInv, ListsAgree, InboxSent
  <1>9. TypeOK'
    BY <1>3, <1>4, <1>5 DEF IInv, TypeOK
  <1> QED
    BY <1>6, <1>7, <1>8, <1>9 DEF IInv

\* A connection enters both dictionaries.
LEMMA OpenConnectInv == ASSUME IInv, UNCHANGED role, OpenConnect PROVE IInv'
  <1>0. Idle.op = "idle" /\ Idle \in Calls
    BY DEF Idle, Calls
  <1>1. /\ call \in OpenCalls /\ call.sock \in Socks
        /\ call.port \in Int /\ call.port >= 0
    BY CallFacts DEF IInv, CallsFit, OpenConnect, Opening
  <1>2. UNCHANGED <<END_DATA, lsn, reachable>> /\ call.op \in {"accept", "open"}
    BY DEF OpenConnect
  <1>3. CASE reachable
    <2> DEFINE c == [ours |-> "open", peer |-> "alive", inbox |-> 0, sent |-> 0,
                     zero |-> FALSE]
    <2>1. c \in Connection /\ c.ours = "open" /\ c.inbox <= c.sent
      BY SizesAssumption DEF Connection
    <2>2. net' = [net EXCEPT ![call.sock] = c]
      BY <1>3 DEF OpenConnect
    <2> HIDE DEF c
    <2>3. net \in [Socks -> Connection]
      BY DEF IInv, TypeOK, Connection
    <2>4. /\ net' \in [Socks -> Connection]
          /\ net'[call.sock] = c
          /\ \A s \in Socks \ {call.sock} : net'[s] = net[s]
      BY <1>1, <2>1, <2>2, <2>3
    <2>5. /\ CONN_LIST' = CONN_LIST \union {call.sock}
          /\ DOMAIN CONN_STATE_LIST' = CONN_LIST'
          /\ \A s \in CONN_LIST' :
                 CONN_STATE_LIST'[s] = IF s = call.sock THEN 1 ELSE CONN_STATE_LIST[s]
          /\ call' = Idle
      BY <1>3 DEF OpenConnect, Result
    <2>6. ListsAgree'
      BY <1>1, <2>1, <2>4, <2>5 DEF IInv, ListsAgree
    <2>7. CallsFit'
      BY <1>0, <2>5 DEF CallsFit, Opening
    <2>8. TypeOK'
      BY <1>0, <1>1, <1>2, <2>4, <2>5 DEF IInv, TypeOK, ListsAgree, Connection
    <2>9. InboxSent'
      BY <2>1, <2>4 DEF IInv, InboxSent
    <2>10. PortsHeld'
      <3> SUFFICES ASSUME NEW s \in Socks
                   PROVE  /\ lsn[s] # NoPort => role = "server" /\ s \in CONN_LIST'
                          /\ role = "server" /\ net'[s].ours = "open" => lsn[s] # NoPort
        BY <1>2 DEF PortsHeld
      <3>1. CASE s # call.sock
        BY <3>1, <2>4, <2>5 DEF IInv, PortsHeld
      <3>2. CASE s = call.sock /\ role = "server"
        BY <3>2, <1>1, <2>5 DEF IInv, CallsFit, OpenConnect, NoPort
      <3>3. CASE role # "server"
        BY <3>3 DEF IInv, PortsHeld
      <3> QED
        BY <3>1, <3>2, <3>3
    <2> QED
      BY <2>6, <2>7, <2>8, <2>9, <2>10 DEF IInv
  <1>4. CASE ~reachable
    <2>1. call' = [call EXCEPT !.op = "open_failed"] /\ UNCHANGED <<lists, net>>
      BY <1>4 DEF OpenConnect
    <2>2. call' \in OpenCalls /\ call'.op = "open_failed" /\ call'.sock = call.sock
      BY <1>1, <2>1 DEF OpenCalls, Opening
    <2>3. CallsFit'
      BY <1>2, <2>1, <2>2 DEF IInv, CallsFit, Calls, OpenCalls, Opening, lists
    <2>4. PortsHeld'
      BY <1>2, <2>1, <2>2 DEF IInv, PortsHeld, lists
    <2> QED
      BY <1>2, <2>1, <2>2, <2>3, <2>4 DEF IInv, TypeOK, ListsAgree, InboxSent, lists
  <1> QED
    BY <1>3, <1>4

\* A failed round gives its port back, also when it is the last.
LEMMA OpenFailedInv == ASSUME IInv, UNCHANGED role, OpenFailed PROVE IInv'
  <1>0. Idle.op = "idle" /\ Idle \in Calls
    BY DEF Idle, Calls
  <1>1. call \in OpenCalls /\ call.sock \in Socks
    BY CallFacts DEF IInv, CallsFit, OpenFailed, Opening
  <1>2. \/ call' = Idle
        \/ call' \in OpenCalls /\ call'.op = "open" /\ call'.sock = call.sock
    BY <1>1 DEF OpenFailed, OpenCalls, Opening, Raise
  <1>3. UNCHANGED <<CONN_LIST, CONN_STATE_LIST, END_DATA, net, reachable>>
    BY DEF OpenFailed, lists
  <1>4. /\ lsn' \in [Socks -> Ports \union {NoPort}]
        /\ \A s \in Socks \ {call.sock} : lsn'[s] = lsn[s]
        /\ lsn'[call.sock] = NoPort
    BY <1>1 DEF IInv, TypeOK, OpenFailed
  <1>5. call.sock \notin CONN_LIST
    BY DEF IInv, CallsFit, OpenFailed, Opening
  <1>6. CallsFit'
    BY <1>0, <1>2, <1>3, <1>4, <1>5 DEF CallsFit, Calls, OpenCalls, Opening
  <1>7. PortsHeld'
    <2>1. net[call.sock].ours # "open"
      BY <1>1, <1>5 DEF IInv, ListsAgree
    <2> QED
      BY <1>1, <1>3, <1>4, <2>1 DEF IInv, PortsHeld
  <1> QED
    BY <1>0, <1>2, <1>3, <1>4, <1>6, <1>7 DEF IInv, TypeOK, ListsAgree, InboxSent

\* One round of a read.
LEMMA ReadInv == ASSUME IInv, UNCHANGED role, ReadStep PROVE IInv'
  <1>1. /\ Reading /\ call \in ReadCalls /\ call.sock \in Socks
        /\ call.size \in Nat /\ call.time_cnt \in Nat
    BY CallFacts DEF IInv, CallsFit, ReadStep, RecvData, RecvEmpty, RecvError,
                     RecvTimeout, NothingYet, Reading
  <1>2. UNCHANGED <<CONN_LIST, END_DATA, lsn, reachable>>
    BY DEF ReadStep, RecvData, RecvEmpty, RecvError, RecvTimeout, lists
  <1>3. net[call.sock] \in Connection /\ Conn.inbox <= Conn.sent
    BY <1>1 DEF IInv, TypeOK, InboxSent, Connection, Conn
  <1>4. SameEnds
    <2>1. CASE RecvData
      <3> DEFINE n == IF call.size < Conn.inbox THEN call.size ELSE Conn.inbox
                 c == [Conn EXCEPT !.inbox = @ - n]
      <3>1. Conn.inbox - n \in 0..MaxBytes /\ Conn.inbox - n <= Conn.sent
        BY <1>1, <1>3, SizesAssumption DEF Connection, Conn
      <3>2. net' = [net EXCEPT ![call.sock] = c]
        BY <2>1 DEF RecvData, Conn
      <3> HIDE DEF n
      <3>3. c \in Connection /\ c.ours = Conn.ours /\ c.inbox <= c.sent
        BY <1>3, <3>1 DEF Connection, Conn
      <3> QED
        BY <1>1, <3>2, <3>3, NetChange DEF Conn
    <2>2. CASE RecvError
      <3>1. net' = [net EXCEPT ![call.sock] = [Conn EXCEPT !.peer = "dead"]]
        BY <2>2 DEF RecvError, Conn
      <3>2. /\ [Conn EXCEPT !.peer = "dead"] \in Connection
            /\ [Conn EXCEPT !.peer = "dead"].ours = Conn.ours
            /\ [Conn EXCEPT !.peer = "dead"].inbox = Conn.inbox
            /\ [Conn EXCEPT !.peer = "dead"].sent = Conn.sent
        BY <1>3 DEF Connection, Conn
      <3> QED
        BY <1>1, <1>3, <3>1, <3>2, NetChange DEF Conn
    <2>3. CASE net' = [net EXCEPT ![call.sock].zero = TRUE]
      <3>1. net' = [net EXCEPT ![call.sock] = [Conn EXCEPT !.zero = TRUE]]
        BY <2>3 DEF Conn
      <3>2. /\ [Conn EXCEPT !.zero = TRUE] \in Connection
            /\ [Conn EXCEPT !.zero = TRUE].ours = Conn.ours
            /\ [Conn EXCEPT !.zero = TRUE].inbox = Conn.inbox
            /\ [Conn EXCEPT !.zero = TRUE].sent = Conn.sent
        BY <1>3 DEF Connection, Conn
      <3> QED
        BY <1>1, <1>3, <3>1, <3>2, NetChange DEF Conn
    <2> QED
      BY <2>1, <2>2, <2>3, SameNet DEF ReadStep, RecvEmpty, RecvTimeout
  <1>5. /\ DOMAIN CONN_STATE_LIST' = DOMAIN CONN_STATE_LIST
        /\ \A s \in CONN_LIST : CONN_STATE_LIST'[s] \in {0, 1}
    BY DEF IInv, TypeOK, ListsAgree, ReadStep, RecvData, RecvEmpty, RecvError,
           RecvTimeout, lists
  <1>6. call' = Idle \/ (call.op = "read" /\ CallsFit')
    <2>1. CASE call' = [call EXCEPT !.time_cnt = @ + 1]
      <3>1. call' \in ReadCalls /\ call'.op = "read" /\ call'.sock = call.sock
        BY <1>1, <2>1 DEF ReadCalls
      <3> QED
        BY <1>1, <1>2, <3>1 DEF IInv, CallsFit, Calls, ReadCalls, Opening, Reading
    <2> QED
      BY <2>1 DEF ReadStep, RecvData, RecvEmpty, RecvError, RecvTimeout, Result
  <1> QED
    BY <1>1, <1>2, <1>4, <1>5, <1>6, QuietStep DEF Reading, IInv, TypeOK

\* One round of a flush.
LEMMA FlushInv == ASSUME IInv, UNCHANGED role, FlushStep \/ FlushError PROVE IInv'
  <1>1. /\ call.op \in {"flush", "flushed"} /\ call.sock \in Socks
        /\ call \in FlushCalls /\ call.sock \in CONN_LIST
    BY CallFacts DEF IInv, CallsFit, FlushStep, FlushRecv, FlushEmpty, FlushDone, FlushError
  <1>2. UNCHANGED <<CONN_LIST, CONN_STATE_LIST, END_DATA, lsn, reachable>>
    BY DEF FlushStep, FlushRecv, FlushEmpty, FlushDone, FlushError, lists
  <1>3. net[call.sock] \in Connection /\ Conn.inbox <= Conn.sent
    BY <1>1 DEF IInv, TypeOK, InboxSent, Connection, Conn
  <1>4. SameEnds
    <2>1. CASE net' = [net EXCEPT ![call.sock].inbox = IF @ > Buff THEN @ - Buff ELSE 0]
      <3> DEFINE n == IF Conn.inbox > Buff THEN Conn.inbox - Buff ELSE 0
                 c == [Conn EXCEPT !.inbox = n]
      <3>1. n \in 0..MaxBytes /\ n <= Conn.sent
        BY <1>3, SizesAssumption DEF Connection, Conn
      <3>2. net' = [net EXCEPT ![call.sock] = c]
        BY <2>1 DEF Conn
      <3> HIDE DEF n
      <3>3. c \in Connection /\ c.ours = Conn.ours /\ c.inbox <= c.sent
        BY <1>3, <3>1 DEF Connection, Conn
      <3> QED
        BY <1>1, <3>2, <3>3, NetChange DEF Conn
    <2>2. CASE net' = [net EXCEPT ![call.sock].peer = "dead"]
      <3>1. net' = [net EXCEPT ![call.sock] = [Conn EXCEPT !.peer = "dead"]]
        BY <2>2 DEF Conn
      <3>2. /\ [Conn EXCEPT !.peer = "dead"] \in Connection
            /\ [Conn EXCEPT !.peer = "dead"].ours = Conn.ours
            /\ [Conn EXCEPT !.peer = "dead"].inbox = Conn.inbox
            /\ [Conn EXCEPT !.peer = "dead"].sent = Conn.sent
        BY <1>3 DEF Connection, Conn
      <3> QED
        BY <1>1, <1>3, <3>1, <3>2, NetChange DEF Conn
    <2> QED
      BY <2>1, <2>2, SameNet DEF FlushStep, FlushRecv, FlushEmpty, FlushDone, FlushError
  <1>5. call' = Idle \/ call' = call \/ (call.op = "flush" /\ CallsFit')
    <2>1. CASE FlushEmpty
      <3>1. call' \in FlushCalls /\ call'.op = "flushed" /\ call'.sock = call.sock
        BY <1>1, <2>1 DEF FlushEmpty, FlushCalls
      <3> QED
        BY <1>1, <1>2, <2>1, <3>1 DEF FlushEmpty, CallsFit, Calls, FlushCalls, Opening
    <2> QED
      BY <2>1 DEF FlushStep, FlushRecv, FlushDone, FlushError, Result
  <1> QED
    BY <1>1, <1>2, <1>4, <1>5, QuietStep DEF IInv, TypeOK, ListsAgree

\* A peer comes, sends, closes or resets.
LEMMA PeersInv == ASSUME IInv, UNCHANGED role, Peers PROVE IInv'
  <1>1. UNCHANGED <<CONN_LIST, CONN_STATE_LIST, END_DATA, lsn, call>>
    BY DEF Peers, PeerComesAndGoes, PeerSends, PeerCloses, PeerResets, lists
  <1>2. reachable' \in BOOLEAN
    BY DEF IInv, TypeOK, Peers, PeerComesAndGoes, PeerSends, PeerCloses, PeerResets
  <1>3. ASSUME NEW s \in Socks, PeerSends(s) \/ PeerCloses(s) \/ PeerResets(s)
        PROVE  SameEnds
    <2>1. net[s] \in Connection /\ net[s].inbox <= net[s].sent
      <3>1. net \in [Socks -> Connection]
        BY Zenon DEF IInv, TypeOK, Connection
      <3> QED
        BY <3>1 DEF IInv, InboxSent
    <2>2. PICK p \in {"alive", "fin", "reset", "dead"}, i \in 0..MaxBytes, n \in 0..MaxBytes :
              /\ i <= n
              /\ net' = [net EXCEPT ![s] = [net[s] EXCEPT !.peer = p, !.inbox = i, !.sent = n]]
      <3>1. CASE PeerSends(s)
        <4> DEFINE i == net[s].inbox + 1
                   n == net[s].sent + 1
        <4>1. i \in 0..MaxBytes /\ n \in 0..MaxBytes /\ i <= n
          BY <2>1, <3>1, SizesAssumption DEF PeerSends, Connection
        <4>2. net' = [net EXCEPT ![s] = [net[s] EXCEPT !.peer = "alive", !.inbox = i, !.sent = n]]
          BY <2>1, <3>1 DEF PeerSends, Connection, IInv, TypeOK
        <4> QED
          BY <4>1, <4>2
      <3>2. CASE PeerCloses(s)
        <4>1. net' = [net EXCEPT ![s] = [net[s] EXCEPT !.peer = "fin", !.inbox = net[s].inbox,
                                                       !.sent = net[s].sent]]
          BY <2>1, <3>2 DEF PeerCloses, Connection, IInv, TypeOK
        <4> QED
          BY <2>1, <4>1 DEF Connection
      <3>3. CASE PeerResets(s)
        <4>1. PICK left \in {0, net[s].inbox} :
                  net' = [net EXCEPT ![s].peer = "reset", ![s].inbox = left]
          BY <3>3 DEF PeerResets
        <4>2. left \in 0..MaxBytes /\ left <= net[s].sent
          BY <2>1, <4>1, SizesAssumption DEF Connection
        <4>3. net' = [net EXCEPT ![s] = [net[s] EXCEPT !.peer = "reset", !.inbox = left,
                                                       !.sent = net[s].sent]]
          BY <2>1, <4>1 DEF Connection, IInv, TypeOK
        <4> QED
          BY <2>1, <4>2, <4>3 DEF Connection
      <3> QED
        BY <1>3, <3>1, <3>2, <3>3
    <2> DEFINE c == [net[s] EXCEPT !.peer = p, !.inbox = i, !.sent = n]
    <2>3. c \in Connection /\ c.ours = net[s].ours /\ c.inbox <= c.sent
      BY <2>1, <2>2 DEF Connection
    <2>4. net' = [net EXCEPT ![s] = c]
      BY <2>2
    <2> HIDE DEF c
    <2> QED
      BY <2>3, <2>4, NetChange
  <1>4. SameEnds
    BY <1>3, SameNet DEF Peers, PeerComesAndGoes
  <1> QED
    BY <1>1, <1>2, <1>4, QuietStep DEF IInv, TypeOK, ListsAgree

-----------------------------------------------------------------------------
(***************************************************************************)
(* The theorems.                                                           *)
(***************************************************************************)
\* Every step keeps the invariant.
LEMMA NextIInv == IInv /\ [Next]_vars => IInv'
  <1> SUFFICES ASSUME IInv, [Next]_vars PROVE IInv'
    OBVIOUS
  <1>1. CASE UNCHANGED vars
    BY <1>1 DEF vars, lists, IInv, TypeOK, CallsFit, ListsAgree, PortsHeld, InboxSent
  <1>2. CASE Next
    <2>1. ASSUME ScriptCalls, UNCHANGED role PROVE IInv'
      BY <2>1, CleanInv, OpenStartInv, CloseInv, StateInv, WriteInv, StartInv DEF ScriptCalls
    <2>2. ASSUME OpenStep, UNCHANGED role PROVE IInv'
      BY <2>2, OverflowInv, OpenBindInv, OpenConnectInv, OpenFailedInv DEF OpenStep
    <2> QED
      BY <1>2, <2>1, <2>2, ReadInv, FlushInv, CleanStepInv, PeersInv DEF Next
  <1> QED
    BY <1>1, <1>2

\* So it always holds.
LEMMA Invariance == Spec => []IInv
  BY InitIInv, NextIInv, PTL DEF Spec

\* For both files, any sockets, ports and amounts of data, every variable stays
\* in its type (DR_tcp_server2.py, DR_tcp_client2.py).
THEOREM SocketsTyped == Spec => []TypeOK
  <1>1. IInv => TypeOK
    BY DEF IInv
  <1> QED
    BY <1>1, Invariance, PTL

(***************************************************************************)
(* What clean leaves.                                                      *)
(***************************************************************************)
\* What a call returns or raises says which call it was.
LEMMA RetOps ==
    /\ \A op, x : Result(op, x) => call' = Idle /\ ret'.op = op /\ ret'.exc = "none"
    /\ \A op, x : Raise(op, x) => call' = Idle /\ ret'.op = op /\ ret'.exc = x
    /\ \A c : Begin(c) => call' = c /\ ret'.op = "none"
  BY DEF Result, Raise, Begin

\* A step that ends no clean and starts no call from nothing keeps CleanDone.
LEMMA NextClean == IInv /\ CleanDone /\ [Next]_vars => CleanDone'
  <1> SUFFICES ASSUME IInv, CleanDone, [Next]_vars,
                      call' = Idle, ret'.op = "clean", ret'.exc = "none"
               PROVE  CONN_LIST' = {} /\ END_DATA' = {}
    BY DEF CleanDone
  <1>0. Idle.op = "idle"
    BY DEF Idle
  <1>1. CASE UNCHANGED vars
    BY <1>1 DEF vars, lists, CleanDone
  <1>2. ~ScriptCalls
    <2>1. ~clean_socket
      BY DEF clean_socket, Begin
    <2>2. ASSUME NEW s \in Socks, NEW p \in Ports PROVE ~OpenStart(s, p)
      BY DEF OpenStart, Begin, Raise
    <2>3. ASSUME NEW s \in Socks PROVE ~server_socket_close(s) /\ ~client_socket_close(s)
      BY DEF server_socket_close, client_socket_close, Result, Raise
    <2>4. ASSUME NEW s \in Socks PROVE ~socket_state(s) /\ ~socket_end_data(s)
      BY DEF socket_state, socket_end_data, Result
    <2>5. ASSUME NEW s \in Socks PROVE ~socket_write(s)
      BY DEF socket_write
    <2>6. ASSUME NEW s \in Socks, NEW l \in Lengths, NEW t \in Timeouts
          PROVE  ~socket_read(s, l, t)
      BY DEF socket_read, Begin, Result, Raise
    <2>7. ASSUME NEW s \in Socks PROVE ~socket_flush(s)
      BY DEF socket_flush, Begin, Result, Raise
    <2> QED
      BY <2>1, <2>2, <2>3, <2>4, <2>5, <2>6, <2>7 DEF ScriptCalls
  <1>3. ASSUME OpenStep PROVE FALSE
    <2>1. call \in OpenCalls
      BY <1>3, CallFacts DEF IInv, CallsFit, OpenStep, OpenOverflow, OpenBind, OpenConnect,
                             OpenFailed, Opening
    <2>2. \A op \in Opening : [call EXCEPT !.op = op].op = op
      BY <2>1 DEF OpenCalls
    <2> QED
      BY <1>0, <1>3, <2>2, RetOps DEF OpenStep, OpenOverflow, OpenBind, OpenConnect,
                                      OpenFailed, Opening
  <1>4. ASSUME ReadStep PROVE FALSE
    <2>1. call \in ReadCalls /\ call.op = "read"
      BY <1>4, CallFacts DEF IInv, CallsFit, ReadStep, RecvData, RecvEmpty, RecvError,
                             RecvTimeout, NothingYet, Reading
    <2>2. [call EXCEPT !.time_cnt = @ + 1].op = "read"
      BY <2>1 DEF ReadCalls
    <2> QED
      BY <1>0, <1>4, <2>2, RetOps DEF ReadStep, RecvData, RecvEmpty, RecvError, RecvTimeout
  <1>5. ASSUME FlushStep \/ FlushError PROVE FALSE
    <2>1. call \in FlushCalls /\ call.op \in {"flush", "flushed"}
      BY <1>5, CallFacts DEF IInv, CallsFit, FlushStep, FlushRecv, FlushEmpty, FlushDone,
                             FlushError
    <2>2. [call EXCEPT !.op = "flushed"].op = "flushed"
      BY <2>1 DEF FlushCalls
    <2>3. ~FlushEmpty
      BY <1>0, <2>2 DEF FlushEmpty
    <2>4. ~FlushDone /\ ~FlushError
      BY DEF FlushDone, FlushError, Result
    <2>5. ~FlushRecv
      BY <1>0, <2>1 DEF FlushRecv, Result
    <2> QED
      BY <1>5, <2>3, <2>4, <2>5 DEF FlushStep
  <1>6. CASE CleanStep
    <2>1. call \in CleanCalls /\ call.op = "clean" /\ call.todo = CONN_LIST
      BY <1>6, CallFacts DEF IInv, CallsFit, CleanStep
    <2>2. \A s : [call EXCEPT !.todo = @ \ {s}].op = "clean"
      BY <2>1 DEF CleanCalls
    <2>3. ~Raise("clean", "OSError") /\ ~Raise("clean", "DR_ERROR_RUNTIME")
      BY RetOps
    <2>4. call.todo = {} /\ END_DATA' = {} /\ UNCHANGED lists
      BY <1>0, <1>6, <2>2, <2>3 DEF CleanStep
    <2> QED
      BY <2>1, <2>4 DEF lists
  <1>7. CASE Peers
    BY <1>7 DEF Peers, PeerComesAndGoes, PeerSends, PeerCloses, PeerResets, lists, CleanDone
  <1> QED
    BY <1>1, <1>2, <1>3, <1>4, <1>5, <1>6, <1>7 DEF Next

\* For both files and any sockets, whatever is called in whatever order,
\* whichever closes raise and whatever the peers do: between calls the
\* dictionaries agree and hold whatever is open or could not be closed, ports
\* included, and after a clean that did not raise nothing is held
\* (DR_tcp_server2.py:88-89,134-143,154-169).
THEOREM NothingLeaks == Spec => []NoLeak
  <1>1. IInv /\ CleanDone => NoLeak
    <2> SUFFICES ASSUME IInv, CleanDone, call = Idle PROVE NoLeak
      BY DEF NoLeak
    <2>1. call.op = "idle"
      BY DEF Idle
    <2>2. \A s \in Socks :
              /\ lsn[s] # NoPort => role = "server" /\ s \in CONN_LIST
              /\ role = "server" /\ net[s].ours = "open" => lsn[s] # NoPort
      BY <2>1 DEF IInv, PortsHeld
    <2> QED
      BY <2>2 DEF NoLeak, IInv, ListsAgree, CleanDone
  <1>2. Spec => []CleanDone
    BY InitIInv, NextClean, Invariance, PTL DEF Spec
  <1> QED
    BY <1>1, <1>2, Invariance, PTL

(***************************************************************************)
(* What a flush leaves.  While it is under way only its own steps and the  *)
(* peers' touch the connection.                                            *)
(***************************************************************************)
\* Every step keeps the counts of a flush under way.
LEMMA NextFlush == IInv /\ FlushCounts /\ [Next]_vars => FlushCounts'
  <1> SUFFICES ASSUME IInv, FlushCounts, [Next]_vars PROVE FlushCounts'
    OBVIOUS
  <1>0. Idle.op = "idle" /\ net \in [Socks -> Connection]
    BY DEF Idle, IInv, TypeOK, Connection
  <1>1. CASE UNCHANGED vars
    BY <1>1 DEF vars, FlushCounts
  <1>2. ASSUME ScriptCalls PROVE FlushCounts'
    <2>1. ASSUME NEW s \in Socks, socket_flush(s), call' # Idle
          PROVE  FlushCounts'
      <3>1. /\ call' = [op |-> "flush", sock |-> s, before |-> net[s].sent]
            /\ net' = net
        BY <2>1 DEF socket_flush, Begin, Result, Raise
      <3>2. net[s].sent \in Int
        BY <1>0, SizesAssumption DEF Connection
      <3> QED
        BY <3>1, <3>2 DEF FlushCounts
    <2>2. ASSUME call' = Idle PROVE FlushCounts'
      BY <1>0, <2>2 DEF FlushCounts
    <2>3. ASSUME NEW s \in Socks, NEW p \in Ports, OpenStart(s, p), call' # Idle
          PROVE  FlushCounts'
      <3>1. call' = [op |-> "open", sock |-> s, port |-> p]
        BY <2>3 DEF OpenStart, Begin, Raise
      <3> QED
        BY <3>1 DEF FlushCounts
    <2>4. ASSUME NEW s \in Socks, NEW l \in Lengths, NEW t \in Timeouts,
                 socket_read(s, l, t), call' # Idle
          PROVE  FlushCounts'
      <3>1. call' = [op |-> "read", sock |-> s, timeout |-> t, time_cnt |-> 0,
                     size |-> IF l = -1 THEN Buff ELSE l]
        BY <2>4 DEF socket_read, Begin, Raise, Result
      <3> QED
        BY <3>1 DEF FlushCounts
    <2>5. ASSUME clean_socket PROVE FlushCounts'
      BY <2>5 DEF clean_socket, Begin, FlushCounts
    <2>6. ASSUME NEW s \in Socks,
                 \/ server_socket_close(s) \/ client_socket_close(s)
                 \/ socket_state(s) \/ socket_end_data(s) \/ socket_write(s)
          PROVE  call' = Idle
      BY <2>6 DEF server_socket_close, client_socket_close, socket_state, socket_end_data,
                  socket_write, Result, Raise
    <2> QED
      BY <1>2, <2>1, <2>2, <2>3, <2>4, <2>5, <2>6 DEF ScriptCalls
  <1>3. ASSUME OpenStep PROVE FlushCounts'
    <2>1. call \in OpenCalls
      BY <1>3, CallFacts DEF IInv, CallsFit, OpenStep, OpenOverflow, OpenBind, OpenConnect,
                             OpenFailed, Opening
    <2>2. \A op \in Opening : [call EXCEPT !.op = op].op = op
      BY <2>1 DEF OpenCalls
    <2>3. call'.op \notin {"flush", "flushed"}
      BY <1>0, <1>3, <2>2 DEF OpenStep, OpenOverflow, OpenBind, OpenConnect, OpenFailed,
                              Result, Raise, Opening
    <2> QED
      BY <2>3 DEF FlushCounts
  <1>4. ASSUME ReadStep PROVE FlushCounts'
    <2>1. call \in ReadCalls /\ call.op = "read"
      BY <1>4, CallFacts DEF IInv, CallsFit, ReadStep, RecvData, RecvEmpty, RecvError,
                             RecvTimeout, NothingYet, Reading
    <2>2. [call EXCEPT !.time_cnt = @ + 1].op = "read"
      BY <2>1 DEF ReadCalls
    <2>3. call'.op \notin {"flush", "flushed"}
      BY <1>0, <1>4, <2>2 DEF ReadStep, RecvData, RecvEmpty, RecvError, RecvTimeout, Result
    <2> QED
      BY <2>3 DEF FlushCounts
  <1>5. ASSUME CleanStep PROVE FlushCounts'
    <2>1. call \in CleanCalls /\ call.op = "clean"
      BY <1>5, CallFacts DEF IInv, CallsFit, CleanStep
    <2>2. \A s : [call EXCEPT !.todo = @ \ {s}].op = "clean"
      BY <2>1 DEF CleanCalls
    <2>3. call'.op \notin {"flush", "flushed"}
      BY <1>0, <1>5, <2>2 DEF CleanStep, Result, Raise
    <2> QED
      BY <2>3 DEF FlushCounts
  <1>6. ASSUME FlushStep \/ FlushError PROVE FlushCounts'
    <2>1. /\ call \in FlushCalls /\ call.op \in {"flush", "flushed"}
          /\ call.sock \in Socks /\ call.before \in Nat
      BY <1>6, CallFacts DEF IInv, CallsFit, FlushStep, FlushRecv, FlushEmpty, FlushDone,
                             FlushError
    <2>2. CASE call' = Idle
      BY <1>0, <2>2 DEF FlushCounts
    <2>3. CASE FlushRecv /\ call' # Idle
      <3>1. /\ call' = call /\ call.op = "flush"
            /\ net'[call.sock].sent = net[call.sock].sent
        BY <1>0, <2>1, <2>3 DEF FlushRecv, Result, Connection
      <3> QED
        BY <3>1 DEF FlushCounts
    <2>4. CASE FlushEmpty
      <3>1. /\ call'.op = "flushed" /\ call'.sock = call.sock /\ call'.before = call.before
            /\ call.op = "flush" /\ net' = net /\ net[call.sock].inbox = 0
        BY <2>1, <2>4 DEF FlushEmpty, FlushCalls, Conn
      <3>2. net[call.sock].sent \in Int
        BY <1>0, <2>1, SizesAssumption DEF Connection
      <3> QED
        BY <2>1, <3>1, <3>2 DEF FlushCounts
    <2> QED
      BY <1>6, <2>2, <2>3, <2>4 DEF FlushStep, FlushDone, FlushError, Result
  <1>7. ASSUME Peers PROVE FlushCounts'
    <2>1. call' = call
      BY <1>7 DEF Peers, PeerComesAndGoes, PeerSends, PeerCloses, PeerResets
    <2>2. CASE call.op \notin {"flush", "flushed"}
      BY <2>1, <2>2 DEF FlushCounts
    <2>3. CASE call.op \in {"flush", "flushed"}
      <3> DEFINE c == net[call.sock]
                 d == net'[call.sock]
      <3>1. call.sock \in Socks /\ call.before \in Nat
        BY <2>3, CallFacts DEF IInv, CallsFit
      <3>2. c.inbox \in Nat /\ c.sent \in Nat
        BY <1>0, <3>1, SizesAssumption DEF Connection
      <3>3. \/ d.inbox = c.inbox /\ d.sent = c.sent
            \/ d.inbox = 0 /\ d.sent = c.sent
            \/ d.inbox = c.inbox + 1 /\ d.sent = c.sent + 1
        <4>1. CASE UNCHANGED net
          BY <4>1
        <4>2. ASSUME NEW s \in Socks, PeerSends(s) \/ PeerCloses(s) \/ PeerResets(s)
              PROVE  \/ d.inbox = c.inbox /\ d.sent = c.sent
                     \/ d.inbox = 0 /\ d.sent = c.sent
                     \/ d.inbox = c.inbox + 1 /\ d.sent = c.sent + 1
          BY <1>0, <3>1, <4>2 DEF PeerSends, PeerCloses, PeerResets, Connection
        <4> QED
          BY <1>7, <4>1, <4>2 DEF Peers, PeerComesAndGoes
      <3>4. InboxSent
        BY DEF IInv
      <3>5. c.inbox <= c.sent
        BY <3>1, <3>4 DEF InboxSent
      <3>6. /\ call.op = "flush" => call.before <= c.sent
            /\ call.op = "flushed" => c.inbox <= c.sent - call.before
        BY DEF FlushCounts
      <3> HIDE DEF c, d
      <3>7. /\ call.op = "flush" => call.before <= d.sent
            /\ call.op = "flushed" => d.inbox <= d.sent - call.before
        BY <3>1, <3>2, <3>3, <3>5, <3>6
      <3> QED
        BY <2>1, <3>7 DEF FlushCounts, d
    <2> QED
      BY <2>2, <2>3
  <1> QED
    BY <1>1, <1>2, <1>3, <1>4, <1>5, <1>6, <1>7 DEF Next

\* When a flush returns 0, every byte that had arrived when it was called is
\* gone, for any buffer size and whatever the peer sends during the call
\* (DR_tcp_server2.py:367-390).
THEOREM FlushIsSafe == Spec => FlushDrains
  <1>1. ASSUME IInv, FlushCounts, [Next]_vars
        PROVE  [Flushing /\ call' = Idle /\ ret'.res = 0
                    => net'[call.sock].inbox <= net'[call.sock].sent - call.before]_vars
    <2> SUFFICES ASSUME Next, Flushing, call' = Idle, ret'.res = 0
                 PROVE  net'[call.sock].inbox <= net'[call.sock].sent - call.before
      BY <1>1
    <2>1. call # Idle /\ call.op \in {"flush", "flushed"}
      BY DEF Flushing, Idle
    <2>2. ~ScriptCalls
      BY <2>1 DEF ScriptCalls, clean_socket, OpenStart, server_socket_close,
                  client_socket_close, socket_state, socket_end_data, socket_write,
                  socket_read, socket_flush
    <2>3. ~OpenStep /\ ~ReadStep /\ ~CleanStep
      BY <2>1 DEF OpenStep, OpenOverflow, OpenBind, OpenConnect, OpenFailed, ReadStep,
                  RecvData, RecvEmpty, RecvError, RecvTimeout, NothingYet, Reading, CleanStep
    <2>4. ~Peers
      BY <2>1 DEF Peers, PeerComesAndGoes, PeerSends, PeerCloses, PeerResets
    <2>5. ~FlushRecv /\ ~FlushError
      BY <2>1 DEF FlushRecv, FlushError, Result
    <2>6. ~FlushEmpty
      <3>1. call.op = "flush" => call \in FlushCalls
        <4>1. call \in Calls
          BY <1>1 DEF IInv, CallsFit
        <4> QED
          BY <4>1, CallFacts
      <3>2. call \in FlushCalls => [call EXCEPT !.op = "flushed"].op = "flushed"
        BY DEF FlushCalls
      <3>3. Idle.op = "idle"
        BY DEF Idle
      <3> QED
        BY <3>1, <3>2, <3>3 DEF FlushEmpty
    <2>7. FlushDone
      BY <2>2, <2>3, <2>4, <2>5, <2>6 DEF Next, FlushStep
    <2> QED
      BY <1>1, <2>7 DEF FlushDone, FlushCounts
  <1>2. Spec => []FlushCounts
    BY InitIInv, NextFlush, Invariance, PTL DEF Spec
  <1> QED
    BY <1>1, <1>2, Invariance, PTL DEF Spec, FlushDrains

(***************************************************************************)
(* A connection that is off has ended, or was read with length 0.          *)
(***************************************************************************)
\* The stream of a connection has ended with nothing left in it, or it was
\* read with length 0.
Gone(c) == ~c.zero => c.peer # "alive" /\ c.inbox = 0

\* A step that turns no state off, and brings no ended stream back, keeps
\* OffMeansGone.
LEMMA OffStep ==
    ASSUME OffMeansGone, CONN_LIST' \subseteq CONN_LIST,
           \A s \in CONN_LIST' : CONN_STATE_LIST'[s] = CONN_STATE_LIST[s],
           \A s \in CONN_LIST' : Gone(net[s]) => Gone(net'[s])
    PROVE  OffMeansGone'
  <1> SUFFICES ASSUME NEW s \in CONN_LIST', CONN_STATE_LIST'[s] = 0 PROVE Gone(net'[s])
    BY DEF OffMeansGone, Gone
  <1>1. s \in CONN_LIST /\ CONN_STATE_LIST[s] = 0
    OBVIOUS
  <1>2. Gone(net[s])
    BY <1>1 DEF OffMeansGone, Gone
  <1> QED
    BY <1>2

\* Entries that are dropped, or stay because a close raised.
LEMMA CloseOff ==
    ASSUME IInv, OffMeansGone, NEW s \in CONN_LIST, DropEntry(s) \/ CloseRaises(s)
    PROVE  OffMeansGone'
  <1>0. net \in [Socks -> Connection] /\ CONN_LIST \subseteq Socks
    BY DEF IInv, TypeOK, Connection
  <1>1. CONN_LIST' \subseteq CONN_LIST
    BY DEF DropEntry, CloseRaises, lists
  <1>2. \A x \in CONN_LIST' : CONN_STATE_LIST'[x] = CONN_STATE_LIST[x]
    BY DEF DropEntry, CloseRaises, lists, IInv, ListsAgree
  <1>3. \A x \in CONN_LIST' : x # s => net'[x] = net[x]
    BY <1>0, <1>1 DEF DropEntry, CloseRaises
  <1>4. Gone(net'[s])
    <2>1. net'[s] \in {Ended("closed"), Ended("broken")}
      BY <1>0 DEF DropEntry, CloseRaises
    <2> QED
      BY <2>1 DEF Gone, Ended
  <1>5. \A x \in CONN_LIST' : Gone(net[x]) => Gone(net'[x])
    BY <1>3, <1>4
  <1> QED
    BY <1>1, <1>2, <1>5, OffStep

\* The calls of a script.
LEMMA ScriptOff == ASSUME IInv, OffMeansGone, ScriptCalls PROVE OffMeansGone'
  <1>0. net \in [Socks -> Connection] /\ CONN_LIST \subseteq Socks
    BY DEF IInv, TypeOK, Connection
  <1>1. ASSUME UNCHANGED <<lists, net>> PROVE OffMeansGone'
    BY <1>1 DEF lists, OffMeansGone
  <1>2. CASE clean_socket
    BY <1>1, <1>2 DEF clean_socket
  <1>3. ASSUME NEW s \in Socks, NEW p \in Ports, OpenStart(s, p) PROVE OffMeansGone'
    BY <1>1, <1>3 DEF OpenStart
  <1>4. ASSUME NEW s \in Socks, server_socket_close(s) \/ client_socket_close(s)
        PROVE  OffMeansGone'
    <2>1. CASE s \in CONN_LIST
      <3>1. DropEntry(s) \/ CloseRaises(s)
        BY <1>4, <2>1 DEF server_socket_close, client_socket_close, Opened, IInv, ListsAgree
      <3> QED
        BY <2>1, <3>1, CloseOff
    <2>2. CASE s \notin CONN_LIST
      <3>1. UNCHANGED <<lists, net>>
        BY <1>4, <2>2 DEF server_socket_close, client_socket_close, Opened, IInv, ListsAgree
      <3> QED
        BY <1>1, <3>1
    <2> QED
      BY <2>1, <2>2
  <1>5. ASSUME NEW s \in Socks, socket_state(s) \/ socket_end_data(s) PROVE OffMeansGone'
    BY <1>1, <1>5 DEF socket_state, socket_end_data
  <1>6. ASSUME NEW s \in Socks, socket_write(s) PROVE OffMeansGone'
    <2>1. UNCHANGED <<CONN_LIST, CONN_STATE_LIST>>
      BY <1>6 DEF socket_write, lists
    <2>2. \A x \in CONN_LIST : Gone(net[x]) => Gone(net'[x])
      BY <1>0, <1>6 DEF socket_write, Gone, Connection
    <2> QED
      BY <2>1, <2>2, OffStep
  <1>7. ASSUME NEW s \in Socks, NEW l \in Lengths, NEW t \in Timeouts, socket_read(s, l, t)
        PROVE  OffMeansGone'
    BY <1>1, <1>7 DEF socket_read
  <1>8. ASSUME NEW s \in Socks, socket_flush(s) PROVE OffMeansGone'
    BY <1>1, <1>8 DEF socket_flush
  <1> QED
    BY <1>2, <1>3, <1>4, <1>5, <1>6, <1>7, <1>8 DEF ScriptCalls

\* Opening: the new entry is on, the others are as they were.
LEMMA OpenOff == ASSUME IInv, OffMeansGone, OpenStep PROVE OffMeansGone'
  <1>0. net \in [Socks -> Connection] /\ CONN_LIST \subseteq Socks
    BY DEF IInv, TypeOK, Connection
  <1>1. call.sock \in Socks /\ call.sock \notin CONN_LIST
    BY CallFacts DEF IInv, CallsFit, OpenStep, OpenOverflow, OpenBind, OpenConnect,
                     OpenFailed, Opening
  <1>2. CASE OpenConnect /\ reachable
    <2>1. /\ CONN_LIST' = CONN_LIST \union {call.sock}
          /\ CONN_STATE_LIST'[call.sock] = 1
          /\ \A s \in CONN_LIST : CONN_STATE_LIST'[s] = CONN_STATE_LIST[s]
          /\ \A s \in CONN_LIST : net'[s] = net[s]
      BY <1>0, <1>1, <1>2 DEF OpenConnect
    <2> QED
      BY <2>1 DEF OffMeansGone
  <1>3. CASE ~(OpenConnect /\ reachable)
    <2>1. UNCHANGED <<CONN_LIST, CONN_STATE_LIST, net>>
      BY <1>3 DEF OpenStep, OpenOverflow, OpenBind, OpenConnect, OpenFailed, lists
    <2> QED
      BY <2>1 DEF OffMeansGone
  <1> QED
    BY <1>2, <1>3

\* A round of a read turns the state off only at the end of the stream, or
\* when it asks for no byte.
LEMMA ReadOff == ASSUME IInv, OffMeansGone, ReadStep PROVE OffMeansGone'
  <1>0. net \in [Socks -> Connection] /\ CONN_LIST \subseteq Socks
    BY DEF IInv, TypeOK, Connection
  <1>1. call.sock \in Socks /\ call.size \in Nat
    BY CallFacts DEF IInv, CallsFit, ReadStep, RecvData, RecvEmpty, RecvError,
                     RecvTimeout, NothingYet, Reading
  <1>2. CASE RecvData
    <2>1. UNCHANGED <<CONN_LIST, CONN_STATE_LIST>>
      BY <1>2 DEF RecvData, lists
    <2>2. \A s \in Socks : Gone(net[s]) => Gone(net'[s])
      <3> SUFFICES ASSUME NEW s \in Socks, Gone(net[s]) PROVE Gone(net'[s])
        OBVIOUS
      <3>1. CASE s # call.sock
        BY <1>0, <1>1, <1>2, <3>1 DEF RecvData
      <3>2. CASE s = call.sock
        <4>1. net[s].zero
          BY <1>2, <3>2 DEF RecvData, Conn, Gone
        <4>2. net'[s].zero = net[s].zero
          BY <1>0, <1>2, <3>2 DEF RecvData, Connection
        <4> QED
          BY <4>1, <4>2 DEF Gone
      <3> QED
        BY <3>1, <3>2
    <2> QED
      BY <1>0, <2>1, <2>2, OffStep
  <1>3. CASE RecvEmpty
    <2>1. CONN_LIST' = CONN_LIST
      BY <1>3 DEF RecvEmpty
    <2>2. Gone(net'[call.sock])
      <3>1. CASE call.size = 0
        <4>1. net'[call.sock].zero
          BY <1>0, <1>1, <1>3, <3>1 DEF RecvEmpty, Connection
        <4> QED
          BY <4>1 DEF Gone
      <3>2. CASE call.size # 0
        BY <1>1, <1>3, <3>2 DEF RecvEmpty, Conn, Gone
      <3> QED
        BY <3>1, <3>2
    <2>3. \A s \in CONN_LIST : s # call.sock =>
              net'[s] = net[s] /\ CONN_STATE_LIST'[s] = CONN_STATE_LIST[s]
      BY <1>0, <1>1, <1>3 DEF RecvEmpty, IInv, ListsAgree
    <2> QED
      BY <2>1, <2>2, <2>3 DEF OffMeansGone, Gone
  <1>4. CASE RecvError
    <2>1. UNCHANGED <<CONN_LIST, CONN_STATE_LIST>>
      BY <1>4 DEF RecvError, lists
    <2>2. \A s \in Socks : Gone(net[s]) => Gone(net'[s])
      BY <1>0, <1>1, <1>4 DEF RecvError, Gone, Connection
    <2> QED
      BY <1>0, <2>1, <2>2, OffStep
  <1>5. CASE RecvTimeout
    BY <1>5 DEF RecvTimeout, lists, OffMeansGone
  <1> QED
    BY <1>2, <1>3, <1>4, <1>5 DEF ReadStep

\* A flush leaves the states alone.
LEMMA FlushOff == ASSUME IInv, OffMeansGone, FlushStep \/ FlushError PROVE OffMeansGone'
  <1>0. net \in [Socks -> Connection] /\ CONN_LIST \subseteq Socks
    BY DEF IInv, TypeOK, Connection
  <1>1. call.sock \in Socks
    BY CallFacts DEF IInv, CallsFit, FlushStep, FlushRecv, FlushEmpty, FlushDone, FlushError
  <1>2. UNCHANGED <<CONN_LIST, CONN_STATE_LIST>>
    BY DEF FlushStep, FlushRecv, FlushEmpty, FlushDone, FlushError, lists
  <1>3. \A s \in Socks : Gone(net[s]) => Gone(net'[s])
    <2>1. CASE net' = [net EXCEPT ![call.sock].inbox = IF @ > Buff THEN @ - Buff ELSE 0]
               /\ Conn.inbox > 0
      <3> SUFFICES ASSUME NEW s \in Socks, Gone(net[s]) PROVE Gone(net'[s])
        OBVIOUS
      <3>1. CASE s # call.sock
        BY <1>0, <1>1, <2>1, <3>1
      <3>2. CASE s = call.sock
        <4>1. net[s].zero
          BY <2>1, <3>2 DEF Conn, Gone
        <4>2. net'[s].zero = net[s].zero
          BY <1>0, <2>1, <3>2 DEF Connection
        <4> QED
          BY <4>1, <4>2 DEF Gone
      <3> QED
        BY <3>1, <3>2
    <2>2. CASE net' = [net EXCEPT ![call.sock].peer = "dead"]
      BY <1>0, <1>1, <2>2 DEF Gone, Connection
    <2>3. CASE UNCHANGED net
      BY <2>3
    <2> QED
      BY <2>1, <2>2, <2>3 DEF FlushStep, FlushRecv, FlushEmpty, FlushDone, FlushError
  <1> QED
    BY <1>0, <1>2, <1>3, OffStep

\* A peer that has gone sends nothing more.
LEMMA PeersOff == ASSUME IInv, OffMeansGone, Peers PROVE OffMeansGone'
  <1>0. net \in [Socks -> Connection] /\ CONN_LIST \subseteq Socks
    BY DEF IInv, TypeOK, Connection
  <1>1. UNCHANGED <<CONN_LIST, CONN_STATE_LIST>>
    BY DEF Peers, PeerComesAndGoes, PeerSends, PeerCloses, PeerResets, lists
  <1>2. \A s \in Socks : net'[s].zero = net[s].zero
    <2>1. ASSUME NEW x \in Socks, PeerSends(x) \/ PeerCloses(x) \/ PeerResets(x),
                 NEW s \in Socks
          PROVE  net'[s].zero = net[s].zero
      BY <1>0, <2>1 DEF PeerSends, PeerCloses, PeerResets, Connection
    <2> QED
      BY <2>1 DEF Peers, PeerComesAndGoes
  <1>3. \A s \in Socks : net[s].peer # "alive" => net'[s] = net[s]
    BY <1>0 DEF Peers, PeerComesAndGoes, PeerSends, PeerCloses, PeerResets
  <1>4. \A s \in Socks : Gone(net[s]) => Gone(net'[s])
    BY <1>2, <1>3 DEF Gone
  <1> QED
    BY <1>0, <1>1, <1>4, OffStep

\* Every step keeps OffMeansGone.
LEMMA NextOff == IInv /\ OffMeansGone /\ [Next]_vars => OffMeansGone'
  <1> SUFFICES ASSUME IInv, OffMeansGone, [Next]_vars PROVE OffMeansGone'
    OBVIOUS
  <1>1. CASE UNCHANGED vars
    BY <1>1 DEF vars, lists, OffMeansGone
  <1>2. CASE CleanStep
    <2>1. call.op = "clean" => call.todo = CONN_LIST
      BY DEF IInv, CallsFit
    <2>2. CASE UNCHANGED <<lists, lsn, net>>
      BY <2>2 DEF lists, OffMeansGone
    <2>3. ASSUME NEW s \in call.todo, DropEntry(s) \/ CloseRaises(s) PROVE OffMeansGone'
      BY <1>2, <2>1, <2>3, CloseOff DEF CleanStep
    <2> QED
      BY <1>2, <2>2, <2>3 DEF CleanStep
  <1> QED
    BY <1>1, <1>2, ScriptOff, OpenOff, ReadOff, FlushOff, PeersOff DEF Next

\* For both files, any sockets and any lengths, 0 included: as long as a
\* connection is reported as off its peer is gone and nothing is left to be
\* read, unless it was read with length 0 (DR_tcp_server2.py:282,333-336).
THEOREM OffIsGone == Spec => []OffMeansGone
  BY InitIInv, NextOff, Invariance, PTL DEF Spec
===============================================================================
