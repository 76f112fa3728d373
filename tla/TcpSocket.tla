------------------------------- MODULE TcpSocket -------------------------------
(***************************************************************************)
(* DR_tcp_server2.py and DR_tcp_client2.py: the socket functions offered   *)
(* to robot scripts, the dictionaries they keep, and the peer at the other *)
(* end of each connection.  role says which of the two files is modelled;  *)
(* they differ in opening, closing and the end data, and share the rest.   *)
(*                                                                         *)
(* A socket is the id() its dictionaries are keyed by: the id of a socket  *)
(* that was closed may come back as the id of a later one.  The script has *)
(* one thread, so one call is under way at a time; the loops of open, read *)
(* and flush take one step per round, and the peer acts between rounds.    *)
(* Data are counted in bytes.  Arguments are of the right type.            *)
(***************************************************************************)
EXTENDS Integers, FiniteSets

CONSTANTS
    Roles,          \* the files a script may use: "server", "client"
    Socks,          \* the ids of sockets
    Ports,          \* the ports a script may ask for
    Buff,           \* BUFF_SIZE
    Lengths,        \* the lengths a script may pass to read
    Timeouts,       \* the timeouts, in units of COMM_TIMEOUT
    MaxBytes        \* bound: bytes a peer sends over one connection

ASSUME RolesAssumption == Roles \subseteq {"server", "client"}
ASSUME SizesAssumption ==
    /\ Buff \in Nat \ {0} /\ MaxBytes \in Nat
    /\ Ports \subseteq Int /\ Lengths \subseteq Int /\ Timeouts \subseteq Int

VARIABLES
    role,               \* the file the script uses
    CONN_LIST,          \* the keys of DR_TCP_*_CONN_LIST
    CONN_STATE_LIST,    \* DR_TCP_*_CONN_STATE_LIST
    END_DATA,           \* the keys of DR_TCP_*_END_DATA: <<form, id>>
    lsn,                \* the port each id's listening socket holds
    net,                \* the connection of each id: our end, the peer,
                        \* bytes to be read, bytes sent so far, and
                        \* whether a read of no bytes was made
    reachable,          \* a client knocks, or the server listens
    call,               \* the call under way
    ret                 \* what the last call returned or raised, once it has
lists == <<CONN_LIST, CONN_STATE_LIST>>
vars  == <<role, lists, END_DATA, lsn, net, reachable, call, ret>>

NoPort == -1
Idle   == [op |-> "idle"]

DR_TP_SERVER_PORT == 12345
MaxPort           == 65535

\* No connection: none yet, or no more.
Ended(ours) ==
    [ours |-> ours, peer |-> "dead", inbox |-> 0, sent |-> 0, zero |-> FALSE]

Init ==
    /\ role \in Roles
    /\ CONN_LIST = {}
    /\ CONN_STATE_LIST = [s \in {} |-> 0]
    /\ END_DATA = {}
    /\ lsn = [s \in Socks |-> NoPort]
    /\ net = [s \in Socks |-> Ended("none")]
    /\ reachable = FALSE
    /\ call = Idle
    /\ ret = [op |-> "none"]

\* A call of several steps begins.
Begin(c) == call' = c /\ ret' = [op |-> "none"]

\* A call ends: with a result, or with an exception.
Result(op, res) ==
    /\ call' = Idle
    /\ ret' = [op |-> op, res |-> res, exc |-> "none"]
Raise(op, exc) ==
    /\ call' = Idle
    /\ ret' = [op |-> op, res |-> 0, exc |-> exc]

Opened(s) == s \in CONN_LIST

\* A close of this socket raised: its object has no descriptor any more.
Broken(s) == net[s].ours = "broken"

-----------------------------------------------------------------------------
(***************************************************************************)
(* server_socket_open, client_socket_open.                                 *)
(***************************************************************************)
\* The new socket gets an id that no live object has; the dictionaries keep
\* their sockets alive.
OpenStart(s, p) ==
    /\ call = Idle
    /\ ~Opened(s)
    /\ IF p < 0 \/ (role = "server" /\ p = DR_TP_SERVER_PORT)
       THEN Raise("open", "DR_ERROR_VALUE")
       ELSE Begin([op |-> "open", sock |-> s, port |-> p])
    /\ UNCHANGED <<lists, END_DATA, lsn, net, reachable>>

PortTaken(p) == \E s \in Socks : lsn[s] = p

\* bind and connect refuse a number that is no port with an OverflowError,
\* which "except socket.error" does not catch; the new socket is dropped.
OpenOverflow ==
    /\ call.op = "open" /\ call.port > MaxPort
    /\ Raise("open", "OverflowError")
    /\ UNCHANGED <<lists, END_DATA, lsn, net, reachable>>

\* socket, bind and listen: a port with a listener cannot be bound again.
OpenBind ==
    /\ role = "server" /\ call.op = "open" /\ call.port <= MaxPort
    /\ IF PortTaken(call.port)
       THEN call' = [call EXCEPT !.op = "open_failed"] /\ UNCHANGED lsn
       ELSE /\ call' = [call EXCEPT !.op = "accept"]
            /\ lsn' = [lsn EXCEPT ![call.sock] = call.port]
    /\ UNCHANGED <<lists, END_DATA, net, reachable, ret>>

\* accept or connect, within its time-out.
OpenConnect ==
    /\ call.op = (IF role = "server" THEN "accept" ELSE "open")
    /\ call.port <= MaxPort
    /\ IF reachable
       THEN /\ CONN_LIST' = CONN_LIST \union {call.sock}
            /\ CONN_STATE_LIST' =
                   [s \in CONN_LIST' |->
                       IF s = call.sock THEN 1 ELSE CONN_STATE_LIST[s]]
            /\ net' = [net EXCEPT ![call.sock] =
                          [ours |-> "open", peer |-> "alive",
                           inbox |-> 0, sent |-> 0, zero |-> FALSE]]
            /\ Result("open", 0)
       ELSE /\ call' = [call EXCEPT !.op = "open_failed"]
            /\ UNCHANGED <<lists, net, ret>>
    /\ UNCHANGED <<END_DATA, lsn, reachable>>

\* Mutant: the listening socket is not closed.
OpenFailedKeepsListening ==
    /\ call.op = "open_failed"
    /\ call' = [call EXCEPT !.op = "open"]
    /\ UNCHANGED <<lists, END_DATA, lsn, net, reachable, ret>>

\* except socket.error: close, sleep, continue.  A close that raises here
\* leaves the function.
OpenFailed ==
    /\ call.op = "open_failed"
    /\ lsn' = [lsn EXCEPT ![call.sock] = NoPort]
    /\ \/ call' = [call EXCEPT !.op = "open"] /\ UNCHANGED ret
       \/ Raise("open", "OSError")
    /\ UNCHANGED <<lists, END_DATA, net, reachable>>

-----------------------------------------------------------------------------
(***************************************************************************)
(* Closing: the connection, the listening socket, then the two             *)
(* dictionaries.  A close() that raises has given its descriptor back all  *)
(* the same, and closing again does nothing; but what follows it is left   *)
(* out: the entries stay, and the listening socket if it comes after.      *)
(***************************************************************************)
\* Mutant: the state is deleted before the sockets are closed.
CloseRaisesLate(s) ==
    /\ \/ net[s].ours = "open" /\ UNCHANGED lsn
       \/ lsn[s] # NoPort /\ lsn' = [lsn EXCEPT ![s] = NoPort]
    /\ net' = [net EXCEPT ![s] = Ended("broken")]
    /\ CONN_STATE_LIST' = [x \in DOMAIN CONN_STATE_LIST \ {s} |-> CONN_STATE_LIST[x]]
    /\ UNCHANGED CONN_LIST

\* One of the two sockets raises when it is closed.
CloseRaises(s) ==
    /\ \/ net[s].ours = "open" /\ UNCHANGED lsn
       \/ lsn[s] # NoPort /\ lsn' = [lsn EXCEPT ![s] = NoPort]
    /\ net' = [net EXCEPT ![s] = Ended("broken")]
    /\ UNCHANGED lists

DropEntry(s) ==
    /\ net' = [net EXCEPT ![s] = Ended("closed")]
    /\ lsn' = [lsn EXCEPT ![s] = NoPort]
    /\ CONN_STATE_LIST' = [x \in DOMAIN CONN_STATE_LIST \ {s} |-> CONN_STATE_LIST[x]]
    /\ CONN_LIST' = CONN_LIST \ {s}

server_socket_close(s) ==
    /\ role = "server" /\ call = Idle
    /\ IF Opened(s)
       THEN \/ DropEntry(s) /\ Result("close", 0)
            \/ CloseRaises(s) /\ Raise("close", "DR_ERROR_RUNTIME")
       ELSE Result("close", -1) /\ UNCHANGED <<lists, lsn, net>>
    /\ UNCHANGED <<END_DATA, reachable>>

\* No test whether the socket is open: "del" of a missing key raises a
\* KeyError, which "except socket.error" does not catch.
client_socket_close(s) ==
    /\ role = "client" /\ call = Idle
    /\ IF s \in DOMAIN CONN_STATE_LIST
       THEN \/ DropEntry(s) /\ Result("close", 0)
            \/ CloseRaises(s) /\ Raise("close", "DR_ERROR_RUNTIME")
       ELSE Raise("close", "KeyError") /\ UNCHANGED <<lists, lsn, net>>
    /\ UNCHANGED <<END_DATA, reachable>>

\* The loop goes over the keys that the list has now.
clean_socket ==
    /\ call = Idle
    /\ Begin([op |-> "clean", todo |-> CONN_LIST])
    /\ UNCHANGED <<lists, END_DATA, lsn, net, reachable>>

\* One entry, or the end of the loop.  A close that raises leaves the loop:
\* the server's as it is, the client's through client_socket_close.
CleanStep ==
    /\ call.op = "clean"
    /\ \/ /\ call.todo = {}
          /\ END_DATA' = {}
          /\ Result("clean", 0)
          /\ UNCHANGED <<lists, lsn, net>>
       \/ \E s \in call.todo :
              /\ \/ /\ DropEntry(s)
                    /\ call' = [call EXCEPT !.todo = @ \ {s}]
                    /\ UNCHANGED ret
                 \/ /\ CloseRaises(s)
                    /\ Raise("clean", IF role = "server" THEN "OSError"
                                      ELSE "DR_ERROR_RUNTIME")
              /\ UNCHANGED END_DATA
    /\ UNCHANGED reachable

-----------------------------------------------------------------------------
(***************************************************************************)
(* State, end data, write.                                                 *)
(***************************************************************************)
socket_state(s) ==
    /\ call = Idle
    /\ Result("state", IF Opened(s) THEN CONN_STATE_LIST[s] ELSE 0)
    /\ UNCHANGED <<lists, END_DATA, lsn, net, reachable>>

\* The server's key is the str() of the id.
socket_end_data(s) ==
    /\ call = Idle
    /\ END_DATA' = END_DATA \union
           {<<IF role = "server" THEN "str" ELSE "int", s>>}
    /\ Result("end_data", 0)
    /\ UNCHANGED <<lists, lsn, net, reachable>>

\* Whether a frame is sent with its end data: the server looks it up under
\* the id itself, the client never does.
EndSent(s) == role = "server" /\ <<"int", s>> \in END_DATA

\* sendall may time out on a peer that does not read.  A peer that has
\* closed answers the bytes with a reset; a connection that was reset, or
\* whose close raised, takes none.
socket_write(s) ==
    /\ call = Idle
    /\ call' = Idle
    /\ \E res \in {-2, -1, 0} :
           /\ (res = -1) = ~Opened(s)
           /\ Opened(s) /\ net[s].peer \in {"reset", "dead"} => res = -2
           /\ ret' = [op |-> "write", res |-> res, exc |-> "none",
                      end |-> res = 0 /\ EndSent(s)]
    /\ net' = IF Opened(s)
              THEN [net EXCEPT ![s].peer = CASE @ = "fin"   -> "reset"
                                             [] @ = "reset" -> "dead"
                                             [] OTHER       -> @]
              ELSE net
    /\ UNCHANGED <<lists, END_DATA, lsn, reachable>>

-----------------------------------------------------------------------------
(***************************************************************************)
(* Read.                                                                   *)
(***************************************************************************)
socket_read(s, length, timeout) ==
    /\ call = Idle
    /\ IF length < -1 \/ (timeout # -1 /\ timeout < 0)
       THEN Raise("read", "DR_ERROR_VALUE")
       ELSE IF ~Opened(s) THEN Result("read", -1)
       ELSE IF Broken(s) /\ length # 0 THEN Result("read", -2)
       ELSE Begin([op |-> "read", sock |-> s, timeout |-> timeout,
                   time_cnt |-> 0,
                   size |-> IF length = -1 THEN Buff ELSE length])
    /\ UNCHANGED <<lists, END_DATA, lsn, net, reachable>>

Reading == call.op = "read"
Conn    == net[call.sock]

\* Mutant: all bytes that were asked for count as read.
RecvDataOver ==
    /\ Reading /\ call.size > 0 /\ Conn.inbox > 0
    /\ net' = [net EXCEPT ![call.sock].inbox = @ - call.size]
    /\ Result("read", call.size)
    /\ UNCHANGED <<lists, END_DATA, lsn, reachable>>

RecvData ==
    /\ Reading /\ call.size > 0 /\ Conn.inbox > 0
    /\ LET n == IF call.size < Conn.inbox THEN call.size ELSE Conn.inbox
       IN /\ net' = [net EXCEPT ![call.sock].inbox = @ - n]
          /\ Result("read", n)
    /\ UNCHANGED <<lists, END_DATA, lsn, reachable>>

\* Mutant: the end of the stream is only reported.
RecvEmptyUnmarked ==
    /\ Reading
    /\ call.size = 0 \/ (Conn.inbox = 0 /\ Conn.peer \in {"fin", "dead"})
    /\ Result("read", -1)
    /\ UNCHANGED <<lists, END_DATA, lsn, net, reachable>>

\* recv returns no byte: the stream has ended, or none was asked for.
RecvEmpty ==
    /\ Reading
    /\ call.size = 0 \/ (Conn.inbox = 0 /\ Conn.peer \in {"fin", "dead"})
    /\ CONN_STATE_LIST' = [CONN_STATE_LIST EXCEPT ![call.sock] = 0]
    /\ net' = IF call.size = 0 THEN [net EXCEPT ![call.sock].zero = TRUE] ELSE net
    /\ Result("read", -1)
    /\ UNCHANGED <<CONN_LIST, END_DATA, lsn, reachable>>

\* ECONNRESET, once; later calls see the end of the stream.
RecvError ==
    /\ Reading /\ call.size > 0 /\ Conn.inbox = 0 /\ Conn.peer = "reset"
    /\ net' = [net EXCEPT ![call.sock].peer = "dead"]
    /\ Result("read", -2)
    /\ UNCHANGED <<lists, END_DATA, lsn, reachable>>

NothingYet == Reading /\ call.size > 0 /\ Conn.inbox = 0 /\ Conn.peer = "alive"

\* Mutant: the rounds are not counted.
RecvTimeoutUncounted ==
    /\ NothingYet /\ call.timeout = 0
    /\ Result("read", -3)
    /\ UNCHANGED <<lists, END_DATA, lsn, net, reachable>>

\* Mutant: silence is taken for a disconnection.
RecvTimeoutMarks ==
    /\ NothingYet /\ call.timeout # -1
    /\ CONN_STATE_LIST' = [CONN_STATE_LIST EXCEPT ![call.sock] = 0]
    /\ Result("read", -3)
    /\ UNCHANGED <<CONN_LIST, END_DATA, lsn, net, reachable>>

\* One time-out of recv.  With timeout -1 the loop goes round unchanged.
RecvTimeout ==
    /\ NothingYet /\ call.timeout # -1
    /\ IF call.time_cnt + 1 >= call.timeout
       THEN Result("read", -3)
       ELSE /\ call' = [call EXCEPT !.time_cnt = @ + 1]
            /\ UNCHANGED ret
    /\ UNCHANGED <<lists, END_DATA, lsn, net, reachable>>

-----------------------------------------------------------------------------
(***************************************************************************)
(* Flush.  A socket whose stream has ended is always ready to be read and  *)
(* recv returns no byte: the loop goes round unchanged.                    *)
(***************************************************************************)
\* select refuses a socket without a descriptor with a ValueError.  The call
\* notes how many bytes the peer had sent when it began.
socket_flush(s) ==
    /\ call = Idle
    /\ IF ~Opened(s) THEN Result("flush", -1)
       ELSE IF Broken(s) THEN Raise("flush", "ValueError")
       ELSE Begin([op |-> "flush", sock |-> s, before |-> net[s].sent])
    /\ UNCHANGED <<lists, END_DATA, lsn, net, reachable>>

Flushing == call.op \in {"flush", "flushed"}

\* select says ready to read; recv takes what is there, or raises.
FlushRecv ==
    /\ call.op = "flush"
    /\ \/ /\ Conn.inbox > 0
          /\ net' = [net EXCEPT ![call.sock].inbox =
                        IF @ > Buff THEN @ - Buff ELSE 0]
          /\ UNCHANGED <<call, ret>>
       \/ /\ Conn.inbox = 0 /\ Conn.peer = "reset"
          /\ net' = [net EXCEPT ![call.sock].peer = "dead"]
          /\ Result("flush", -2)
    /\ UNCHANGED <<lists, END_DATA, lsn, reachable>>

\* Mutant: ready to write is looked at first.
FlushEmptyUnread ==
    /\ call.op = "flush" /\ Conn.peer = "alive"
    /\ call' = [call EXCEPT !.op = "flushed"]
    /\ UNCHANGED <<lists, END_DATA, lsn, net, reachable, ret>>

\* select says nothing to read and ready to write: the loop is left.
FlushEmpty ==
    /\ call.op = "flush" /\ Conn.inbox = 0 /\ Conn.peer = "alive"
    /\ call' = [call EXCEPT !.op = "flushed"]
    /\ UNCHANGED <<lists, END_DATA, lsn, net, reachable, ret>>

\* The return, by which time the peer may have sent more.
FlushDone ==
    /\ call.op = "flushed"
    /\ Result("flush", 0)
    /\ UNCHANGED <<lists, END_DATA, lsn, net, reachable>>

\* select reports an exceptional condition.
FlushError ==
    /\ call.op = "flush"
    /\ Result("flush", -3)
    /\ UNCHANGED <<lists, END_DATA, lsn, net, reachable>>

-----------------------------------------------------------------------------
(***************************************************************************)
(* The peers.                                                              *)
(***************************************************************************)
PeerSends(s) ==
    /\ net[s].ours = "open" /\ net[s].peer = "alive" /\ net[s].sent < MaxBytes
    /\ net' = [net EXCEPT ![s].inbox = @ + 1, ![s].sent = @ + 1]
    /\ UNCHANGED <<lists, END_DATA, lsn, reachable, call, ret>>

PeerCloses(s) ==
    /\ net[s].ours = "open" /\ net[s].peer = "alive"
    /\ net' = [net EXCEPT ![s].peer = "fin"]
    /\ UNCHANGED <<lists, END_DATA, lsn, reachable, call, ret>>

\* A reset may cost what was not read yet.
PeerResets(s) ==
    /\ net[s].ours = "open" /\ net[s].peer = "alive"
    /\ \E left \in {0, net[s].inbox} :
           net' = [net EXCEPT ![s].peer = "reset", ![s].inbox = left]
    /\ UNCHANGED <<lists, END_DATA, lsn, reachable, call, ret>>

PeerComesAndGoes ==
    /\ reachable' = ~reachable
    /\ UNCHANGED <<lists, END_DATA, lsn, net, call, ret>>

-----------------------------------------------------------------------------
\* The script starts a call, with a socket that an open has given it.
ScriptCalls ==
    \/ clean_socket
    \/ \E s \in Socks, p \in Ports : OpenStart(s, p)
    \/ \E s \in {x \in Socks : net[x].ours # "none"} :
           \/ server_socket_close(s) \/ client_socket_close(s)
           \/ socket_state(s) \/ socket_end_data(s) \/ socket_write(s)
           \/ \E l \in Lengths, t \in Timeouts : socket_read(s, l, t)
           \/ socket_flush(s)

\* The call under way goes on.
OpenStep  == OpenOverflow \/ OpenBind \/ OpenConnect \/ OpenFailed
ReadStep  == RecvData \/ RecvEmpty \/ RecvError \/ RecvTimeout
FlushStep == FlushRecv \/ FlushEmpty \/ FlushDone
CallStep  == /\ OpenStep \/ ReadStep \/ FlushStep \/ CleanStep
             /\ UNCHANGED role

Peers ==
    \/ PeerComesAndGoes
    \/ \E s \in Socks : PeerSends(s) \/ PeerCloses(s) \/ PeerResets(s)

Next ==
    /\ ScriptCalls \/ OpenStep \/ ReadStep \/ FlushStep \/ FlushError
       \/ CleanStep \/ Peers
    /\ UNCHANGED role

\* The interpreter runs the call it is in; an exceptional condition of
\* select may never come, the script and the peers owe nothing.
Spec == Init /\ [][Next]_vars /\ WF_vars(CallStep)

-----------------------------------------------------------------------------
\* Every variable stays in its type.
TypeOK ==
    /\ role \in Roles
    /\ CONN_LIST \subseteq Socks
    /\ DOMAIN CONN_STATE_LIST \subseteq Socks
    /\ \A s \in DOMAIN CONN_STATE_LIST : CONN_STATE_LIST[s] \in {0, 1}
    /\ END_DATA \subseteq {"str", "int"} \X Socks
    /\ lsn \in [Socks -> Ports \union {NoPort}]
    /\ net \in [Socks -> [ours : {"none", "open", "broken", "closed"},
                          peer : {"alive", "fin", "reset", "dead"},
                          inbox : 0..MaxBytes, sent : 0..MaxBytes,
                          zero : BOOLEAN]]
    /\ reachable \in BOOLEAN
    /\ call.op \in {"idle", "open", "accept", "open_failed", "read", "flush",
                    "flushed", "clean"}

\* Between two calls the two dictionaries hold the same sockets: the open
\* ones, and those whose close raised.  A port is bound only by a socket that
\* is in them, and by every one that is open; so whatever is held can still be
\* found and closed again, and after a clean that did not raise nothing is
\* held (DR_tcp_server2.py:88-89,134-143,154-169).
NoLeak ==
    call = Idle =>
        /\ CONN_LIST = DOMAIN CONN_STATE_LIST
        /\ CONN_LIST = {s \in Socks : net[s].ours \in {"open", "broken"}}
        /\ \A s \in Socks :
               /\ lsn[s] # NoPort => role = "server" /\ s \in CONN_LIST
               /\ role = "server" /\ net[s].ours = "open" => lsn[s] # NoPort
        /\ ret.op = "clean" /\ ret.exc = "none" => CONN_LIST = {} /\ END_DATA = {}

\* As long as a connection is reported as off, its peer is gone and nothing is
\* left to be read, unless the script read it with length 0, which every
\* socket answers like an ended one.  What was there may have been read,
\* flushed or lost in a reset (DR_tcp_server2.py:282,333-336).
OffMeansGone ==
    \A s \in CONN_LIST :
        CONN_STATE_LIST[s] = 0 /\ ~net[s].zero
            => net[s].peer # "alive" /\ net[s].inbox = 0

\* When a flush returns 0, every byte that had arrived when it was called is
\* gone; what is there to be read was sent during the call, also between the
\* select that found nothing and the return (DR_tcp_server2.py:367-390).
FlushDrains ==
    [][Flushing /\ call' = Idle /\ ret'.res = 0
           => net'[call.sock].inbox <= net'[call.sock].sent - call.before]_vars

\* A read with a time-out returns, whatever the peer does
\* (DR_tcp_server2.py:305-322).
ReadReturns == (Reading /\ call.timeout # -1) ~> call = Idle

\* A script that goes on reading from a peer that has gone sees the state
\* turn off, also when the first read only meets the reset
\* (DR_tcp_server2.py:327-336).
DisconnectNoticed ==
    \A s \in Socks :
        /\ <>[](s \in CONN_LIST /\ net[s].peer # "alive")
        /\ []<>(Reading /\ call.sock = s)
        => <>[](s \in CONN_LIST /\ CONN_STATE_LIST[s] = 0)

\* An open whose peer stays available and whose port no other socket of the
\* script holds does not go on for ever: a failed round gives back what it
\* took (DR_tcp_server2.py:96-106).
OpenNotStuck ==
    ~<>[](/\ reachable
          /\ call.op \in {"open", "accept", "open_failed"}
          /\ \A s \in Socks \ {call.sock} : lsn[s] # call.port)

\* "-1 : connection is not alive" (DR_tcp_server2.py:350): a flush returns.
FlushReturns == Flushing ~> call = Idle
===============================================================================
