----------------------------- MODULE TcpClient -----------------------------
(***************************************************************************)
(* TcpClient and its Connector (network/): connecting, the test that the   *)
(* socket is writable, the connection, and connecting again.               *)
(*                                                                         *)
(* The handlers run in one loop.  A round of the loop works on the         *)
(* channels that epoll reported together; the handler of one may destroy   *)
(* another.  TcpConnection tells what a connection does while it lasts.    *)
(***************************************************************************)
EXTENDS Integers, FiniteSets

CONSTANTS
  MaxSockets,   \* bound: sockets that are made
  MaxCalls      \* bound: calls of Connect

ASSUME BoundAssumption == MaxSockets \in Nat /\ MaxCalls \in Nat

None == 0
Sockets == 1 .. MaxSockets        \* in the order they are made

VARIABLES
  connect,      \* connect_
  retry,        \* retry_
  asked,        \* how often Connect was called
  calls,        \* connector_.Connect that wait in the queue of the loop
  status,       \* status_ of the connector
  channel,      \* the socket of channel_ptr_, or None
  conn,         \* the socket of connection_ptr_, or None
  sock,         \* the sockets
  testing,      \* sockets that epoll watches for the connector
  active,       \* sockets with a channel in active_channels_
  failed,       \* ghost: an attempt to connect has failed
  up, down,     \* ghosts: connections whose beginning and whose end was told
  crashed       \* why the program has ended

clientVars == <<connect, retry, conn, up, down>>
connectorVars == <<status, channel, testing, failed>>
vars == <<clientVars, connectorVars, asked, calls, sock, active, crashed>>

Init ==
  /\ connect = FALSE /\ retry = FALSE /\ asked = 0 /\ calls = 0
  /\ status = "DISCONNECTED" /\ channel = None /\ conn = None
  /\ sock = [s \in Sockets |-> "none"]
  /\ testing = {} /\ active = {} /\ failed = FALSE
  /\ up = {} /\ down = {} /\ crashed = FALSE

Runs == ~crashed
Made(s) == sock[s] # "none"
MakesNext(s) == ~Made(s) /\ \A t \in 1 .. s - 1 : Made(t)

-----------------------------------------------------------------------------
(* Calls of the application, from any thread *)

Connect ==
  /\ Runs /\ asked < MaxCalls
  /\ asked' = asked + 1 /\ connect' = TRUE /\ calls' = calls + 1
  /\ UNCHANGED <<retry, conn, up, down, connectorVars, sock, active, crashed>>

\* Whatever it is given.
SetReConnect ==
  /\ Runs /\ retry' = TRUE
  /\ UNCHANGED <<connect, conn, up, down, connectorVars, asked, calls, sock, active, crashed>>

\* Also of the destructor.  RemoveConnection is given a reference to the pointer
\* it resets, and then goes through it.
DisConnect ==
  /\ Runs /\ connect' = FALSE /\ crashed' = TRUE
  /\ UNCHANGED <<retry, conn, up, down, connectorVars, asked, calls, sock, active>>

-----------------------------------------------------------------------------
(* Connector *)

\* connect() on a new socket succeeds, or was interrupted and goes on.
Connecting(s, to, others) ==
  /\ to \in {"open", "begun"}
  /\ sock' = [others EXCEPT ![s] = to]
  /\ status' = "CONNECTING" /\ channel' = s
  /\ testing' = testing \cup {s}
  /\ UNCHANGED failed

\* It was refused: nothing is tried again.
Retry(s, others) ==
  /\ sock' = [others EXCEPT ![s] = "closed"]
  /\ status' = "DISCONNECTED" /\ failed' = TRUE
  /\ UNCHANGED <<channel, testing>>

\* Another error.  A ReConnect has set the status before.
Fail(s, before, others) ==
  /\ sock' = [others EXCEPT ![s] = "closed"]
  /\ status' = before /\ failed' = TRUE
  /\ UNCHANGED <<channel, testing>>

\* Connector::Connect, which does not look at the status.
Attempt(s, before, others) ==
  /\ MakesNext(s)
  /\ \/ \E to \in {"open", "begun"} : Connecting(s, to, others)
     \/ Retry(s, others)
     \/ Fail(s, before, others)

\* The functions of the queue run after the channels.
RunConnect ==
  /\ Runs /\ calls > 0 /\ active = {}
  /\ calls' = calls - 1
  /\ \E s \in Sockets : Attempt(s, status, sock)
  /\ UNCHANGED <<clientVars, asked, active, crashed>>

-----------------------------------------------------------------------------
(* The peer *)

\* An interrupted connect() comes to its end.
Settle(s) ==
  /\ Runs /\ sock[s] = "begun"
  /\ \E to \in {"open", "ended"} : sock' = [sock EXCEPT ![s] = to]
  /\ UNCHANGED <<clientVars, connectorVars, asked, calls, active, crashed>>

PeerEnds(s) ==
  /\ Runs /\ sock[s] = "open"
  /\ sock' = [sock EXCEPT ![s] = "ended"]
  /\ UNCHANGED <<clientVars, connectorVars, asked, calls, active, crashed>>

-----------------------------------------------------------------------------
(* The loop *)

\* Writable, which a socket that failed is too, or at the end of the stream.
Reported == {s \in testing : sock[s] \in {"open", "ended"}}
              \cup {s \in {conn} \ {None} : sock[s] = "ended"}

LoopOnce ==
  /\ Runs /\ active = {}
  /\ Reported # {} /\ active' = Reported
  /\ UNCHANGED <<clientVars, connectorVars, asked, calls, sock, crashed>>

\* Mutant: the channel of the test stays watched.
HandleWriteWatched(s) ==
  /\ Runs /\ s \in active /\ s = channel /\ status = "CONNECTING"
  /\ active' = active \ {s}
  /\ channel' = None /\ status' = "CONNECTED"
  /\ conn' = s /\ up' = up \cup {s}
  /\ sock' = IF conn = None THEN sock ELSE [sock EXCEPT ![conn] = "closed"]
  /\ UNCHANGED <<connect, retry, down, testing, failed, asked, calls, crashed>>

\* HandleWrite and OnNewConnection.  The connection there was before is
\* destroyed, and its socket closed, without a word.
HandleWrite(s) ==
  /\ Runs /\ s \in active /\ s = channel /\ status = "CONNECTING"
  /\ active' = active \ {s}
  /\ testing' = testing \ {s} /\ channel' = None /\ status' = "CONNECTED"
  /\ conn' = s /\ up' = up \cup {s}
  /\ sock' = IF conn = None THEN sock ELSE [sock EXCEPT ![conn] = "closed"]
  /\ UNCHANGED <<connect, retry, down, failed, asked, calls, crashed>>

\* The callback does nothing, and is called again in the next round.
HandleWriteIgnored(s) ==
  /\ Runs /\ s \in active /\ s = channel /\ status # "CONNECTING"
  /\ active' = active \ {s}
  /\ UNCHANGED <<clientVars, connectorVars, asked, calls, sock, crashed>>

\* Mutant: a client that was told to connect again does not.
OnCloseOnly(s) ==
  /\ Runs /\ s \in active /\ s = conn
  /\ active' = active \ {s}
  /\ conn' = None /\ down' = down \cup {s}
  /\ sock' = [sock EXCEPT ![s] = "closed"]
  /\ UNCHANGED <<connect, retry, up, connectorVars, asked, calls, crashed>>

\* OnClose of the connection, RemoveConnection and ReConnect.
OnClose(s) ==
  /\ Runs /\ s \in active /\ s = conn
  /\ active' = active \ {s}
  /\ conn' = None /\ down' = down \cup {s}
  /\ LET others == [sock EXCEPT ![s] = "closed"]
     IN  IF retry /\ connect
         THEN \E t \in Sockets : Attempt(t, "DISCONNECTED", others)
         ELSE sock' = others /\ UNCHANGED connectorVars
  /\ UNCHANGED <<connect, retry, up, asked, calls, crashed>>

\* The channel was destroyed, but epoll or the list of the round has its pointer.
HandleDangling(s) ==
  /\ Runs /\ s \in active \ {channel, conn}
  /\ active' = active \ {s}
  /\ crashed' \in BOOLEAN
  /\ UNCHANGED <<clientVars, connectorVars, asked, calls, sock>>

-----------------------------------------------------------------------------

LoopStep ==
  \/ RunConnect \/ LoopOnce
  \/ \E s \in Sockets : \/ HandleWrite(s) \/ HandleWriteIgnored(s) \/ OnClose(s)
                        \/ HandleDangling(s)

\* The program has ended, or waits for somebody; no more sockets are made.
Done == (crashed \/ \A s \in Sockets : Made(s)) /\ UNCHANGED vars

Next ==
  \/ Connect \/ SetReConnect \/ DisConnect
  \/ \E s \in Sockets : Settle(s) \/ PeerEnds(s)
  \/ LoopStep \/ Done

\* The loop turns, and connect() comes to its end.
Fairness == WF_vars(LoopStep) /\ \A s \in Sockets : WF_vars(Settle(s))

Spec == Init /\ [][Next]_vars /\ Fairness

-----------------------------------------------------------------------------
(* Properties *)

TypeOK ==
  /\ {connect, retry, failed, crashed} \subseteq BOOLEAN
  /\ asked \in 0 .. MaxCalls /\ calls \in 0 .. asked
  /\ status \in {"DISCONNECTED", "CONNECTING", "CONNECTED"}
  /\ channel \in Sockets \cup {None} /\ conn \in Sockets \cup {None}
  /\ sock \in [Sockets -> {"none", "begun", "open", "ended", "closed"}]
  /\ {testing, active, up, down} \subseteq SUBSET Sockets

\* A client that is asked to connect once, and connects again by itself as often
\* as it likes, loses nothing: every open socket is the connector's or the
\* connection's, never both; epoll has no pointer to a channel that is gone;
\* the loop does not turn for a channel nobody handles; and the application is
\* told the end of each connection it was told of (Connector, OnNewConnection,
\* RemoveConnection).  Asked twice, the connector drops a channel that is
\* still watched.
OneConnectIsSafe ==
  asked <= 1 =>
    /\ {s \in Sockets : sock[s] \in {"begun", "open", "ended"}} \subseteq {channel, conn}
    /\ channel # None => conn = None /\ status = "CONNECTING"
    /\ testing = {channel} \ {None}
    /\ active \subseteq {channel, conn}
    /\ up \ down = {conn} \ {None}

\* A client that is to connect again has another connection after it lost one,
\* unless an attempt failed, which is not repeated (RemoveConnection,
\* Connector::ReConnect).
ReconnectComes ==
  \A s \in Sockets :
    conn = s /\ sock[s] = "ended" /\ retry /\ connect
      ~> \/ \E t \in Sockets : t > s /\ t \in up
         \/ failed \/ crashed \/ \A t \in Sockets : Made(t)

=============================================================================
