-------------------------- MODULE TcpClient_proofs --------------------------
(***************************************************************************)
(* Proofs about TcpClient, for every number of sockets and calls.          *)
(***************************************************************************)
EXTENDS TcpClient, TLAPS

Live(s) == sock[s] \in {"begun", "open", "ended"}

\* What a client that was asked to connect once keeps to.  OneConnectIsSafe is
\* not inductive: it does not say that the socket of the connector is new to the
\* application, nor that nothing is there yet while the one call waits.
Safe ==
  /\ \A s \in Sockets : Live(s) => s \in {channel, conn}
  /\ channel # None => conn = None /\ status = "CONNECTING" /\ Live(channel)
  /\ conn # None => Live(conn)
  /\ testing = {channel} \ {None}
  /\ active \subseteq {channel, conn}
  /\ up \ down = {conn} \ {None}
  /\ \A s \in down : sock[s] = "closed"
  /\ asked = 0 \/ calls > 0 => channel = None /\ conn = None

ClientInv == TypeOK /\ (asked <= 1 => Safe)

-----------------------------------------------------------------------------

LEMMA InitStep == Init => ClientInv
  <1> SUFFICES ASSUME Init PROVE ClientInv
    OBVIOUS
  <1>1. MaxCalls \in Nat /\ None \notin Sockets
    BY BoundAssumption DEF Sockets, None
  <1>2. TypeOK
    <2>1. asked \in 0 .. MaxCalls /\ calls \in 0 .. asked
      BY <1>1 DEF Init
    <2>2. sock \in [Sockets -> {"none", "begun", "open", "ended", "closed"}]
      BY DEF Init
    <2>3. {connect, retry, failed, crashed} \subseteq BOOLEAN
      BY DEF Init
    <2>4. /\ status \in {"DISCONNECTED", "CONNECTING", "CONNECTED"}
          /\ channel \in Sockets \cup {None} /\ conn \in Sockets \cup {None}
          /\ {testing, active, up, down} \subseteq SUBSET Sockets
      BY DEF Init
    <2>5. QED
      BY <2>1, <2>2, <2>3, <2>4 DEF TypeOK
  <1>3. Safe
    BY DEF Init, Safe, Live
  <1>4. QED
    BY <1>2, <1>3 DEF ClientInv

LEMMA Numbers ==
  ASSUME TypeOK
  PROVE  /\ MaxCalls \in Nat /\ asked \in Nat /\ calls \in Nat /\ calls <= asked
         /\ None \notin Sockets
  BY BoundAssumption DEF TypeOK, Sockets, None

\* A try on a new socket, when the connector has no channel and the connection
\* is gone, leaves a client as it has to be.  The sockets are those in others.
LEMMA AttemptTypes ==
  ASSUME TypeOK, NEW s \in Sockets, NEW before \in {"DISCONNECTED", "CONNECTING", "CONNECTED"},
         NEW others \in [Sockets -> {"none", "begun", "open", "ended", "closed"}],
         Attempt(s, before, others)
  PROVE  /\ sock' \in [Sockets -> {"none", "begun", "open", "ended", "closed"}]
         /\ status' \in {"DISCONNECTED", "CONNECTING", "CONNECTED"}
         /\ channel' \in Sockets \cup {None} /\ testing' \subseteq Sockets
         /\ failed' \in BOOLEAN
  BY DEF TypeOK, Attempt, Connecting, Retry, Fail

LEMMA AttemptSafe ==
  ASSUME TypeOK, NEW s \in Sockets, NEW before,
         NEW others \in [Sockets -> {"none", "begun", "open", "ended", "closed"}],
         Attempt(s, before, others),
         channel = None, testing = {}, others[s] = "none",
         \A t \in Sockets : others[t] \notin {"begun", "open", "ended"},
         conn' = None, NEW D \in SUBSET Sockets, \A t \in D : others[t] = "closed"
  PROVE  /\ \A t \in Sockets : Live(t)' => t = channel'
         /\ channel' # None => status' = "CONNECTING" /\ Live(channel)'
         /\ testing' = {channel'} \ {None}
         /\ \A t \in D : sock'[t] = "closed"
  <1>1. None \notin Sockets
    BY Numbers
  <1>2. ASSUME NEW to, Connecting(s, to, others)
        PROVE  /\ \A t \in Sockets : Live(t)' => t = channel'
               /\ channel' # None => status' = "CONNECTING" /\ Live(channel)'
               /\ testing' = {channel'} \ {None}
               /\ \A t \in D : sock'[t] = "closed"
    BY <1>1, <1>2 DEF Connecting, Live
  <1>3. ASSUME sock' = [others EXCEPT ![s] = "closed"], UNCHANGED <<channel, testing>>
        PROVE  /\ \A t \in Sockets : Live(t)' => t = channel'
               /\ channel' # None => status' = "CONNECTING" /\ Live(channel)'
               /\ testing' = {channel'} \ {None}
               /\ \A t \in D : sock'[t] = "closed"
    BY <1>3 DEF Live
  <1>4. QED
    BY <1>2, <1>3 DEF Attempt, Retry, Fail

-----------------------------------------------------------------------------

LEMMA ConnectStep == ASSUME ClientInv, Connect PROVE ClientInv'
  <1>1. TypeOK /\ (asked <= 1 => Safe)
    BY DEF ClientInv
  <1>2. MaxCalls \in Nat /\ asked \in Nat /\ calls \in Nat /\ calls <= asked
    BY <1>1, Numbers
  <1>3. TypeOK'
    BY <1>1, <1>2 DEF TypeOK, Connect, connectorVars
  <1>4. ASSUME asked' <= 1 PROVE Safe'
    <2>1. asked = 0 /\ Safe
      BY <1>1, <1>2, <1>4 DEF Connect
    <2>2. QED
      BY <2>1 DEF Safe, Live, Connect, connectorVars
  <1>5. QED
    BY <1>3, <1>4 DEF ClientInv

LEMMA RunConnectStep == ASSUME ClientInv, RunConnect PROVE ClientInv'
  <1>1. TypeOK /\ (asked <= 1 => Safe)
    BY DEF ClientInv
  <1>2. asked \in Nat /\ calls \in Nat /\ calls <= asked
    BY <1>1, Numbers
  <1>3. /\ calls > 0 /\ active = {} /\ calls' = calls - 1
        /\ UNCHANGED <<clientVars, asked, active, crashed>>
    BY DEF RunConnect
  <1>4. PICK s \in Sockets : Attempt(s, status, sock)
    BY DEF RunConnect
  <1>5. /\ sock \in [Sockets -> {"none", "begun", "open", "ended", "closed"}]
        /\ status \in {"DISCONNECTED", "CONNECTING", "CONNECTED"}
    BY <1>1 DEF TypeOK
  <1>6. TypeOK'
    <2>1. calls' \in 0 .. asked'
      BY <1>2, <1>3
    <2>2. /\ sock' \in [Sockets -> {"none", "begun", "open", "ended", "closed"}]
          /\ status' \in {"DISCONNECTED", "CONNECTING", "CONNECTED"}
          /\ channel' \in Sockets \cup {None} /\ testing' \subseteq Sockets
          /\ failed' \in BOOLEAN
      BY <1>1, <1>4, <1>5, AttemptTypes
    <2>3. QED
      BY <1>1, <1>3, <2>1, <2>2 DEF TypeOK, clientVars
  <1>7. ASSUME asked' <= 1 PROVE Safe'
    <2>1. Safe
      BY <1>1, <1>3, <1>7
    <2>2. channel = None /\ conn = None /\ testing = {} /\ conn' = None
      BY <1>3, <2>1 DEF Safe, clientVars
    <2>3. sock[s] = "none"
      BY <1>4 DEF Attempt, MakesNext, Made
    <2>4. \A t \in Sockets : sock[t] \notin {"begun", "open", "ended"}
      BY <1>1, <2>1, <2>2, Numbers DEF Safe, Live
    <2>5. down \in SUBSET Sockets /\ \A t \in down : sock[t] = "closed"
      BY <1>1, <2>1 DEF TypeOK, Safe
    <2>6. /\ \A t \in Sockets : Live(t)' => t = channel'
          /\ channel' # None => status' = "CONNECTING" /\ Live(channel)'
          /\ testing' = {channel'} \ {None}
          /\ \A t \in down : sock'[t] = "closed"
      BY <1>1, <1>4, <1>5, <2>2, <2>3, <2>4, <2>5, AttemptSafe
    <2>7. asked' = 1 /\ calls' = 0
      BY <1>2, <1>3, <1>7
    <2>8. QED
      BY <1>3, <2>1, <2>2, <2>6, <2>7 DEF Safe, clientVars
  <1>8. QED
    BY <1>6, <1>7 DEF ClientInv

LEMMA PeerStep ==
  ASSUME ClientInv, NEW s \in Sockets, Settle(s) \/ PeerEnds(s) PROVE ClientInv'
  <1>1. TypeOK /\ (asked <= 1 => Safe)
    BY DEF ClientInv
  <1>2. /\ Live(s) /\ (sock' = [sock EXCEPT ![s] = "open"] \/ sock' = [sock EXCEPT ![s] = "ended"])
        /\ UNCHANGED <<clientVars, connectorVars, asked, calls, active, crashed>>
    BY DEF Settle, PeerEnds, Live
  <1>3. TypeOK'
    BY <1>1, <1>2 DEF TypeOK, clientVars, connectorVars
  <1>4. \A t \in Sockets : (Live(t)' <=> Live(t)) /\ (sock[t] = "closed" => sock'[t] = "closed")
    BY <1>1, <1>2 DEF TypeOK, Live
  <1>5. ASSUME asked' <= 1 PROVE Safe'
    <2>1. /\ Safe /\ down \subseteq Sockets
          /\ {channel, conn} \subseteq Sockets \cup {None}
      BY <1>1, <1>2, <1>5 DEF TypeOK
    <2>2. UNCHANGED <<channel, conn, status, testing, active, up, down, asked, calls>>
      BY <1>2 DEF clientVars, connectorVars
    <2>3. /\ channel # None => Live(channel)'
          /\ conn # None => Live(conn)'
          /\ \A t \in down : sock'[t] = "closed"
      BY <1>4, <2>1, <2>2 DEF Safe
    <2>4. \A t \in Sockets : Live(t)' => t \in {channel, conn}
      BY <1>4, <2>1 DEF Safe
    <2>5. QED
      BY <2>1, <2>2, <2>3, <2>4 DEF Safe
  <1>6. QED
    BY <1>3, <1>5 DEF ClientInv

LEMMA LoopOnceStep == ASSUME ClientInv, LoopOnce PROVE ClientInv'
  <1>1. TypeOK /\ (asked <= 1 => Safe)
    BY DEF ClientInv
  <1>2. TypeOK'
    BY <1>1 DEF TypeOK, LoopOnce, Reported, clientVars, connectorVars
  <1>3. ASSUME asked' <= 1 PROVE Safe'
    <2>1. Safe /\ UNCHANGED <<clientVars, connectorVars, asked, calls, sock>>
      BY <1>1, <1>3 DEF LoopOnce
    <2>2. active' \subseteq testing \cup ({conn} \ {None})
      BY DEF LoopOnce, Reported
    <2>3. active' \subseteq {channel, conn}
      BY <2>1, <2>2 DEF Safe
    <2>4. UNCHANGED <<channel, conn, status, testing, up, down, asked, calls, sock>>
      BY <2>1 DEF clientVars, connectorVars
    <2>5. QED
      BY <2>1, <2>3, <2>4 DEF Safe, Live
  <1>4. QED
    BY <1>2, <1>3 DEF ClientInv

LEMMA HandleWriteStep ==
  ASSUME ClientInv, NEW s \in Sockets, HandleWrite(s) PROVE ClientInv'
  <1>1. TypeOK /\ (asked <= 1 => Safe) /\ None \notin Sockets
    BY Numbers DEF ClientInv
  <1>2. TypeOK'
    BY <1>1 DEF TypeOK, HandleWrite
  <1>3. ASSUME asked' <= 1 PROVE Safe'
    <2>1. Safe /\ s = channel /\ conn = None /\ sock' = sock /\ Live(s)
      BY <1>1, <1>3 DEF HandleWrite, Safe
    <2>2. s \notin down
      BY <2>1 DEF Safe, Live
    <2>3. /\ channel' = None /\ conn' = s /\ testing' = {} /\ up' = up \cup {s}
          /\ active' = active \ {s} /\ UNCHANGED <<down, asked, calls>>
      BY <2>1 DEF HandleWrite, Safe
    <2>4. up' \ down' = {conn'} \ {None}
      BY <1>1, <2>1, <2>2, <2>3 DEF Safe
    <2>5. QED
      BY <1>1, <2>1, <2>3, <2>4 DEF Safe, Live
  <1>4. QED
    BY <1>2, <1>3 DEF ClientInv

LEMMA OnCloseStep ==
  ASSUME ClientInv, NEW s \in Sockets, OnClose(s) PROVE ClientInv'
  <1> DEFINE others == [sock EXCEPT ![s] = "closed"]
  <1>1. TypeOK /\ (asked <= 1 => Safe) /\ None \notin Sockets
    BY Numbers DEF ClientInv
  <1>2. /\ s \in active /\ s = conn /\ active' = active \ {s}
        /\ conn' = None /\ down' = down \cup {s}
        /\ UNCHANGED <<connect, retry, up, asked, calls, crashed>>
        /\ \/ \E t \in Sockets : Attempt(t, "DISCONNECTED", others)
           \/ sock' = others /\ UNCHANGED connectorVars
    BY DEF OnClose
  <1>3. others \in [Sockets -> {"none", "begun", "open", "ended", "closed"}]
    BY <1>1 DEF TypeOK
  <1>4. TypeOK'
    <2>1. /\ sock' \in [Sockets -> {"none", "begun", "open", "ended", "closed"}]
          /\ status' \in {"DISCONNECTED", "CONNECTING", "CONNECTED"}
          /\ channel' \in Sockets \cup {None} /\ testing' \subseteq Sockets
          /\ failed' \in BOOLEAN
      <3>1. CASE \E t \in Sockets : Attempt(t, "DISCONNECTED", others)
        BY <1>1, <1>3, <3>1, AttemptTypes
      <3>2. CASE sock' = others /\ UNCHANGED connectorVars
        BY <1>1, <1>3, <3>2 DEF TypeOK, connectorVars
      <3>3. QED
        BY <1>2, <3>1, <3>2
    <2>2. QED
      BY <1>1, <1>2, <2>1 DEF TypeOK
  <1>5. ASSUME asked' <= 1 PROVE Safe'
    <2>1. Safe /\ conn # None /\ channel = None /\ testing = {}
      BY <1>1, <1>2, <1>5 DEF Safe
    <2>2. \A t \in Sockets : others[t] \notin {"begun", "open", "ended"}
      <3>1. \A t \in Sockets : t # s => ~Live(t)
        BY <1>1, <1>2, <2>1 DEF Safe
      <3>2. QED
        BY <1>1, <3>1 DEF TypeOK, Live
    <2>3. down' \in SUBSET Sockets /\ \A t \in down' : others[t] = "closed"
      BY <1>1, <1>2, <2>1 DEF TypeOK, Safe
    <2>4. /\ \A t \in Sockets : Live(t)' => t = channel'
          /\ channel' # None => status' = "CONNECTING" /\ Live(channel)'
          /\ testing' = {channel'} \ {None}
          /\ \A t \in down' : sock'[t] = "closed"
      <3> HIDE DEF others
      <3>1. ASSUME NEW t \in Sockets, Attempt(t, "DISCONNECTED", others)
            PROVE  /\ \A u \in Sockets : Live(u)' => u = channel'
                   /\ channel' # None => status' = "CONNECTING" /\ Live(channel)'
                   /\ testing' = {channel'} \ {None}
                   /\ \A u \in down' : sock'[u] = "closed"
        <4>1. sock[t] = "none"
          BY <3>1 DEF Attempt, MakesNext, Made
        <4>2. others[t] = "none"
          <5>1. Live(s)
            BY <1>2, <2>1 DEF Safe
          <5>2. t # s
            BY <4>1, <5>1 DEF Live
          <5>3. QED
            BY <1>1, <4>1, <5>2 DEF TypeOK, others
        <4>3. conn' = None
          BY <1>2
        <4>4. QED
          BY <1>1, <4>3, <1>3, <2>1, <2>2, <2>3, <3>1, <4>2, AttemptSafe
      <3>2. CASE sock' = others /\ UNCHANGED connectorVars
        BY <1>1, <2>1, <2>2, <2>3, <3>2 DEF Live, connectorVars
      <3>3. QED
        BY <1>2, <3>1, <3>2
    <2>5. up' \ down' = {} /\ active' \subseteq {channel'}
      BY <1>1, <1>2, <2>1 DEF Safe, TypeOK
    <2>6. asked # 0 /\ ~(calls > 0)
      BY <2>1 DEF Safe
    <2>7. QED
      BY <1>2, <2>4, <2>5, <2>6 DEF Safe
  <1>6. QED
    BY <1>4, <1>5 DEF ClientInv

\* A client asked once has no dangling channel and no channel that nobody tests.
LEMMA OtherSteps ==
  ASSUME ClientInv,
         \/ SetReConnect \/ DisConnect \/ Done \/ UNCHANGED vars
         \/ \E s \in Sockets : HandleWriteIgnored(s) \/ HandleDangling(s)
  PROVE  ClientInv'
  <1>1. /\ asked' = asked /\ calls' = calls /\ UNCHANGED <<connectorVars, sock, conn, up, down>>
        /\ active' \subseteq active /\ {connect', retry', crashed'} \subseteq BOOLEAN
    BY DEF ClientInv, TypeOK, SetReConnect, DisConnect, Done, HandleWriteIgnored, HandleDangling,
           vars, clientVars, connectorVars
  <1>2. TypeOK'
    BY <1>1 DEF ClientInv, TypeOK, connectorVars
  <1>3. asked' <= 1 => Safe'
    BY <1>1 DEF ClientInv, Safe, connectorVars, Live
  <1>4. QED
    BY <1>2, <1>3 DEF ClientInv

LEMMA NextStep == ASSUME ClientInv, [Next]_vars PROVE ClientInv'
  <1>1. CASE Connect
    BY <1>1, ConnectStep
  <1>2. CASE RunConnect
    BY <1>2, RunConnectStep
  <1>3. CASE \E s \in Sockets : Settle(s) \/ PeerEnds(s)
    BY <1>3, PeerStep
  <1>4. CASE LoopOnce
    BY <1>4, LoopOnceStep
  <1>5. CASE \E s \in Sockets : HandleWrite(s)
    BY <1>5, HandleWriteStep
  <1>6. CASE \E s \in Sockets : OnClose(s)
    BY <1>6, OnCloseStep
  <1>7. CASE \/ SetReConnect \/ DisConnect \/ Done \/ UNCHANGED vars
             \/ \E s \in Sockets : HandleWriteIgnored(s) \/ HandleDangling(s)
    BY <1>7, OtherSteps
  <1>8. QED
    BY <1>1, <1>2, <1>3, <1>4, <1>5, <1>6, <1>7 DEF Next, LoopStep

LEMMA InvariantHolds == Spec => []ClientInv
  BY InitStep, NextStep, PTL DEF Spec

\* The types of a client, for every bound.
THEOREM TypeCorrect == Spec => []TypeOK
  <1>1. ClientInv => TypeOK
    BY DEF ClientInv
  <1>2. QED
    BY <1>1, InvariantHolds, PTL

\* A client that is asked to connect once leaks no socket, leaves no channel
\* that is watched or reported behind, and tells every end, however often it
\* connects again and whatever becomes of the attempts.
THEOREM OneConnect == Spec => []OneConnectIsSafe
  <1>1. ClientInv => OneConnectIsSafe
    BY DEF ClientInv, Safe, OneConnectIsSafe, Live
  <1>2. QED
    BY <1>1, InvariantHolds, PTL

-----------------------------------------------------------------------------
(* One connection after the other *)

\* Sockets are made in order, and what the connector or the client holds is the
\* newest: so the connections that the application was told of are older, and
\* it was told of them before it is told of their end.
Ordered ==
  /\ \A s \in Sockets : Made(s) => \A t \in 1 .. s - 1 : Made(t)
  /\ \A s \in Sockets : Made(s) =>
       (channel # None => s <= channel) /\ (conn # None => s <= conn)
  /\ down \subseteq up /\ \A s \in up : Made(s)
  /\ channel \notin up

OrderInv == asked <= 1 => Ordered

\* A connection is told of when the ends of all others were told, and is newer
\* than they are; the end that is told is the one of the newest (HandleWrite,
\* OnNewConnection, OnClose, RemoveConnection).
OneAfterAnother ==
  [][asked' <= 1 =>
       /\ \A s \in up' \ up : up \subseteq down /\ \A t \in up : t < s
       /\ \A s \in down' \ down : s \in up /\ \A t \in up : t <= s]_vars

\* A client that is to connect again is connected or on the way to it, unless an
\* attempt has failed: neither the connector nor the client lets go of what it
\* holds before the other has the next (HandleWrite, RemoveConnection, ReConnect).
KeepsGoing ==
  [][retry /\ connect /\ {channel, conn} # {None} =>
       {channel', conn'} # {None} \/ failed']_vars

LEMMA SocketNumbers == \A s \in Sockets : s \in Nat /\ s # None
  BY BoundAssumption DEF Sockets, None

\* The socket of an attempt is newer than all others, whatever comes of it.
LEMMA AttemptMakes ==
  ASSUME TypeOK, Ordered, NEW s \in Sockets, NEW before,
         NEW others \in [Sockets -> {"none", "begun", "open", "ended", "closed"}],
         Attempt(s, before, others),
         \A t \in Sockets : others[t] = "none" <=> sock[t] = "none"
  PROVE  /\ \A t \in Sockets : Made(t) => t < s
         /\ \A t \in Sockets : Made(t)' <=> Made(t) \/ t = s
         /\ \A t \in 1 .. s - 1 : Made(t)
         /\ ~Made(s)
         /\ \/ channel' = s
            \/ channel' = channel /\ failed'
  <1>1. ~Made(s) /\ \A t \in 1 .. s - 1 : Made(t)
    BY DEF Attempt, MakesNext
  <1>2. \A t \in Sockets : Made(t) => t < s
    <2>1. ASSUME NEW t \in Sockets, Made(t), ~(t < s) PROVE FALSE
      <3>1. t \in Nat /\ s \in Nat /\ t # s /\ s >= 1
        BY <1>1, <2>1, SocketNumbers DEF Sockets
      <3>2. s \in 1 .. t - 1
        BY <2>1, <3>1
      <3>3. QED
        BY <1>1, <2>1, <3>2 DEF Ordered
    <2>2. QED
      BY <2>1
  <1>3. PICK to \in {"open", "begun", "closed"} :
          /\ sock' = [others EXCEPT ![s] = to]
          /\ channel' = s \/ (channel' = channel /\ failed')
    BY DEF Attempt, Connecting, Retry, Fail
  <1>4. \A t \in Sockets : sock'[t] = IF t = s THEN to ELSE others[t]
    BY <1>3
  <1>5. \A t \in Sockets : Made(t)' <=> Made(t) \/ t = s
    <2>1. \A t \in Sockets : sock'[t] # "none" <=> sock[t] # "none" \/ t = s
      BY <1>3, <1>4
    <2>2. QED
      BY <2>1 DEF Made
  <1>6. QED
    BY <1>1, <1>2, <1>3, <1>5

\* After an attempt of a client that has nothing, the sockets are in order.
LEMMA AttemptOrdered ==
  ASSUME TypeOK, Ordered, NEW s \in Sockets, channel = None, conn' = None,
         \A t \in Sockets : Made(t) => t < s,
         \A t \in Sockets : Made(t)' <=> Made(t) \/ t = s,
         \A t \in 1 .. s - 1 : Made(t), ~Made(s),
         channel' \in {s, None}, up' = up, down' \subseteq up
  PROVE  Ordered'
  <1>1. \A t \in Sockets : t \in Nat /\ t # None
    BY SocketNumbers
  <1>2. ASSUME NEW t \in Sockets, Made(t)', NEW u \in 1 .. t - 1 PROVE Made(u)'
    <2>1. u \in Sockets
      BY <1>1, BoundAssumption DEF Sockets
    <2>2. Made(u)
      <3>1. CASE Made(t)
        BY <3>1 DEF Ordered
      <3>2. CASE t = s
        BY <3>2
      <3>3. QED
        BY <1>2, <3>1, <3>2
    <2>3. QED
      BY <2>1, <2>2
  <1>3. \A t \in Sockets : Made(t)' =>
          (channel' # None => t <= channel') /\ (conn' # None => t <= conn')
    BY <1>1
  <1>4. up \subseteq Sockets /\ (\A t \in up : Made(t)) /\ None \notin up
    BY <1>1 DEF TypeOK, Ordered
  <1>5. (\A t \in up' : Made(t)') /\ channel' \notin up'
    BY <1>4
  <1>6. QED
    BY <1>2, <1>3, <1>5 DEF Ordered

LEMMA InitOrder == Init => OrderInv
  BY DEF Init, OrderInv, Ordered, Made

\* A step that makes no socket and passes none on.
LEMMA OrderKept ==
  ASSUME ClientInv, OrderInv, UNCHANGED <<channel, conn, up, down>>, asked' <= 1 => asked <= 1,
         \A t \in Sockets : Made(t)' <=> Made(t)
  PROVE  OrderInv'
  <1>1. up \subseteq Sockets /\ asked \in Nat
    BY Numbers DEF ClientInv, TypeOK
  <1>2. ASSUME asked' <= 1 PROVE Ordered'
    <2>1. Ordered
      BY <1>1, <1>2 DEF OrderInv
    <2>2. \A s \in Sockets : \A t \in 1 .. s - 1 : t \in Sockets
      BY BoundAssumption DEF Sockets
    <2>3. \A s \in Sockets : Made(s)' => \A t \in 1 .. s - 1 : Made(t)'
      BY <2>1, <2>2 DEF Ordered
    <2>4. QED
      BY <1>1, <2>1, <2>3 DEF Ordered
  <1>3. QED
    BY <1>2 DEF OrderInv

\* A client that is asked once has nothing when it tries, so that what it makes
\* is the newest of all it has.
LEMMA OrderRunConnect == ASSUME ClientInv, OrderInv, RunConnect PROVE OrderInv'
  <1>1. TypeOK
    BY DEF ClientInv
  <1>2. ASSUME asked' <= 1 PROVE Ordered'
    <2>1. Ordered /\ Safe
      BY <1>2 DEF ClientInv, OrderInv, RunConnect
    <2>2. channel = None /\ conn' = None /\ up' = up /\ down' = down
      BY <2>1 DEF Safe, RunConnect, clientVars
    <2>3. PICK s \in Sockets : Attempt(s, status, sock)
      BY DEF RunConnect
    <2>4. sock \in [Sockets -> {"none", "begun", "open", "ended", "closed"}]
      BY <1>1 DEF TypeOK
    <2>5. /\ \A t \in Sockets : Made(t) => t < s
          /\ \A t \in Sockets : Made(t)' <=> Made(t) \/ t = s
          /\ \A t \in 1 .. s - 1 : Made(t)
          /\ ~Made(s)
          /\ channel' = s \/ channel' = channel
      BY <1>1, <2>1, <2>3, <2>4, AttemptMakes
    <2>6. channel' \in {s, None} /\ down' \subseteq up
      BY <2>1, <2>2, <2>5 DEF Ordered
    <2>7. QED
      BY <1>1, <2>1, <2>2, <2>5, <2>6, AttemptOrdered
  <1>3. QED
    BY <1>2 DEF OrderInv

LEMMA OrderOnClose ==
  ASSUME ClientInv, OrderInv, NEW c \in Sockets, OnClose(c) PROVE OrderInv'
  <1> DEFINE others == [sock EXCEPT ![c] = "closed"]
  <1>1. TypeOK /\ None \notin Sockets
    BY Numbers DEF ClientInv
  <1>2. /\ c = conn /\ conn' = None /\ down' = down \cup {c} /\ up' = up /\ asked' = asked
        /\ \/ \E t \in Sockets : Attempt(t, "DISCONNECTED", others)
           \/ sock' = others /\ UNCHANGED connectorVars
    BY DEF OnClose
  <1>3. ASSUME asked' <= 1 PROVE Ordered'
    <2>1. Ordered /\ Safe
      BY <1>2, <1>3 DEF ClientInv, OrderInv
    <2>2. channel = None /\ down' \subseteq up
      BY <1>1, <1>2, <2>1 DEF Safe, Ordered
    <2>3. Made(c)
      BY <1>1, <1>2, <2>1 DEF Safe, Live, Made
    <2>4. /\ others \in [Sockets -> {"none", "begun", "open", "ended", "closed"}]
          /\ \A t \in Sockets : others[t] = "none" <=> sock[t] = "none"
      BY <1>1, <2>3 DEF TypeOK, Made
    <2> HIDE DEF others
    <2>5. ASSUME NEW s \in Sockets, Attempt(s, "DISCONNECTED", others) PROVE Ordered'
      <3>1. /\ \A t \in Sockets : Made(t) => t < s
            /\ \A t \in Sockets : Made(t)' <=> Made(t) \/ t = s
            /\ \A t \in 1 .. s - 1 : Made(t)
            /\ ~Made(s)
            /\ channel' = s \/ channel' = channel
        BY <1>1, <2>1, <2>4, <2>5, AttemptMakes
      <3>2. channel' \in {s, None}
        BY <2>2, <3>1
      <3>3. QED
        BY <1>1, <1>2, <2>1, <2>2, <3>1, <3>2, AttemptOrdered
    <2>6. CASE sock' = others /\ UNCHANGED connectorVars
      <3>1. \A t \in Sockets : Made(t)' <=> Made(t)
        BY <2>4, <2>6 DEF Made
      <3>2. channel' = None /\ conn' = None
        BY <1>2, <2>2, <2>6 DEF connectorVars
      <3>3. up \subseteq Sockets /\ \A s \in Sockets : \A t \in 1 .. s - 1 : t \in Sockets
        BY <1>1, BoundAssumption DEF TypeOK, Sockets
      <3>4. \A s \in Sockets : Made(s)' => \A t \in 1 .. s - 1 : Made(t)'
        BY <2>1, <3>1, <3>3 DEF Ordered
      <3>5. QED
        BY <1>1, <1>2, <2>1, <2>2, <3>1, <3>2, <3>3, <3>4 DEF Ordered
    <2>7. QED
      BY <1>2, <2>5, <2>6
  <1>4. QED
    BY <1>3 DEF OrderInv

LEMMA OrderHandleWrite ==
  ASSUME ClientInv, OrderInv, NEW c \in Sockets, HandleWrite(c) PROVE OrderInv'
  <1>1. TypeOK /\ None \notin Sockets
    BY Numbers DEF ClientInv
  <1>2. ASSUME asked' <= 1 PROVE Ordered'
    <2>1. Ordered /\ Safe
      BY <1>2 DEF ClientInv, OrderInv, HandleWrite
    <2>2. /\ c = channel /\ conn = None /\ sock' = sock /\ Made(c)
          /\ channel' = None /\ conn' = c /\ up' = up \cup {c} /\ down' = down
      BY <1>1, <2>1 DEF HandleWrite, Safe, Live, Made
    <2>3. None \notin up'
      BY <1>1, <2>2 DEF TypeOK
    <2>4. QED
      BY <1>1, <2>1, <2>2, <2>3 DEF Ordered, Made
  <1>3. QED
    BY <1>2 DEF OrderInv

LEMMA OrderStep == ASSUME ClientInv, OrderInv, [Next]_vars PROVE OrderInv'
  <1>1. CASE Connect
    <2>1. asked' <= 1 => asked <= 1
      BY <1>1, Numbers DEF ClientInv, Connect
    <2>2. UNCHANGED <<channel, conn, up, down>> /\ \A t \in Sockets : Made(t)' <=> Made(t)
      BY <1>1 DEF Connect, connectorVars, Made
    <2>3. QED
      BY <2>1, <2>2, OrderKept
  <1>2. CASE \/ SetReConnect \/ DisConnect \/ LoopOnce \/ Done \/ UNCHANGED vars
             \/ \E s \in Sockets : HandleWriteIgnored(s) \/ HandleDangling(s)
    <2>1. UNCHANGED <<channel, conn, up, down, asked, sock>>
      BY <1>2 DEF SetReConnect, DisConnect, LoopOnce, Done, HandleWriteIgnored,
                  HandleDangling, vars, clientVars, connectorVars
    <2>2. QED
      BY <2>1, OrderKept DEF Made
  <1>3. CASE \E s \in Sockets : Settle(s) \/ PeerEnds(s)
    <2>1. PICK s \in Sockets, to \in {"open", "ended"} :
            /\ Made(s) /\ sock' = [sock EXCEPT ![s] = to]
            /\ UNCHANGED <<channel, conn, up, down, asked>>
      BY <1>3 DEF Settle, PeerEnds, Made, clientVars, connectorVars
    <2>2. \A t \in Sockets : Made(t)' <=> Made(t)
      BY <2>1 DEF ClientInv, TypeOK, Made
    <2>3. QED
      BY <2>1, <2>2, OrderKept
  <1>4. CASE RunConnect
    BY <1>4, OrderRunConnect
  <1>5. CASE \E s \in Sockets : HandleWrite(s)
    BY <1>5, OrderHandleWrite
  <1>6. CASE \E s \in Sockets : OnClose(s)
    BY <1>6, OrderOnClose
  <1>7. QED
    BY <1>1, <1>2, <1>3, <1>4, <1>5, <1>6 DEF Next, LoopStep

LEMMA OrderHolds == Spec => [](ClientInv /\ OrderInv)
  <1>1. OrderInv /\ ClientInv /\ [Next]_vars => OrderInv'
    BY OrderStep
  <1>2. QED
    BY <1>1, InitOrder, InvariantHolds, PTL DEF Spec

\* Connections come one after the other, each newer than those before it, for
\* a client that is asked to connect once.
THEOREM OneAfterAnotherCorrect == Spec => OneAfterAnother
  <1>1. ASSUME ClientInv, OrderInv, [Next]_vars
        PROVE  asked' <= 1 =>
                 /\ \A s \in up' \ up : up \subseteq down /\ \A t \in up : t < s
                 /\ \A s \in down' \ down : s \in up /\ \A t \in up : t <= s
    <2> SUFFICES ASSUME asked' <= 1
                 PROVE  /\ \A s \in up' \ up : up \subseteq down /\ \A t \in up : t < s
                        /\ \A s \in down' \ down : s \in up /\ \A t \in up : t <= s
      OBVIOUS
    <2>1. TypeOK /\ None \notin Sockets /\ \A s \in Sockets : s \in Nat
      BY <1>1, Numbers, SocketNumbers DEF ClientInv
    <2>2. CASE \E s \in Sockets : HandleWrite(s)
      <3>1. PICK s \in Sockets : HandleWrite(s)
        BY <2>2
      <3>2. Ordered /\ Safe
        BY <1>1, <3>1 DEF ClientInv, OrderInv, HandleWrite
      <3>3. s = channel /\ conn = None /\ up' = up \cup {s} /\ down' = down
        BY <2>1, <3>1, <3>2 DEF HandleWrite, Safe
      <3>4. up \subseteq Sockets /\ up \subseteq down
        BY <2>1, <3>2, <3>3 DEF TypeOK, Safe
      <3>5. \A t \in up : t <= s /\ t # s
        BY <2>1, <3>2, <3>3, <3>4 DEF Ordered
      <3>6. \A t \in up : t < s
        BY <2>1, <3>4, <3>5
      <3>7. QED
        BY <3>3, <3>4, <3>6
    <2>3. CASE \E s \in Sockets : OnClose(s)
      <3>1. PICK s \in Sockets : OnClose(s)
        BY <2>3
      <3>2. Ordered /\ Safe
        BY <1>1, <3>1 DEF ClientInv, OrderInv, OnClose
      <3>3. s = conn /\ up' = up /\ down' = down \cup {s}
        BY <3>1 DEF OnClose
      <3>4. s \in up /\ up \subseteq Sockets
        BY <2>1, <3>2, <3>3 DEF Safe, TypeOK
      <3>5. \A t \in up : t <= s
        BY <2>1, <3>2, <3>3, <3>4 DEF Ordered
      <3>6. QED
        BY <3>3, <3>4, <3>5
    <2>4. CASE UNCHANGED <<up, down>>
      BY <2>4
    <2>5. QED
      <3>1. \/ \E s \in Sockets : HandleWrite(s) \/ OnClose(s)
            \/ UNCHANGED <<up, down>>
        BY <1>1 DEF Next, LoopStep, Connect, SetReConnect, DisConnect, Settle, PeerEnds, RunConnect,
               LoopOnce, HandleWriteIgnored, HandleDangling, Done, vars, clientVars
      <3>2. QED
        BY <2>2, <2>3, <2>4, <3>1
  <1>2. QED
    BY <1>1, OrderHolds, PTL DEF Spec, OneAfterAnother

\* A client that is to connect again never stops on the way, unless an attempt
\* fails, however often it was asked.
THEOREM KeepsGoingCorrect == Spec => KeepsGoing
  <1>1. ASSUME ClientInv, [Next]_vars
        PROVE  retry /\ connect /\ {channel, conn} # {None} =>
                 {channel', conn'} # {None} \/ failed'
    <2> SUFFICES ASSUME retry, connect, {channel, conn} # {None}
                 PROVE  {channel', conn'} # {None} \/ failed'
      OBVIOUS
    <2>1. None \notin Sockets
      BY <1>1, Numbers DEF ClientInv
    <2>2. CASE \E s \in Sockets : HandleWrite(s)
      BY <2>1, <2>2 DEF HandleWrite
    <2>3. CASE \E s \in Sockets : OnClose(s)
      <3>1. \E t \in Sockets : \E others : Attempt(t, "DISCONNECTED", others)
        BY <2>3 DEF OnClose
      <3>2. channel' \in Sockets \/ failed'
        BY <3>1 DEF Attempt, Connecting, Retry, Fail
      <3>3. QED
        BY <2>1, <3>2
    <2>4. CASE RunConnect
      <3>1. PICK t \in Sockets : Attempt(t, status, sock)
        BY <2>4 DEF RunConnect
      <3>2. channel' = t \/ failed'
        BY <3>1 DEF Attempt, Connecting, Retry, Fail
      <3>3. QED
        BY <2>1, <3>2
    <2>5. CASE UNCHANGED <<channel, conn>>
      BY <2>5
    <2>6. QED
      <3>1. \/ RunConnect \/ \E s \in Sockets : HandleWrite(s) \/ OnClose(s)
            \/ UNCHANGED <<channel, conn>>
        BY <1>1 DEF Next, LoopStep, Connect, SetReConnect, DisConnect, Settle, PeerEnds,
               LoopOnce, HandleWriteIgnored, HandleDangling, Done, vars, clientVars, connectorVars
      <3>2. QED
        BY <2>2, <2>3, <2>4, <2>5, <3>1
  <1>2. QED
    BY <1>1, InvariantHolds, PTL DEF Spec, KeepsGoing

=============================================================================
