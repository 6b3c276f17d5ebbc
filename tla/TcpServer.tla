----------------------------- MODULE TcpServer -----------------------------
(***************************************************************************)
(* A TcpServer (network/TcpServer.cpp) with its Acceptor and its pool of   *)
(* loops (EventLoopThreadPool.cpp), from the first connection to the end   *)
(* of its destructor.                                                      *)
(*                                                                         *)
(* Thread 0 is the one of main(): it runs the accept loop and, after the   *)
(* loop was stopped, the destructors.  The others are the io loops.  All   *)
(* of them use connection_map_, without a lock.  The owner is the object   *)
(* whose functions are the callbacks (RtmpPushServer, HttpServer): its     *)
(* members are destroyed before the server is.                             *)
(*                                                                         *)
(* EventLoop tells how a loop starts, stops and runs what it is handed;    *)
(* TcpConnection what a connection does between Established and OnClose.   *)
(***************************************************************************)
EXTENDS Integers, FiniteSets

CONSTANTS
  Conns,        \* connections that clients make
  MaxThreads    \* bound: SetThreadNum is given at most this number

None == "none"

ASSUME NoneAssumption == None \notin Conns
ASSUME ThreadsAssumption == MaxThreads \in Nat

VARIABLES
  threadNum,    \* thread_num_
  main,         \* where the thread of main() is
  joined,       \* loops whose thread was joined
  nextId,       \* next_thread_id_
  map,          \* connection_map_
  visited,      \* connections the destructor has been to
  status,       \* connection_status_
  loopOf,       \* the loop of a connection
  watched,      \* connections whose channel is watched
  pending,      \* connections whose Established is in the queue of their loop
  active,       \* connections whose channel is in active_channels_ of their loop
  looping,      \* loops whose looping_ is true
  pos, conn,    \* what a thread is about to do, and with which connection
  up, down,     \* ghosts: how often the connection callback was told of each
  crashed       \* why the program has ended

connVars == <<status, loopOf, watched, up, down, pending, active>>
poolVars == <<threadNum, joined, nextId, looping>>
vars == <<poolVars, main, map, visited, connVars, pos, conn, crashed>>

Threads == 0 .. threadNum
Loops == IF threadNum = 0 THEN {0} ELSE 1 .. threadNum

Init ==
  /\ threadNum \in 0 .. MaxThreads
  /\ main = "serve" /\ joined = 0 /\ nextId = 0
  /\ map = {} /\ visited = {} /\ watched = {} /\ pending = {} /\ active = {}
  /\ status = [c \in Conns |-> "CONNECTING"]
  /\ loopOf = [c \in Conns |-> -1]
  /\ looping = 1 .. threadNum
  /\ pos = [t \in 0 .. MaxThreads |-> "idle"]
  /\ conn = [t \in 0 .. MaxThreads |-> None]
  /\ up = [c \in Conns |-> 0] /\ down = [c \in Conns |-> 0]
  /\ crashed = None

Runs == crashed = None

Goes(t, from, to, c) ==
  /\ pos[t] = from
  /\ pos' = [pos EXCEPT ![t] = to]
  /\ conn' = [conn EXCEPT ![t] = IF to \in {"idle", "left"} THEN None ELSE c]

\* The connection callback is a function of the owner.
ConnectionCallback(count, c) ==
  /\ count' = [count EXCEPT ![c] = @ + 1]
  /\ crashed' \in IF main \in {"serve", "left"} THEN {None} ELSE {None, "owner gone"}

-----------------------------------------------------------------------------
(* The accept loop *)

\* Mutant: the index is not advanced.
GetNextLoopFirst(l) ==
  /\ l = IF threadNum = 0 THEN 0 ELSE 1
  /\ UNCHANGED nextId

\* loops_[0] is loop 1 here.
GetNextLoop(l) ==
  IF threadNum = 0
  THEN l = 0 /\ UNCHANGED nextId
  ELSE l = nextId + 1 /\ nextId' = (nextId + 1) % threadNum

\* Mutant: the connection is handed to its loop before the map has it.
OnNewConnectionUnheld(c) ==
  /\ Runs /\ main = "serve" /\ loopOf[c] = -1
  /\ \E l \in Loops : GetNextLoop(l) /\ loopOf' = [loopOf EXCEPT ![c] = l]
  /\ pending' = pending \cup {c}
  /\ Goes(0, "idle", "insert", c)
  /\ UNCHANGED <<threadNum, joined, looping, main, map, visited, status, watched, up,
                 down, active, crashed>>

OnNewConnection(c) ==
  /\ Runs /\ main = "serve" /\ loopOf[c] = -1
  /\ \E l \in Loops : GetNextLoop(l) /\ loopOf' = [loopOf EXCEPT ![c] = l]
  /\ Goes(0, "idle", "insert", c)
  /\ UNCHANGED <<threadNum, joined, looping, main, map, visited, status, watched, up,
                 down, pending, active, crashed>>

InsertConnection ==
  /\ Runs /\ Goes(0, "insert", "queue", conn[0])
  /\ map' = map \cup {conn[0]}
  /\ UNCHANGED <<poolVars, main, visited, connVars, crashed>>

QueueEstablished ==
  /\ Runs /\ Goes(0, "queue", "idle", None)
  /\ pending' = pending \cup {conn[0]}
  /\ UNCHANGED <<poolVars, main, map, visited, status, loopOf, watched, up, down, active,
                 crashed>>

-----------------------------------------------------------------------------
(* An io loop, which is the accept loop if there are no threads *)

InLoop(l) == Runs /\ l \in Loops /\ (l = 0 => main = "serve")
NoneActive(l) == \A c \in active : loopOf[c] # l

\* The functions of a queue are run after the channels, in any order here.
Established(l, c) ==
  /\ InLoop(l) /\ pos[l] = "idle" /\ NoneActive(l)
  /\ c \in pending /\ loopOf[c] = l
  /\ pending' = pending \ {c}
  /\ status' = [status EXCEPT ![c] = "CONNECTED"]
  /\ watched' = watched \cup {c}
  /\ ConnectionCallback(up, c)
  /\ UNCHANGED <<poolVars, main, map, visited, loopOf, down, active, pos, conn>>

\* The ends of some streams are reported.
LoopOnce(l, ended) ==
  /\ InLoop(l) /\ (l = 0 \/ l \in looping)
  /\ pos[l] = "idle" /\ NoneActive(l)
  /\ \A c \in ended : c \in watched /\ loopOf[c] = l
  /\ active' = active \cup ended
  /\ UNCHANGED <<poolVars, main, map, visited, status, loopOf, watched, up, down, pending,
                 pos, conn, crashed>>

\* From here the object is held until the handler is done.
HandleEventWithGuard(l, c) ==
  /\ InLoop(l) /\ c \in active /\ loopOf[c] = l
  /\ active' = active \ {c}
  /\ Goes(l, "idle", "close", c)
  /\ UNCHANGED <<poolVars, main, map, visited, status, loopOf, watched, up, down, pending,
                 crashed>>

\* Mutant: the channel stays watched.
OnCloseWatched(l) ==
  /\ InLoop(l) /\ Goes(l, "close", "erase", conn[l])
  /\ status' = [status EXCEPT ![conn[l]] = "DISCONNECTED"]
  /\ ConnectionCallback(down, conn[l])
  /\ UNCHANGED <<poolVars, main, map, visited, loopOf, watched, up, pending, active>>

\* OnClose of TcpConnection, which does not look at the status.
OnClose(l) ==
  /\ InLoop(l) /\ Goes(l, "close", "erase", conn[l])
  /\ status' = [status EXCEPT ![conn[l]] = "DISCONNECTED"]
  /\ watched' = watched \ {conn[l]}
  /\ ConnectionCallback(down, conn[l])
  /\ UNCHANGED <<poolVars, main, map, visited, loopOf, up, pending, active>>

OnCloseConnection(l) ==
  /\ InLoop(l) /\ Goes(l, "erase", "idle", None)
  /\ map' = map \ {conn[l]}
  /\ UNCHANGED <<poolVars, main, visited, connVars, crashed>>

LeaveLoop(l) ==
  /\ Runs /\ l \in 1 .. threadNum /\ l \notin looping /\ NoneActive(l)
  /\ Goes(l, "idle", "left", None)
  /\ UNCHANGED <<poolVars, main, map, visited, connVars, crashed>>

-----------------------------------------------------------------------------
(* The thread of main(): the accept loop ends, the objects are destroyed *)

MainGoes(from, to) == Runs /\ main = from /\ main' = to

StopServer ==
  /\ MainGoes("serve", "left") /\ pos[0] = "idle"
  /\ UNCHANGED <<poolVars, map, visited, connVars, pos, conn, crashed>>

DestroyOwner ==
  /\ MainGoes("left", "notify")
  /\ UNCHANGED <<poolVars, map, visited, connVars, pos, conn, crashed>>

\* The body of ~TcpServer: ConnectDestroyed for each connection of the map.
ConnectDestroyed(c) ==
  /\ Runs /\ main = "notify" /\ c \in map \ visited
  /\ visited' = visited \cup {c}
  /\ IF status[c] = "CONNECTED"
     THEN /\ status' = [status EXCEPT ![c] = "DISCONNECTED"]
          /\ watched' = watched \ {c}
          /\ ConnectionCallback(down, c)
     ELSE UNCHANGED <<status, watched, down, crashed>>
  /\ UNCHANGED <<poolVars, main, map, loopOf, up, pending, active, pos, conn>>

EndOfBody ==
  /\ MainGoes("notify", "stop") /\ map \subseteq visited
  /\ UNCHANGED <<poolVars, map, visited, connVars, pos, conn, crashed>>

\* Mutant: only the first loop is stopped.
StopFirstLoop ==
  /\ Runs /\ main = "stop" /\ joined = 0 /\ 1 \in looping
  /\ looping' = looping \ {1}
  /\ UNCHANGED <<threadNum, joined, nextId, main, map, visited, connVars, pos, conn, crashed>>

\* Then thread_pool_ goes: ~EventLoopThread of one loop after the other.
StopLoop ==
  /\ Runs /\ main = "stop" /\ joined < threadNum /\ joined + 1 \in looping
  /\ looping' = looping \ {joined + 1}
  /\ UNCHANGED <<threadNum, joined, nextId, main, map, visited, connVars, pos,
                 conn, crashed>>

JoinLoop ==
  /\ Runs /\ main = "stop" /\ joined < threadNum /\ pos[joined + 1] = "left"
  /\ joined' = joined + 1
  /\ UNCHANGED <<threadNum, nextId, looping, main, map, visited, connVars, pos,
                 conn, crashed>>

\* And then connection_map_, which is declared before the pool.
DestroyMap ==
  /\ MainGoes("stop", "gone") /\ joined = threadNum
  /\ map' = {}
  /\ UNCHANGED <<poolVars, visited, connVars, pos, conn, crashed>>

-----------------------------------------------------------------------------
(* Two threads at the map at once, one of them to change it *)

AtMap(t) == pos[t] \in {"insert", "erase"}
Iterating == main = "notify" /\ map # {}

DataRace ==
  /\ Runs
  /\ \E t \in Threads : AtMap(t) /\ (Iterating \/ \E u \in Threads \ {t} : AtMap(u))
  /\ crashed' = "race"
  /\ UNCHANGED <<poolVars, main, map, visited, connVars, pos, conn>>

-----------------------------------------------------------------------------

AcceptStep == (\E c \in Conns : OnNewConnection(c)) \/ InsertConnection \/ QueueEstablished

GoesOn(l) ==
  \/ \E c \in Conns : Established(l, c) \/ HandleEventWithGuard(l, c)
  \/ OnClose(l) \/ OnCloseConnection(l) \/ LeaveLoop(l)

DestroyStep ==
  \/ DestroyOwner \/ EndOfBody \/ StopLoop \/ JoinLoop \/ DestroyMap
  \/ \E c \in Conns : ConnectDestroyed(c)

Done == (main = "gone" \/ ~Runs) /\ UNCHANGED vars

Next ==
  \/ AcceptStep
  \/ \E l \in Threads : GoesOn(l) \/ \E ended \in SUBSET Conns : LoopOnce(l, ended)
  \/ StopServer \/ DestroyStep \/ DataRace \/ Done

\* Threads go on with what they have begun; nobody has to connect, to leave or
\* to stop the server.
Fairness == WF_vars(DestroyStep) /\ \A l \in 1 .. MaxThreads : WF_vars(GoesOn(l))

Spec == Init /\ [][Next]_vars /\ Fairness

-----------------------------------------------------------------------------
(* Properties *)

TypeOK ==
  /\ threadNum \in 0 .. MaxThreads /\ joined \in 0 .. threadNum
  /\ nextId \in 0 .. threadNum /\ (threadNum > 0 => nextId < threadNum)
  /\ main \in {"serve", "left", "notify", "stop", "gone"}
  /\ map \subseteq Conns /\ visited \subseteq Conns /\ watched \subseteq Conns
  /\ pending \subseteq Conns /\ active \subseteq Conns
  /\ looping \subseteq 1 .. threadNum
  /\ status \in [Conns -> {"CONNECTING", "CONNECTED", "DISCONNECTED"}]
  /\ loopOf \in [Conns -> Loops \cup {-1}]
  /\ pos \in [0 .. MaxThreads -> {"idle", "insert", "queue", "close", "erase", "left"}]
  /\ conn \in [0 .. MaxThreads -> Conns \cup {None}]
  /\ \A t \in 0 .. MaxThreads : conn[t] = None <=> pos[t] \in {"idle", "left"}
  /\ up \in [Conns -> Nat] /\ down \in [Conns -> Nat]
  /\ crashed \in {None, "race", "owner gone"}

Inserting(c) == conn[0] = c /\ pos[0] = "insert"
Erasing(c) == \E t \in Threads : conn[t] = c /\ pos[t] = "erase"

\* The map holds every connection whose channel is watched, reported or about to
\* be watched, so that nothing of it is destroyed while a loop has its plain
\* pointer; and while the server serves it holds no connection that has closed,
\* except one whose loop is on the way to erase it (OnNewConnection,
\* OnCloseConnection, and the order in which the members are destroyed).
MapHoldsOpen ==
  /\ main # "gone" => watched \cup pending \cup active \subseteq map
  /\ main = "serve" =>
       \A c \in map : status[c] = "DISCONNECTED" => Erasing(c)

\* The connection callback is told once that a connection is up, and of its end
\* not before and not twice, except when the destructor and the loop end it
\* at the same time (Established, OnClose, ConnectDestroyed).
ToldInPairs ==
  \A c \in Conns :
    /\ up[c] <= 1
    /\ down[c] >= 1 => up[c] = 1
    /\ down[c] >= 2 => down[c] = 2 /\ c \in visited

\* The loops are given the same number of connections, or one less
\* (GetNextLoop).
LoopsBalanced ==
  \A k, l \in Loops :
    Cardinality({c \in Conns : loopOf[c] = k}) <= Cardinality({c \in Conns : loopOf[c] = l}) + 1

\* A destructor that has begun ends, whatever the loops are doing: each is
\* stopped, leaves after its round and is joined (~TcpServer, ~EventLoopThread).
DestructorEnds == main = "notify" ~> main = "gone" \/ crashed # None

=============================================================================
