-------------------------- MODULE TcpServer_proofs --------------------------
(***************************************************************************)
(* Proofs about TcpServer, for every number of connections and loops.      *)
(***************************************************************************)
EXTENDS TcpServer, FiniteSetTheorems, TLAPS

\* What a thread is about to do fits the connection it does it with.
ThreadOK(t) ==
  /\ t > threadNum => pos[t] = "idle"
  /\ pos[t] \in {"insert", "queue"} =>
       /\ t = 0 /\ status[conn[t]] = "CONNECTING"
       /\ loopOf[conn[t]] # -1 /\ conn[t] \notin pending
  /\ pos[t] = "queue" /\ main # "gone" => conn[t] \in map
  /\ pos[t] \in {"close", "erase"} =>
       /\ loopOf[conn[t]] = t /\ status[conn[t]] # "CONNECTING"
       /\ conn[t] \notin active
  /\ pos[t] = "close" =>
       \/ status[conn[t]] = "CONNECTED" /\ down[conn[t]] = 0
       \/ status[conn[t]] = "DISCONNECTED" /\ down[conn[t]] = 1 /\ conn[t] \in visited
  /\ pos[t] = "erase" => status[conn[t]] = "DISCONNECTED"

\* The status of a connection tells what was done with it, and what its owner
\* was told.
ConnOK(c) ==
  /\ loopOf[c] = -1 => status[c] = "CONNECTING" /\ c \notin pending
  /\ c \in pending => status[c] = "CONNECTING"
  /\ c \in active => status[c] # "CONNECTING"
  /\ c \in watched <=> status[c] = "CONNECTED"
  /\ up[c] = IF status[c] = "CONNECTING" THEN 0 ELSE 1
  /\ status[c] # "DISCONNECTED" => down[c] = 0
  /\ status[c] = "DISCONNECTED" => down[c] \in {1, 2}
  /\ status[c] = "DISCONNECTED" /\ c \in active => down[c] = 1 /\ c \in visited
  /\ down[c] = 2 => c \in visited

\* The inductive invariant.
ServerInv ==
  /\ TypeOK /\ MapHoldsOpen
  /\ \A t \in 0 .. MaxThreads : ThreadOK(t)
  /\ \A c \in Conns : ConnOK(c)

LEMMA InitStep == Init => ServerInv
  <1> SUFFICES ASSUME Init PROVE ServerInv
    OBVIOUS
  <1>1. MaxThreads \in Nat /\ threadNum \in 0 .. MaxThreads
    BY ThreadsAssumption DEF Init
  <1>2. TypeOK
    BY <1>1 DEF Init, TypeOK, None
  <1>3. MapHoldsOpen
    BY DEF Init, MapHoldsOpen
  <1>4. \A t \in 0 .. MaxThreads : ThreadOK(t)
    BY DEF Init, ThreadOK
  <1>5. \A c \in Conns : ConnOK(c)
    BY DEF Init, ConnOK
  <1>6. QED
    BY <1>2, <1>3, <1>4, <1>5 DEF ServerInv

LEMMA Numbers ==
  ASSUME TypeOK
  PROVE  /\ MaxThreads \in Nat /\ threadNum \in Nat /\ threadNum <= MaxThreads
         /\ nextId \in Nat /\ joined \in Nat /\ joined <= threadNum
         /\ 0 \in 0 .. MaxThreads /\ 0 \in Threads
         /\ \A l \in Loops : l \in Nat /\ l <= threadNum /\ l \in 0 .. MaxThreads /\ l # -1
  <1>1. MaxThreads \in Nat /\ threadNum \in 0 .. MaxThreads
    BY ThreadsAssumption DEF TypeOK
  <1>2. nextId \in 0 .. threadNum /\ joined \in 0 .. threadNum
    BY DEF TypeOK
  <1>3. QED
    BY <1>1, <1>2 DEF Threads, Loops

LEMMA ConnTypes ==
  ASSUME TypeOK
  PROVE  /\ DOMAIN loopOf = Conns /\ DOMAIN status = Conns /\ DOMAIN up = Conns
         /\ DOMAIN down = Conns
         /\ loopOf = [c \in Conns |-> loopOf[c]] /\ status = [c \in Conns |-> status[c]]
         /\ up = [c \in Conns |-> up[c]] /\ down = [c \in Conns |-> down[c]]
         /\ \A t \in 0 .. MaxThreads : pos[t] \notin {"idle", "left"} =>
              conn[t] \in Conns /\ pos[t] \in {"insert", "queue", "close", "erase"}
  BY DEF TypeOK

\* A thread goes on to what it does next.
LEMMA GoesOnTo ==
  ASSUME TypeOK, NEW t \in 0 .. MaxThreads, NEW from, NEW to, NEW c, Goes(t, from, to, c),
         to \in {"idle", "insert", "queue", "close", "erase", "left"},
         to \notin {"idle", "left"} => c \in Conns
  PROVE  /\ pos' \in [0 .. MaxThreads -> {"idle", "insert", "queue", "close", "erase", "left"}]
         /\ conn' \in [0 .. MaxThreads -> Conns \cup {None}]
         /\ \A u \in 0 .. MaxThreads : conn'[u] = None <=> pos'[u] \in {"idle", "left"}
         /\ pos[t] = from /\ pos'[t] = to /\ (to \notin {"idle", "left"} => conn'[t] = c)
         /\ \A u \in 0 .. MaxThreads : u # t => pos'[u] = pos[u] /\ conn'[u] = conn[u]
  BY NoneAssumption DEF TypeOK, Goes

LEMMA OnNewConnectionStep ==
  ASSUME ServerInv, NEW c \in Conns, OnNewConnection(c)
  PROVE  ServerInv'
  <1>1. PICK l \in Loops : GetNextLoop(l) /\ loopOf' = [loopOf EXCEPT ![c] = l]
    BY DEF OnNewConnection
  <1>2. /\ TypeOK /\ MapHoldsOpen /\ MaxThreads \in Nat /\ threadNum \in 0 .. MaxThreads
        /\ loopOf[c] = -1 /\ Goes(0, "idle", "insert", c)
        /\ UNCHANGED <<threadNum, joined, looping, main, map, visited, status, watched, up,
                       down, pending, active, crashed>>
    BY ThreadsAssumption DEF ServerInv, OnNewConnection, TypeOK
  <1>3. /\ pos' \in [0 .. MaxThreads -> {"idle", "insert", "queue", "close", "erase", "left"}]
        /\ conn' \in [0 .. MaxThreads -> Conns \cup {None}]
        /\ \A u \in 0 .. MaxThreads : conn'[u] = None <=> pos'[u] \in {"idle", "left"}
        /\ pos[0] = "idle" /\ pos'[0] = "insert" /\ conn'[0] = c
        /\ \A u \in 0 .. MaxThreads : u # 0 => pos'[u] = pos[u] /\ conn'[u] = conn[u]
    <2>1. 0 \in 0 .. MaxThreads
      BY <1>2
    <2>2. QED
      BY <1>2, <2>1, GoesOnTo
  <1>4. nextId' \in 0 .. threadNum /\ (threadNum > 0 => nextId' < threadNum)
    <2>1. CASE threadNum = 0
      BY <1>1, <1>2, <2>1 DEF GetNextLoop, TypeOK
    <2>2. CASE threadNum # 0
      <3>1. nextId' = (nextId + 1) % threadNum
        BY <1>1, <2>2 DEF GetNextLoop
      <3>2. nextId \in Nat /\ threadNum \in Nat /\ threadNum > 0
        BY <1>2, <2>2, Numbers
      <3>3. QED
        BY <3>1, <3>2
    <2>3. QED
      BY <2>1, <2>2
  <1>5. l # -1 /\ Loops' = Loops
    BY <1>2 DEF Loops
  <1>6. loopOf' \in [Conns -> Loops \cup {-1}]
    BY <1>1, <1>2 DEF TypeOK
  <1>7. TypeOK'
    BY <1>2, <1>3, <1>4, <1>5, <1>6 DEF TypeOK
  <1>8. MapHoldsOpen'
    <2>1. \A d \in Conns : Erasing(d) => Erasing(d)'
      BY <1>2, <1>3 DEF Erasing, Threads
    <2>2. QED
      BY <1>2, <2>1 DEF MapHoldsOpen, TypeOK
  <1>9. ASSUME NEW t \in 0 .. MaxThreads PROVE ThreadOK(t)'
    <2>1. ThreadOK(t) /\ ConnOK(c)
      BY DEF ServerInv
    <2>2. CASE t = 0
      <3>1. status'[c] = "CONNECTING" /\ c \notin pending'
        BY <1>2, <2>1 DEF ConnOK
      <3>2. loopOf'[c] # -1 /\ ~(0 > threadNum')
        BY <1>1, <1>2, <1>5, Numbers, ConnTypes
      <3>3. QED
        BY <1>3, <2>2, <3>1, <3>2 DEF ThreadOK
    <2>3. CASE t # 0
      <3>1. pos'[t] = pos[t] /\ conn'[t] = conn[t]
        BY <1>3, <2>3
      <3>2. pos[t] \notin {"idle", "left"} => conn[t] \in Conns /\ conn[t] # c
        <4>1. pos[t] \notin {"idle", "left"} =>
                conn[t] \in Conns /\ pos[t] \in {"insert", "queue", "close", "erase"}
          BY <1>2 DEF TypeOK
        <4>2. pos[t] \in {"insert", "queue", "close", "erase"} => loopOf[conn[t]] # -1
          BY <1>2, <2>1 DEF ThreadOK
        <4>3. QED
          BY <1>2, <4>1, <4>2
      <3>3. pos[t] \notin {"idle", "left"} => loopOf'[conn[t]] = loopOf[conn[t]]
        BY <1>1, <1>2, <3>2 DEF TypeOK
      <3>4. QED
        BY <1>2, <2>1, <3>1, <3>3 DEF ThreadOK
    <2>4. QED
      BY <2>2, <2>3
  <1>10. ASSUME NEW d \in Conns PROVE ConnOK(d)'
    <2>1. ConnOK(d) /\ ConnOK(c)
      BY DEF ServerInv
    <2>2. d # c => loopOf'[d] = loopOf[d]
      BY <1>1, <1>2 DEF TypeOK
    <2>3. d = c => loopOf'[d] # -1
      BY <1>1, <1>2, <1>5 DEF TypeOK
    <2>4. QED
      BY <1>2, <2>1, <2>2, <2>3 DEF ConnOK
  <1>11. QED
    BY <1>7, <1>8, <1>9, <1>10 DEF ServerInv

LEMMA InsertConnectionStep ==
  ASSUME ServerInv, InsertConnection
  PROVE  ServerInv'
  <1> DEFINE c == conn[0]
  <1>1. /\ TypeOK /\ MapHoldsOpen /\ Goes(0, "insert", "queue", c) /\ map' = map \cup {c}
        /\ UNCHANGED <<poolVars, main, visited, connVars, crashed>>
    BY DEF ServerInv, InsertConnection
  <1>2. c \in Conns /\ status[c] = "CONNECTING"
    <2>1. pos[0] = "insert" /\ 0 \in 0 .. MaxThreads /\ ThreadOK(0)
      BY <1>1, Numbers DEF Goes, ServerInv
    <2>2. QED
      BY <1>1, <2>1, ConnTypes DEF ThreadOK
  <1>3. /\ pos' \in [0 .. MaxThreads -> {"idle", "insert", "queue", "close", "erase", "left"}]
        /\ conn' \in [0 .. MaxThreads -> Conns \cup {None}]
        /\ \A u \in 0 .. MaxThreads : conn'[u] = None <=> pos'[u] \in {"idle", "left"}
        /\ pos[0] = "insert" /\ pos'[0] = "queue" /\ conn'[0] = c
        /\ \A u \in 0 .. MaxThreads : u # 0 => pos'[u] = pos[u] /\ conn'[u] = conn[u]
    BY <1>1, <1>2, Numbers, GoesOnTo
  <1> HIDE DEF c
  <1>4. TypeOK'
    BY <1>1, <1>2, <1>3 DEF TypeOK, poolVars, connVars, Loops
  <1>5. MapHoldsOpen'
    <2>1. \A d \in Conns : Erasing(d) => Erasing(d)'
      BY <1>1, <1>3, Numbers DEF Erasing, Threads, poolVars
    <2>2. QED
      BY <1>1, <1>2, <2>1 DEF MapHoldsOpen, TypeOK, connVars
  <1>6. ASSUME NEW t \in 0 .. MaxThreads PROVE ThreadOK(t)'
    <2>1. ThreadOK(t) /\ UNCHANGED <<threadNum, main, visited, status, loopOf, pending, active, down>>
      BY <1>1 DEF ServerInv, poolVars, connVars
    <2>2. CASE t = 0
      <3>1. pos[t] = "insert" /\ conn[t] = c /\ pos'[t] = "queue" /\ conn'[t] = c /\ c \in map'
        BY <1>1, <1>3, <2>2 DEF c
      <3>2. QED
        BY <2>1, <3>1 DEF ThreadOK
    <2>3. CASE t # 0
      BY <1>1, <1>3, <2>1, <2>3 DEF ThreadOK
    <2>4. QED
      BY <2>2, <2>3
  <1>7. ASSUME NEW d \in Conns PROVE ConnOK(d)'
    BY <1>1 DEF ServerInv, ConnOK, connVars
  <1>8. QED
    BY <1>4, <1>5, <1>6, <1>7 DEF ServerInv

LEMMA QueueEstablishedStep ==
  ASSUME ServerInv, QueueEstablished
  PROVE  ServerInv'
  <1> DEFINE c == conn[0]
  <1>1. /\ TypeOK /\ MapHoldsOpen /\ Goes(0, "queue", "idle", None) /\ pending' = pending \cup {c}
        /\ UNCHANGED <<poolVars, main, map, visited, status, loopOf, watched, up, down, active,
                       crashed>>
    BY DEF ServerInv, QueueEstablished
  <1>2. /\ pos' \in [0 .. MaxThreads -> {"idle", "insert", "queue", "close", "erase", "left"}]
        /\ conn' \in [0 .. MaxThreads -> Conns \cup {None}]
        /\ \A u \in 0 .. MaxThreads : conn'[u] = None <=> pos'[u] \in {"idle", "left"}
        /\ pos[0] = "queue" /\ pos'[0] = "idle"
        /\ \A u \in 0 .. MaxThreads : u # 0 => pos'[u] = pos[u] /\ conn'[u] = conn[u]
    BY <1>1, Numbers, GoesOnTo
  <1>3. /\ c \in Conns /\ status[c] = "CONNECTING" /\ loopOf[c] # -1
        /\ main # "gone" => c \in map
    <2>1. 0 \in 0 .. MaxThreads /\ ThreadOK(0)
      BY <1>1, Numbers DEF ServerInv
    <2>2. QED
      BY <1>1, <1>2, <2>1, ConnTypes DEF ThreadOK
  <1> HIDE DEF c
  <1>4. TypeOK'
    BY <1>1, <1>2, <1>3 DEF TypeOK, poolVars, Loops
  <1>5. MapHoldsOpen'
    <2>1. \A d \in Conns : Erasing(d) => Erasing(d)'
      BY <1>1, <1>2, Numbers DEF Erasing, Threads, poolVars
    <2>2. QED
      BY <1>1, <1>3, <2>1 DEF MapHoldsOpen, TypeOK
  <1>6. ASSUME NEW t \in 0 .. MaxThreads PROVE ThreadOK(t)'
    <2>1. ThreadOK(t) /\ UNCHANGED <<threadNum, main, map, visited, status, loopOf, active, down>>
      BY <1>1 DEF ServerInv, poolVars
    <2>2. CASE t = 0
      BY <1>2, <2>1, <2>2 DEF ThreadOK
    <2>3. CASE t # 0
      BY <1>1, <1>2, <2>1, <2>3 DEF ThreadOK
    <2>4. QED
      BY <2>2, <2>3
  <1>7. ASSUME NEW d \in Conns PROVE ConnOK(d)'
    <2>1. ConnOK(d)
      BY DEF ServerInv
    <2>2. QED
      BY <1>1, <1>3, <2>1 DEF ConnOK
  <1>8. QED
    BY <1>4, <1>5, <1>6, <1>7 DEF ServerInv

-----------------------------------------------------------------------------

\* The callback was told of c once more.
LEMMA Told ==
  ASSUME TypeOK, NEW c \in Conns
  PROVE  /\ ConnectionCallback(up, c) =>
              /\ up' \in [Conns -> Nat] /\ up'[c] = up[c] + 1
              /\ \A d \in Conns : d # c => up'[d] = up[d]
         /\ ConnectionCallback(down, c) =>
              /\ down' \in [Conns -> Nat] /\ down'[c] = down[c] + 1
              /\ \A d \in Conns : d # c => down'[d] = down[d]
         /\ ConnectionCallback(up, c) \/ ConnectionCallback(down, c)
              => crashed' \in {None, "race", "owner gone"}
  <1>1. up \in [Conns -> Nat] /\ down \in [Conns -> Nat]
    BY DEF TypeOK
  <1>2. ASSUME ConnectionCallback(up, c)
        PROVE  /\ up' \in [Conns -> Nat] /\ up'[c] = up[c] + 1
               /\ \A d \in Conns : d # c => up'[d] = up[d]
    <2>1. up' = [up EXCEPT ![c] = up[c] + 1]
      BY <1>2 DEF ConnectionCallback
    <2>2. up[c] + 1 \in Nat
      BY <1>1
    <2>3. QED
      BY <1>1, <2>1, <2>2
  <1>3. ASSUME ConnectionCallback(down, c)
        PROVE  /\ down' \in [Conns -> Nat] /\ down'[c] = down[c] + 1
               /\ \A d \in Conns : d # c => down'[d] = down[d]
    <2>1. down' = [down EXCEPT ![c] = down[c] + 1]
      BY <1>3 DEF ConnectionCallback
    <2>2. down[c] + 1 \in Nat
      BY <1>1
    <2>3. QED
      BY <1>1, <2>1, <2>2
  <1>4. ConnectionCallback(up, c) \/ ConnectionCallback(down, c)
          => crashed' \in {None, "race", "owner gone"}
    BY DEF ConnectionCallback
  <1>5. QED
    BY <1>2, <1>3, <1>4

LEMMA EstablishedStep ==
  ASSUME ServerInv, NEW l \in Threads, NEW c \in Conns, Established(l, c)
  PROVE  ServerInv'
  <1>1. /\ TypeOK /\ MapHoldsOpen /\ ConnOK(c) /\ c \in pending
        /\ pending' = pending \ {c} /\ watched' = watched \cup {c}
        /\ status' = [status EXCEPT ![c] = "CONNECTED"] /\ ConnectionCallback(up, c)
        /\ UNCHANGED <<poolVars, main, map, visited, loopOf, down, active, pos, conn>>
    BY DEF ServerInv, Established
  <1>2. status[c] = "CONNECTING" /\ c \notin active
    BY <1>1 DEF ConnOK
  <1>3. /\ up' \in [Conns -> Nat] /\ up'[c] = up[c] + 1
        /\ \A d \in Conns : d # c => up'[d] = up[d]
        /\ crashed' \in {None, "race", "owner gone"}
    BY <1>1, Told
  <1>4. /\ status' \in [Conns -> {"CONNECTING", "CONNECTED", "DISCONNECTED"}]
        /\ status'[c] = "CONNECTED" /\ \A d \in Conns : d # c => status'[d] = status[d]
    BY <1>1 DEF TypeOK
  <1>5. TypeOK'
    BY <1>1, <1>3, <1>4 DEF TypeOK, poolVars, Loops
  <1>6. MapHoldsOpen'
    <2>1. \A d \in Conns : Erasing(d) => Erasing(d)'
      BY <1>1 DEF Erasing, Threads, poolVars
    <2>2. \A d \in Conns : status'[d] = "DISCONNECTED" => status[d] = "DISCONNECTED"
      BY <1>4
    <2>3. QED
      BY <1>1, <2>1, <2>2 DEF MapHoldsOpen, TypeOK
  <1>7. ASSUME NEW t \in 0 .. MaxThreads PROVE ThreadOK(t)'
    <2>1. ThreadOK(t) /\ UNCHANGED <<threadNum, main, map, visited, loopOf, active, down, pos, conn>>
      BY <1>1 DEF ServerInv, poolVars
    <2>2. pos[t] \notin {"idle", "left"} =>
            conn[t] \in Conns /\ pos[t] \in {"insert", "queue", "close", "erase"}
      BY <1>1, ConnTypes
    <2>3. pos[t] \notin {"idle", "left"} => conn[t] # c
      BY <1>1, <1>2, <2>1, <2>2 DEF ThreadOK
    <2>4. pos[t] \notin {"idle", "left"} => status'[conn[t]] = status[conn[t]]
      BY <1>4, <2>2, <2>3
    <2>5. QED
      BY <1>1, <2>1, <2>4 DEF ThreadOK
  <1>8. ASSUME NEW d \in Conns PROVE ConnOK(d)'
    <2>1. ConnOK(d)
      BY DEF ServerInv
    <2>2. CASE d = c
      <3>1. up'[d] = 1 /\ down[d] = 0 /\ loopOf[d] # -1
        <4>1. up[c] = 0 /\ down[c] = 0 /\ loopOf[c] # -1
          BY <1>1, <1>2 DEF ConnOK
        <4>2. up'[c] = up[c] + 1
          BY <1>3
        <4>3. up'[c] = 1
          BY <4>1, <4>2
        <4>4. QED
          BY <2>2, <4>1, <4>3
      <3>2. QED
        BY <1>1, <1>2, <1>4, <2>1, <2>2, <3>1 DEF ConnOK
    <2>3. CASE d # c
      <3>1. /\ up'[d] = up[d] /\ status'[d] = status[d]
            /\ (d \in watched' <=> d \in watched) /\ (d \in pending' <=> d \in pending)
        BY <1>1, <1>3, <1>4, <2>3
      <3>2. QED
        BY <1>1, <2>1, <3>1 DEF ConnOK
    <2>4. QED
      BY <2>2, <2>3
  <1>9. QED
    BY <1>5, <1>6, <1>7, <1>8 DEF ServerInv

LEMMA LoopOnceStep ==
  ASSUME ServerInv, NEW l \in Threads, NEW ended \in SUBSET Conns, LoopOnce(l, ended)
  PROVE  ServerInv'
  <1>1. /\ TypeOK /\ MapHoldsOpen /\ pos[l] = "idle" /\ active' = active \cup ended
        /\ \A c \in ended : c \in watched /\ loopOf[c] = l
        /\ UNCHANGED <<poolVars, main, map, visited, status, loopOf, watched, up, down, pending,
                       pos, conn, crashed>>
    BY DEF ServerInv, LoopOnce
  <1>2. \A c \in ended : status[c] = "CONNECTED"
    BY <1>1 DEF ServerInv, ConnOK
  <1>3. TypeOK'
    BY <1>1 DEF TypeOK, poolVars, Loops
  <1>4. MapHoldsOpen'
    BY <1>1 DEF MapHoldsOpen, Erasing, Threads, poolVars
  <1>5. ASSUME NEW t \in 0 .. MaxThreads PROVE ThreadOK(t)'
    <2>1. ThreadOK(t) /\ UNCHANGED <<threadNum, main, map, visited, loopOf, status, pending, down, pos, conn>>
      BY <1>1 DEF ServerInv, poolVars
    <2>2. pos[t] \in {"close", "erase"} => conn[t] \notin ended
      BY <1>1, <2>1 DEF ThreadOK
    <2>3. QED
      BY <1>1, <2>1, <2>2 DEF ThreadOK
  <1>6. ASSUME NEW d \in Conns PROVE ConnOK(d)'
    <2>1. ConnOK(d)
      BY DEF ServerInv
    <2>2. QED
      BY <1>1, <1>2, <2>1 DEF ConnOK
  <1>7. QED
    BY <1>3, <1>4, <1>5, <1>6 DEF ServerInv

LEMMA HandleEventStep ==
  ASSUME ServerInv, NEW l \in Threads, NEW c \in Conns, HandleEventWithGuard(l, c)
  PROVE  ServerInv'
  <1>1. /\ TypeOK /\ MapHoldsOpen /\ c \in active /\ loopOf[c] = l /\ active' = active \ {c}
        /\ Goes(l, "idle", "close", c)
        /\ UNCHANGED <<poolVars, main, map, visited, status, loopOf, watched, up, down, pending,
                       crashed>>
    BY DEF ServerInv, HandleEventWithGuard
  <1>2. l \in 0 .. MaxThreads
    BY <1>1, Numbers DEF Threads
  <1>3. /\ pos' \in [0 .. MaxThreads -> {"idle", "insert", "queue", "close", "erase", "left"}]
        /\ conn' \in [0 .. MaxThreads -> Conns \cup {None}]
        /\ \A u \in 0 .. MaxThreads : conn'[u] = None <=> pos'[u] \in {"idle", "left"}
        /\ pos[l] = "idle" /\ pos'[l] = "close" /\ conn'[l] = c
        /\ \A u \in 0 .. MaxThreads : u # l => pos'[u] = pos[u] /\ conn'[u] = conn[u]
    BY <1>1, <1>2, GoesOnTo
  <1>4. TypeOK'
    BY <1>1, <1>3 DEF TypeOK, poolVars, Loops
  <1>5. MapHoldsOpen'
    <2>1. \A d \in Conns : Erasing(d) => Erasing(d)'
      BY <1>1, <1>2, <1>3, Numbers DEF Erasing, Threads, poolVars
    <2>2. QED
      BY <1>1, <2>1 DEF MapHoldsOpen, TypeOK
  <1>6. ASSUME NEW t \in 0 .. MaxThreads PROVE ThreadOK(t)'
    <2>1. ThreadOK(t) /\ UNCHANGED <<threadNum, main, map, visited, status, loopOf, pending, down>>
      BY <1>1 DEF ServerInv, poolVars
    <2>2. CASE t = l
      <3>1. status[c] \in {"CONNECTED", "DISCONNECTED"} /\ ConnOK(c)
        BY <1>1 DEF ServerInv, ConnOK, TypeOK
      <3>2. \/ status[c] = "CONNECTED" /\ down[c] = 0
            \/ status[c] = "DISCONNECTED" /\ down[c] = 1 /\ c \in visited
        BY <1>1, <3>1 DEF ConnOK
      <3>3. ~(l > threadNum)
        BY <1>1, Numbers DEF Threads
      <3>4. QED
        BY <1>1, <1>3, <2>1, <2>2, <3>1, <3>2, <3>3 DEF ThreadOK
    <2>3. CASE t # l
      BY <1>1, <1>3, <2>1, <2>3 DEF ThreadOK
    <2>4. QED
      BY <2>2, <2>3
  <1>7. ASSUME NEW d \in Conns PROVE ConnOK(d)'
    <2>1. ConnOK(d)
      BY DEF ServerInv
    <2>2. QED
      BY <1>1, <2>1 DEF ConnOK
  <1>8. QED
    BY <1>4, <1>5, <1>6, <1>7 DEF ServerInv

\* Only one thread is about to do something with a connection.
LEMMA NotTwice ==
  ASSUME ServerInv, NEW t \in 0 .. MaxThreads, NEW u \in 0 .. MaxThreads, t # u,
         pos[t] \in {"close", "erase"}, pos[u] \notin {"idle", "left"}
  PROVE  conn[u] # conn[t]
  <1>1. pos[u] \in {"insert", "queue", "close", "erase"}
    BY ConnTypes DEF ServerInv
  <1>2. ThreadOK(t) /\ ThreadOK(u)
    BY DEF ServerInv
  <1>3. QED
    BY <1>1, <1>2 DEF ThreadOK

LEMMA OnCloseStep ==
  ASSUME ServerInv, NEW l \in Threads, OnClose(l)
  PROVE  ServerInv'
  <1>0. PICK c : c = conn[l]
    OBVIOUS
  <1>1. /\ c = conn[l] /\ TypeOK /\ MapHoldsOpen /\ Goes(l, "close", "erase", c)
        /\ status' = [status EXCEPT ![c] = "DISCONNECTED"] /\ watched' = watched \ {c}
        /\ ConnectionCallback(down, c)
        /\ UNCHANGED <<poolVars, main, map, visited, loopOf, up, pending, active>>
    BY <1>0 DEF ServerInv, OnClose
  <1>2. l \in 0 .. MaxThreads /\ pos[l] = "close" /\ ThreadOK(l)
    BY <1>1, Numbers DEF Threads, Goes, ServerInv
  <1>3. /\ c \in Conns /\ loopOf[c] = l /\ c \notin active /\ status[c] # "CONNECTING"
        /\ \/ status[c] = "CONNECTED" /\ down[c] = 0
           \/ status[c] = "DISCONNECTED" /\ down[c] = 1 /\ c \in visited
    BY <1>1, <1>2, ConnTypes DEF ThreadOK
  <1>4. \A u \in 0 .. MaxThreads : u # l /\ pos[u] \notin {"idle", "left"} =>
          conn[u] # c /\ conn[u] \in Conns
    BY <1>1, <1>2, NotTwice, ConnTypes
  <1>5. /\ pos' \in [0 .. MaxThreads -> {"idle", "insert", "queue", "close", "erase", "left"}]
        /\ conn' \in [0 .. MaxThreads -> Conns \cup {None}]
        /\ \A u \in 0 .. MaxThreads : conn'[u] = None <=> pos'[u] \in {"idle", "left"}
        /\ pos'[l] = "erase" /\ conn'[l] = c
        /\ \A u \in 0 .. MaxThreads : u # l => pos'[u] = pos[u] /\ conn'[u] = conn[u]
    BY <1>1, <1>2, <1>3, GoesOnTo
  <1>6. /\ down' \in [Conns -> Nat] /\ down'[c] = down[c] + 1
        /\ \A d \in Conns : d # c => down'[d] = down[d]
        /\ crashed' \in {None, "race", "owner gone"}
    BY <1>1, <1>3, Told
  <1>7. /\ status' \in [Conns -> {"CONNECTING", "CONNECTED", "DISCONNECTED"}]
        /\ status'[c] = "DISCONNECTED" /\ \A d \in Conns : d # c => status'[d] = status[d]
    BY <1>1, <1>3 DEF TypeOK
  <1>8. TypeOK'
    BY <1>1, <1>5, <1>6, <1>7 DEF TypeOK, poolVars, Loops
  <1>9. MapHoldsOpen'
    <2>1. \A d \in Conns : d # c /\ Erasing(d) => Erasing(d)'
      BY <1>1, <1>2, <1>5, Numbers DEF Erasing, Threads, poolVars
    <2>2. Erasing(c)'
      BY <1>1, <1>5 DEF Erasing, Threads, poolVars
    <2>3. QED
      <3>1. \A d \in Conns : d # c /\ status'[d] = "DISCONNECTED" => status[d] = "DISCONNECTED"
        BY <1>7
      <3>2. main' = "serve" => \A d \in map' : status'[d] = "DISCONNECTED" => Erasing(d)'
        BY <1>1, <2>1, <2>2, <3>1 DEF MapHoldsOpen, TypeOK
      <3>3. main' # "gone" => watched' \cup pending' \cup active' \subseteq map'
        BY <1>1 DEF MapHoldsOpen
      <3>4. QED
        BY <3>2, <3>3 DEF MapHoldsOpen
  <1>10. ASSUME NEW t \in 0 .. MaxThreads PROVE ThreadOK(t)'
    <2>1. ThreadOK(t) /\ UNCHANGED <<threadNum, main, map, visited, loopOf, pending, active>>
      BY <1>1 DEF ServerInv, poolVars
    <2>2. CASE t = l
      <3>1. ~(l > threadNum)
        BY <1>1, Numbers DEF Threads
      <3>2. QED
        BY <1>3, <1>5, <1>7, <2>1, <2>2, <3>1 DEF ThreadOK
    <2>3. CASE t # l
      <3>1. pos[t] \notin {"idle", "left"} =>
              status'[conn[t]] = status[conn[t]] /\ down'[conn[t]] = down[conn[t]]
        BY <1>4, <1>6, <1>7, <2>3
      <3>2. pos'[t] = pos[t] /\ conn'[t] = conn[t]
        BY <1>5, <2>3
      <3>3. QED
        BY <2>1, <3>1, <3>2 DEF ThreadOK
    <2>4. QED
      BY <2>2, <2>3
  <1>11. ASSUME NEW d \in Conns PROVE ConnOK(d)'
    <2>1. ConnOK(d)
      BY DEF ServerInv
    <2>2. CASE d = c
      <3>1. status'[d] = "DISCONNECTED" /\ down'[d] \in {1, 2} /\ (down'[d] = 2 => d \in visited)
        <4>1. down'[c] = down[c] + 1 /\ status'[c] = "DISCONNECTED"
          BY <1>6, <1>7
        <4>2. down[c] = 0 \/ (down[c] = 1 /\ c \in visited)
          BY <1>3
        <4>3. down'[c] = 1 \/ (down'[c] = 2 /\ c \in visited)
          BY <4>1, <4>2
        <4>4. QED
          BY <2>2, <4>1, <4>3
      <3>2. d \notin watched' /\ d \notin active /\ d \notin pending /\ loopOf[d] # -1 /\ up[d] = 1
        BY <1>1, <1>3, <2>1, <2>2 DEF ConnOK
      <3>3. QED
        BY <1>1, <3>1, <3>2 DEF ConnOK
    <2>3. CASE d # c
      BY <1>1, <1>6, <1>7, <2>1, <2>3 DEF ConnOK
    <2>4. QED
      BY <2>2, <2>3
  <1>12. QED
    BY <1>8, <1>9, <1>10, <1>11 DEF ServerInv

LEMMA OnCloseConnectionStep ==
  ASSUME ServerInv, NEW l \in Threads, OnCloseConnection(l)
  PROVE  ServerInv'
  <1> DEFINE c == conn[l]
  <1>1. /\ TypeOK /\ MapHoldsOpen /\ Goes(l, "erase", "idle", None) /\ map' = map \ {c}
        /\ UNCHANGED <<poolVars, main, visited, connVars, crashed>>
    BY DEF ServerInv, OnCloseConnection
  <1>2. l \in 0 .. MaxThreads /\ pos[l] = "erase" /\ ThreadOK(l)
    BY <1>1, Numbers DEF Threads, Goes, ServerInv
  <1>3. c \in Conns /\ c \notin active /\ status[c] = "DISCONNECTED" /\ ConnOK(c)
    BY <1>1, <1>2, ConnTypes DEF ThreadOK, ServerInv
  <1>4. c \notin watched /\ c \notin pending
    BY <1>3 DEF ConnOK
  <1>5. \A u \in 0 .. MaxThreads : u # l /\ pos[u] \notin {"idle", "left"} => conn[u] # c
    BY <1>1, <1>2, NotTwice
  <1>6. /\ pos' \in [0 .. MaxThreads -> {"idle", "insert", "queue", "close", "erase", "left"}]
        /\ conn' \in [0 .. MaxThreads -> Conns \cup {None}]
        /\ \A u \in 0 .. MaxThreads : conn'[u] = None <=> pos'[u] \in {"idle", "left"}
        /\ pos'[l] = "idle"
        /\ \A u \in 0 .. MaxThreads : u # l => pos'[u] = pos[u] /\ conn'[u] = conn[u]
    BY <1>1, <1>2, GoesOnTo
  <1>7. TypeOK'
    BY <1>1, <1>6 DEF TypeOK, poolVars, connVars, Loops
  <1>8. MapHoldsOpen'
    <2>1. \A d \in Conns : d # c /\ Erasing(d) => Erasing(d)'
      BY <1>1, <1>2, <1>6, Numbers DEF Erasing, Threads, poolVars
    <2>2. QED
      BY <1>1, <1>3, <1>4, <2>1 DEF MapHoldsOpen, TypeOK, connVars
  <1> HIDE DEF c
  <1>9. ASSUME NEW t \in 0 .. MaxThreads PROVE ThreadOK(t)'
    <2>1. ThreadOK(t) /\ UNCHANGED <<threadNum, main, visited, status, loopOf, pending, active, down>>
      BY <1>1 DEF ServerInv, poolVars, connVars
    <2>2. CASE t = l
      BY <1>6, <2>1, <2>2 DEF ThreadOK
    <2>3. CASE t # l
      <3>1. pos'[t] = pos[t] /\ conn'[t] = conn[t]
        BY <1>6, <2>3
      <3>2. pos[t] = "queue" /\ conn[t] \in map => conn[t] \in map'
        BY <1>1, <1>5, <2>3
      <3>3. QED
        BY <2>1, <3>1, <3>2 DEF ThreadOK
    <2>4. QED
      BY <2>2, <2>3
  <1>10. ASSUME NEW d \in Conns PROVE ConnOK(d)'
    BY <1>1 DEF ServerInv, ConnOK, connVars
  <1>11. QED
    BY <1>7, <1>8, <1>9, <1>10 DEF ServerInv

LEMMA LeaveLoopStep ==
  ASSUME ServerInv, NEW l \in Threads, LeaveLoop(l)
  PROVE  ServerInv'
  <1>1. /\ TypeOK /\ MapHoldsOpen /\ Goes(l, "idle", "left", None) /\ l \in 1 .. threadNum
        /\ UNCHANGED <<poolVars, main, map, visited, connVars, crashed>>
    BY DEF ServerInv, LeaveLoop
  <1>2. l \in 0 .. MaxThreads /\ pos[l] = "idle" /\ ~(l > threadNum)
    BY <1>1, Numbers DEF Threads, Goes
  <1>3. /\ pos' \in [0 .. MaxThreads -> {"idle", "insert", "queue", "close", "erase", "left"}]
        /\ conn' \in [0 .. MaxThreads -> Conns \cup {None}]
        /\ \A u \in 0 .. MaxThreads : conn'[u] = None <=> pos'[u] \in {"idle", "left"}
        /\ pos'[l] = "left"
        /\ \A u \in 0 .. MaxThreads : u # l => pos'[u] = pos[u] /\ conn'[u] = conn[u]
    BY <1>1, <1>2, GoesOnTo
  <1>4. TypeOK'
    BY <1>1, <1>3 DEF TypeOK, poolVars, connVars, Loops
  <1>5. MapHoldsOpen'
    <2>1. \A d \in Conns : Erasing(d) => Erasing(d)'
      BY <1>1, <1>2, <1>3, Numbers DEF Erasing, Threads, poolVars
    <2>2. QED
      BY <1>1, <2>1 DEF MapHoldsOpen, TypeOK, connVars
  <1>6. ASSUME NEW t \in 0 .. MaxThreads PROVE ThreadOK(t)'
    <2>1. ThreadOK(t) /\ UNCHANGED <<threadNum, main, map, visited, status, loopOf, pending, active, down>>
      BY <1>1 DEF ServerInv, poolVars, connVars
    <2>2. CASE t = l
      BY <1>2, <1>3, <2>1, <2>2 DEF ThreadOK
    <2>3. CASE t # l
      BY <1>3, <2>1, <2>3 DEF ThreadOK
    <2>4. QED
      BY <2>2, <2>3
  <1>7. ASSUME NEW d \in Conns PROVE ConnOK(d)'
    BY <1>1 DEF ServerInv, ConnOK, connVars
  <1>8. QED
    BY <1>4, <1>5, <1>6, <1>7 DEF ServerInv

-----------------------------------------------------------------------------

\* The thread of main() goes on to something that is neither serving nor the end.
LEMMA MainStep ==
  ASSUME ServerInv, main' \in {"left", "notify", "stop"}, main # "gone",
         UNCHANGED <<poolVars, map, visited, connVars, pos, conn, crashed>>
  PROVE  ServerInv'
  <1>1. TypeOK'
    BY DEF ServerInv, TypeOK, poolVars, connVars, Loops
  <1>2. MapHoldsOpen'
    BY DEF ServerInv, MapHoldsOpen, connVars
  <1>3. ASSUME NEW t \in 0 .. MaxThreads PROVE ThreadOK(t)'
    BY DEF ServerInv, ThreadOK, poolVars, connVars
  <1>4. ASSUME NEW c \in Conns PROVE ConnOK(c)'
    BY DEF ServerInv, ConnOK, connVars
  <1>5. QED
    BY <1>1, <1>2, <1>3, <1>4 DEF ServerInv

\* A step that concerns neither the map nor a connection (StopLoop, JoinLoop,
\* DataRace).
LEMMA PoolStep ==
  ASSUME ServerInv, joined' \in 0 .. threadNum, looping' \subseteq 1 .. threadNum,
         crashed' \in {None, "race", "owner gone"},
         UNCHANGED <<threadNum, nextId, main, map, visited, connVars, pos, conn>>
  PROVE  ServerInv'
  <1>1. TypeOK'
    BY DEF ServerInv, TypeOK, connVars, Loops
  <1>2. MapHoldsOpen'
    BY DEF ServerInv, MapHoldsOpen, connVars, Erasing, Threads
  <1>3. ASSUME NEW t \in 0 .. MaxThreads PROVE ThreadOK(t)'
    BY DEF ServerInv, ThreadOK, connVars
  <1>4. ASSUME NEW c \in Conns PROVE ConnOK(c)'
    BY DEF ServerInv, ConnOK, connVars
  <1>5. QED
    BY <1>1, <1>2, <1>3, <1>4 DEF ServerInv

LEMMA DestroyMapStep ==
  ASSUME ServerInv, DestroyMap
  PROVE  ServerInv'
  <1>1. /\ main' = "gone" /\ map' = {}
        /\ UNCHANGED <<poolVars, visited, connVars, pos, conn, crashed>>
    BY DEF DestroyMap, MainGoes
  <1>2. TypeOK'
    BY <1>1 DEF ServerInv, TypeOK, poolVars, connVars, Loops
  <1>3. MapHoldsOpen'
    BY <1>1 DEF MapHoldsOpen
  <1>4. ASSUME NEW t \in 0 .. MaxThreads PROVE ThreadOK(t)'
    BY <1>1 DEF ServerInv, ThreadOK, poolVars, connVars
  <1>5. ASSUME NEW c \in Conns PROVE ConnOK(c)'
    BY <1>1 DEF ServerInv, ConnOK, connVars
  <1>6. QED
    BY <1>2, <1>3, <1>4, <1>5 DEF ServerInv

LEMMA ConnectDestroyedStep ==
  ASSUME ServerInv, NEW c \in Conns, ConnectDestroyed(c)
  PROVE  ServerInv'
  <1>1. /\ TypeOK /\ MapHoldsOpen /\ ConnOK(c) /\ main = "notify"
        /\ visited' = visited \cup {c}
        /\ UNCHANGED <<poolVars, main, map, loopOf, up, pending, active, pos, conn>>
    BY DEF ServerInv, ConnectDestroyed
  <1>2. CASE status[c] # "CONNECTED"
    <2>1. UNCHANGED <<status, watched, down, crashed>>
      BY <1>2 DEF ConnectDestroyed
    <2>2. TypeOK'
      BY <1>1, <2>1 DEF TypeOK, poolVars, Loops
    <2>3. MapHoldsOpen'
      BY <1>1, <2>1 DEF MapHoldsOpen
    <2>4. ASSUME NEW t \in 0 .. MaxThreads PROVE ThreadOK(t)'
      BY <1>1, <2>1 DEF ServerInv, ThreadOK, poolVars
    <2>5. ASSUME NEW d \in Conns PROVE ConnOK(d)'
      BY <1>1, <2>1 DEF ServerInv, ConnOK
    <2>6. QED
      BY <2>2, <2>3, <2>4, <2>5 DEF ServerInv
  <1>3. CASE status[c] = "CONNECTED"
    <2>1. /\ status' = [status EXCEPT ![c] = "DISCONNECTED"] /\ watched' = watched \ {c}
          /\ ConnectionCallback(down, c)
      BY <1>3 DEF ConnectDestroyed
    <2>2. /\ down' \in [Conns -> Nat] /\ down'[c] = down[c] + 1
          /\ \A d \in Conns : d # c => down'[d] = down[d]
          /\ crashed' \in {None, "race", "owner gone"}
      BY <1>1, <2>1, Told
    <2>3. down[c] = 0 /\ up[c] = 1
      BY <1>1, <1>3 DEF ConnOK
    <2>4. down'[c] = 1
      <3>1. down'[c] = down[c] + 1
        BY <2>2
      <3>2. QED
        BY <2>3, <3>1
    <2>5. /\ status' \in [Conns -> {"CONNECTING", "CONNECTED", "DISCONNECTED"}]
          /\ status'[c] = "DISCONNECTED" /\ \A d \in Conns : d # c => status'[d] = status[d]
      BY <1>1, <2>1 DEF TypeOK
    <2>6. TypeOK'
      BY <1>1, <2>1, <2>2, <2>5 DEF TypeOK, poolVars, Loops
    <2>7. MapHoldsOpen'
      BY <1>1, <2>1 DEF MapHoldsOpen
    <2>8. ASSUME NEW t \in 0 .. MaxThreads PROVE ThreadOK(t)'
      <3>1. /\ ThreadOK(t)
            /\ UNCHANGED <<threadNum, main, map, loopOf, active, pending, pos, conn>>
        BY <1>1 DEF ServerInv, poolVars
      <3>2. pos[t] \notin {"idle", "left"} =>
              conn[t] \in Conns /\ pos[t] \in {"insert", "queue", "close", "erase"}
        BY <1>1, ConnTypes
      <3>3. CASE pos[t] \notin {"idle", "left"} /\ conn[t] = c
        <4>1. pos[t] = "close"
          BY <1>3, <3>1, <3>2, <3>3 DEF ThreadOK
        <4>2. QED
          BY <1>1, <2>4, <2>5, <3>1, <3>3, <4>1 DEF ThreadOK
      <3>4. CASE pos[t] \notin {"idle", "left"} /\ conn[t] # c
        <4>1. status'[conn[t]] = status[conn[t]] /\ down'[conn[t]] = down[conn[t]]
          BY <2>2, <2>5, <3>2, <3>4
        <4>2. QED
          BY <1>1, <3>1, <4>1 DEF ThreadOK
      <3>5. CASE pos[t] \in {"idle", "left"}
        BY <3>1, <3>5 DEF ThreadOK
      <3>6. QED
        BY <3>3, <3>4, <3>5
    <2>9. ASSUME NEW d \in Conns PROVE ConnOK(d)'
      <3>1. ConnOK(d)
        BY DEF ServerInv
      <3>2. CASE d = c
        <4>1. /\ d \notin watched' /\ d \in visited' /\ status'[d] = "DISCONNECTED"
              /\ down'[d] = 1 /\ up'[d] = 1 /\ loopOf'[d] # -1 /\ d \notin pending'
          BY <1>1, <1>3, <2>1, <2>3, <2>4, <2>5, <3>2 DEF ConnOK
        <4>2. QED
          BY <4>1 DEF ConnOK
      <3>3. CASE d # c
        <4>1. /\ status'[d] = status[d] /\ down'[d] = down[d]
              /\ (d \in watched' <=> d \in watched) /\ (d \in visited => d \in visited')
          BY <1>1, <2>1, <2>2, <2>5, <3>3
        <4>2. QED
          BY <1>1, <3>1, <4>1 DEF ConnOK
      <3>4. QED
        BY <3>2, <3>3
    <2>10. QED
      BY <2>6, <2>7, <2>8, <2>9 DEF ServerInv
  <1>4. QED
    BY <1>2, <1>3

LEMMA DestroyStepKeeps ==
  ASSUME ServerInv, DestroyStep
  PROVE  ServerInv'
  <1>1. DestroyOwner \/ EndOfBody => ServerInv'
    BY MainStep DEF DestroyOwner, EndOfBody, MainGoes
  <1>2. StopLoop => ServerInv'
    BY PoolStep DEF StopLoop, ServerInv, TypeOK
  <1>3. JoinLoop => ServerInv'
    <2> SUFFICES ASSUME JoinLoop PROVE ServerInv'
      OBVIOUS
    <2>1. joined' \in 0 .. threadNum
      BY Numbers DEF JoinLoop, ServerInv
    <2>2. looping' \subseteq 1 .. threadNum /\ crashed' \in {None, "race", "owner gone"}
      BY DEF JoinLoop, ServerInv, TypeOK
    <2>3. QED
      BY <2>1, <2>2, PoolStep DEF JoinLoop
  <1>4. QED
    BY <1>1, <1>2, <1>3, DestroyMapStep, ConnectDestroyedStep DEF DestroyStep

LEMMA NextStep == ServerInv /\ [Next]_vars => ServerInv'
  <1> SUFFICES ASSUME ServerInv, [Next]_vars PROVE ServerInv'
    OBVIOUS
  <1>1. UNCHANGED vars => ServerInv'
    BY PoolStep DEF vars, poolVars, ServerInv, TypeOK
  <1>2. AcceptStep => ServerInv'
    BY OnNewConnectionStep, InsertConnectionStep, QueueEstablishedStep DEF AcceptStep
  <1>3. ASSUME NEW l \in Threads, GoesOn(l) PROVE ServerInv'
    BY <1>3, EstablishedStep, HandleEventStep, OnCloseStep, OnCloseConnectionStep, LeaveLoopStep
       DEF GoesOn
  <1>4. ASSUME NEW l \in Threads, NEW ended \in SUBSET Conns, LoopOnce(l, ended)
        PROVE  ServerInv'
    BY <1>4, LoopOnceStep
  <1>5. StopServer => ServerInv'
    BY MainStep DEF StopServer, MainGoes
  <1>6. DataRace => ServerInv'
    BY PoolStep DEF DataRace, poolVars, ServerInv, TypeOK
  <1>7. QED
    BY <1>1, <1>2, <1>3, <1>4, <1>5, <1>6, DestroyStepKeeps DEF Next, Done

LEMMA Inductive == Spec => []ServerInv
  BY InitStep, NextStep, PTL DEF Spec

\* The types of the server; the loops that go on are loops of the pool
\* (TcpServer, EventLoopThreadPool).
THEOREM TypeCorrect == Spec => []TypeOK
  <1>1. ServerInv => TypeOK
    BY DEF ServerInv
  <1>2. QED
    BY <1>1, Inductive, PTL

\* Until the map is destroyed it holds every connection that a loop may still
\* reach by a plain pointer (OnNewConnection, OnCloseConnection).
THEOREM MapCorrect == Spec => []MapHoldsOpen
  <1>1. ServerInv => MapHoldsOpen
    BY DEF ServerInv
  <1>2. QED
    BY <1>1, Inductive, PTL

\* The owner hears of each connection once when it is up and, unless the
\* destructor ends it as well, at most once of its end (Established, OnClose,
\* ConnectDestroyed).
THEOREM PairsCorrect == Spec => []ToldInPairs
  <1>1. ServerInv => ToldInPairs
    <2> SUFFICES ASSUME ServerInv, NEW c \in Conns
                 PROVE  /\ up[c] <= 1 /\ (down[c] >= 1 => up[c] = 1)
                        /\ (down[c] >= 2 => down[c] = 2 /\ c \in visited)
      BY DEF ToldInPairs
    <2>1. ConnOK(c) /\ status[c] \in {"CONNECTING", "CONNECTED", "DISCONNECTED"}
      BY DEF ServerInv, TypeOK
    <2>2. CASE status[c] = "CONNECTING"
      BY <2>1, <2>2 DEF ConnOK
    <2>3. CASE status[c] = "CONNECTED"
      BY <2>1, <2>3 DEF ConnOK
    <2>4. CASE status[c] = "DISCONNECTED"
      BY <2>1, <2>4 DEF ConnOK
    <2>5. QED
      BY <2>1, <2>2, <2>3, <2>4
  <1>2. QED
    BY <1>1, Inductive, PTL

-----------------------------------------------------------------------------
(* The round robin *)

OnLoop(l) == {c \in Conns : loopOf[c] = l}

\* The inductive invariant: in the round that is going on the loops before
\* nextId have had one connection more than those from it on.
InRounds(q) ==
  \A l \in Loops : Cardinality(OnLoop(l)) = IF l <= nextId THEN q + 1 ELSE q

BalanceInv ==
  /\ \A l \in Loops : IsFiniteSet(OnLoop(l))
  /\ threadNum > 0 => \E q \in Nat : InRounds(q)

\* The loop that a connection is given has one more, and no other has.
LEMMA GivenToLoop ==
  ASSUME TypeOK, \A l \in Loops : IsFiniteSet(OnLoop(l)),
         NEW c \in Conns, loopOf[c] = -1, NEW g \in Loops,
         loopOf' = [loopOf EXCEPT ![c] = g], NEW l \in Loops
  PROVE  /\ IsFiniteSet(OnLoop(l)')
         /\ Cardinality(OnLoop(l)') = IF l = g THEN Cardinality(OnLoop(l)) + 1
                                               ELSE Cardinality(OnLoop(l))
  <1>1. DOMAIN loopOf = Conns /\ l # -1
    BY ConnTypes, Numbers
  <1>2. c \notin OnLoop(l) /\ IsFiniteSet(OnLoop(l))
    BY <1>1 DEF OnLoop
  <1>3. CASE l = g
    <2>1. OnLoop(l)' = OnLoop(l) \cup {c}
      BY <1>1, <1>3 DEF OnLoop
    <2>2. QED
      BY <1>2, <1>3, <2>1, FS_AddElement
  <1>4. CASE l # g
    <2>1. OnLoop(l)' = OnLoop(l)
      BY <1>1, <1>4 DEF OnLoop
    <2>2. QED
      BY <1>2, <1>4, <2>1
  <1>5. QED
    BY <1>3, <1>4

LEMMA NewConnectionBalanced ==
  ASSUME TypeOK, BalanceInv, NEW c \in Conns, OnNewConnection(c)
  PROVE  BalanceInv'
  <1>1. PICK g \in Loops : GetNextLoop(g) /\ loopOf' = [loopOf EXCEPT ![c] = g]
    BY DEF OnNewConnection
  <1>2. /\ threadNum' = threadNum /\ Loops' = Loops /\ loopOf[c] = -1
        /\ threadNum \in Nat /\ nextId \in Nat
    BY Numbers DEF OnNewConnection, Loops
  <1>3. \A l \in Loops : IsFiniteSet(OnLoop(l))
    BY DEF BalanceInv
  <1>4. \A l \in Loops :
          /\ IsFiniteSet(OnLoop(l)')
          /\ Cardinality(OnLoop(l)') = IF l = g THEN Cardinality(OnLoop(l)) + 1
                                                ELSE Cardinality(OnLoop(l))
    BY <1>1, <1>2, <1>3, GivenToLoop
  <1>5. ASSUME threadNum > 0 PROVE \E q \in Nat : InRounds(q)'
    <2>1. PICK q \in Nat : InRounds(q)
      BY <1>5 DEF BalanceInv
    <2>2. g = nextId + 1 /\ nextId' = (nextId + 1) % threadNum /\ nextId < threadNum
      <3>1. threadNum # 0
        BY <1>2, <1>5
      <3>2. nextId < threadNum
        BY <1>5 DEF TypeOK
      <3>3. QED
        BY <1>1, <3>1, <3>2 DEF GetNextLoop
    <2>3. \A l \in Loops : l \in 1 .. threadNum
      BY <1>5 DEF Loops
    <2>4. CASE nextId + 1 < threadNum
      <3>1. nextId' = nextId + 1
        BY <1>2, <2>2, <2>4
      <3>2. InRounds(q)'
        BY <1>2, <1>4, <2>1, <2>2, <2>3, <3>1 DEF InRounds
      <3>3. QED
        BY <3>2
    <2>5. CASE nextId + 1 = threadNum
      <3>1. nextId' = 0
        BY <1>2, <2>2, <2>5
      <3>2. InRounds(q + 1)'
        BY <1>2, <1>4, <2>1, <2>2, <2>3, <2>5, <3>1 DEF InRounds
      <3>3. QED
        BY <3>2
    <2>6. QED
      BY <1>2, <2>2, <2>4, <2>5
  <1>6. QED
    BY <1>2, <1>4, <1>5 DEF BalanceInv

\* Nobody else assigns a connection to a loop.
LEMMA BalanceStep == TypeOK /\ BalanceInv /\ [Next]_vars => BalanceInv'
  <1> SUFFICES ASSUME TypeOK, BalanceInv, [Next]_vars PROVE BalanceInv'
    OBVIOUS
  <1>1. ASSUME UNCHANGED <<threadNum, nextId, loopOf>> PROVE BalanceInv'
    BY <1>1 DEF BalanceInv, InRounds, OnLoop, Loops
  <1>2. ASSUME NEW l \in Threads, GoesOn(l) PROVE UNCHANGED <<threadNum, nextId, loopOf>>
    BY <1>2 DEF GoesOn, Established, HandleEventWithGuard, OnClose, OnCloseConnection,
                LeaveLoop, poolVars, connVars
  <1>3. ASSUME NEW l, NEW ended, LoopOnce(l, ended)
        PROVE  UNCHANGED <<threadNum, nextId, loopOf>>
    BY <1>3 DEF LoopOnce, poolVars
  <1>4. StopServer \/ DestroyStep \/ DataRace => UNCHANGED <<threadNum, nextId, loopOf>>
    BY DEF StopServer, DestroyStep, DestroyOwner, EndOfBody, StopLoop, JoinLoop, DestroyMap,
           ConnectDestroyed, DataRace, poolVars, connVars
  <1>5. InsertConnection \/ QueueEstablished \/ UNCHANGED vars
          => UNCHANGED <<threadNum, nextId, loopOf>>
    BY DEF InsertConnection, QueueEstablished, poolVars, connVars, vars
  <1>6. QED
    BY <1>1, <1>2, <1>3, <1>4, <1>5, NewConnectionBalanced DEF Next, AcceptStep, Done

\* No loop is ever given two connections more than another, for every number of
\* loops and connections (GetNextLoop).
THEOREM BalanceCorrect == Spec => []LoopsBalanced
  <1>1. Init => BalanceInv
    <2> SUFFICES ASSUME Init PROVE BalanceInv
      OBVIOUS
    <2>1. MaxThreads \in Nat /\ threadNum \in 0 .. MaxThreads /\ nextId = 0
      BY ThreadsAssumption DEF Init
    <2>2. \A l \in Loops : l # -1 /\ (threadNum > 0 => l > 0)
      BY <2>1 DEF Loops
    <2>3. \A l \in Loops : OnLoop(l) = {}
      BY <2>2 DEF Init, OnLoop
    <2>4. \A l \in Loops : IsFiniteSet(OnLoop(l)) /\ Cardinality(OnLoop(l)) = 0
      BY <2>3, FS_EmptySet
    <2>5. threadNum > 0 => InRounds(0)
      BY <2>1, <2>2, <2>4 DEF InRounds, Loops
    <2>6. QED
      BY <2>4, <2>5 DEF BalanceInv
  <1>2. TypeOK /\ BalanceInv => LoopsBalanced
    <2> SUFFICES ASSUME TypeOK, BalanceInv, NEW k \in Loops, NEW l \in Loops
                 PROVE  Cardinality(OnLoop(k)) <= Cardinality(OnLoop(l)) + 1
      BY DEF LoopsBalanced, OnLoop
    <2>1. CASE threadNum > 0
      <3>1. PICK q \in Nat : InRounds(q)
        BY <2>1 DEF BalanceInv
      <3>2. QED
        BY <3>1 DEF InRounds
    <2>2. CASE ~(threadNum > 0)
      <3>1. k = l
        BY <2>2, Numbers DEF Loops
      <3>2. Cardinality(OnLoop(k)) \in Nat
        BY FS_CardinalityType DEF BalanceInv
      <3>3. QED
        BY <3>1, <3>2
    <2>3. QED
      BY <2>1, <2>2
  <1>3. QED
    BY <1>1, <1>2, BalanceStep, TypeCorrect, PTL DEF Spec

-----------------------------------------------------------------------------
(* The end of the pool *)

\* A loop that was left is not turned again and has no channel to handle; the
\* thread of main() begins to destroy when its own loop is at rest, and is at the
\* end when all the others are joined.
PoolInv ==
  /\ \A l \in 1 .. threadNum : pos[l] = "left" => l \notin looping /\ NoneActive(l)
  /\ \A l \in 1 .. joined : pos[l] = "left"
  /\ main # "serve" => pos[0] = "idle"
  /\ main = "gone" => joined = threadNum

\* The connections of the map are destroyed, and with them the last that holds
\* their objects, when no thread of the pool is in a handler or will ever be, and
\* no channel of theirs waits for one (the order in which the members of
\* TcpServer are destroyed, ~EventLoopThread).
MapOutlivesLoops ==
  main = "gone" =>
    \A l \in 1 .. threadNum : pos[l] = "left" /\ NoneActive(l) /\ l \notin looping

\* Of a server without threads of its own: connection_map_ is never used by two
\* threads at once, and no end is told twice (TcpServer,
\* EventLoopThreadPool with thread_num_ 0).
OneThreadIsSafe ==
  threadNum = 0 => crashed # "race" /\ \A c \in Conns : down[c] <= 1

\* A step after which every thread is where it was.
LEMMA PoolKept ==
  ASSUME ServerInv, PoolInv, UNCHANGED <<threadNum, joined, loopOf, pos>>,
         looping' \subseteq looping, active' \subseteq active,
         main' # "serve" => pos[0] = "idle", main' = "gone" => joined = threadNum
  PROVE  PoolInv'
  <1>1. \A l \in 1 .. threadNum : NoneActive(l) => NoneActive(l)'
    BY DEF NoneActive
  <1>2. QED
    BY <1>1 DEF PoolInv

\* A step of one thread, which has not left.
LEMMA PoolGoes ==
  ASSUME ServerInv, PoolInv, UNCHANGED <<threadNum, joined, looping, main>>,
         NEW t \in 0 .. MaxThreads, t = 0 => main = "serve",
         \A u \in 0 .. MaxThreads : u # t => pos'[u] = pos[u],
         pos[t] # "left",
         pos'[t] = "left" => t \notin looping /\ NoneActive(t),
         active' \subseteq active, \A c \in active : loopOf'[c] = loopOf[c]
  PROVE  PoolInv'
  <1>1. /\ MaxThreads \in Nat /\ threadNum \in Nat /\ threadNum <= MaxThreads
        /\ joined \in Nat /\ joined <= threadNum
    BY Numbers DEF ServerInv
  <1>2. \A l : NoneActive(l) => NoneActive(l)'
    BY DEF NoneActive
  <1>3. ASSUME NEW l \in 1 .. threadNum, pos'[l] = "left"
        PROVE  l \notin looping /\ NoneActive(l)'
    <2>1. CASE l = t
      BY <1>2, <1>3, <2>1
    <2>2. CASE l # t
      <3>1. l \in 0 .. MaxThreads
        BY <1>1
      <3>2. pos[l] = "left"
        BY <1>3, <2>2, <3>1
      <3>3. QED
        BY <1>2, <3>2 DEF PoolInv
    <2>3. QED
      BY <2>1, <2>2
  <1>4. ASSUME NEW l \in 1 .. joined PROVE pos'[l] = "left"
    <2>1. pos[l] = "left" /\ l \in 0 .. MaxThreads
      BY <1>1 DEF PoolInv
    <2>2. QED
      BY <2>1
  <1>5. main # "serve" => pos'[0] = "idle"
    <2>1. 0 \in 0 .. MaxThreads
      BY <1>1
    <2>2. QED
      BY <2>1 DEF PoolInv
  <1>6. QED
    BY <1>3, <1>4, <1>5 DEF PoolInv

\* The steps that bring a thread from one place to another.
LEMMA PoolThreadStep ==
  ASSUME ServerInv, PoolInv,
         \/ AcceptStep
         \/ \E l \in Threads : \/ \E c \in Conns : HandleEventWithGuard(l, c)
                               \/ OnClose(l) \/ OnCloseConnection(l) \/ LeaveLoop(l)
  PROVE  PoolInv'
  <1>1. TypeOK /\ 0 \in 0 .. MaxThreads /\ \A l \in Threads : l \in 0 .. MaxThreads
    BY Numbers DEF ServerInv, Threads
  <1>2. ASSUME NEW c \in Conns, OnNewConnection(c) PROVE PoolInv'
    <2>1. /\ UNCHANGED <<threadNum, joined, looping, main, active>> /\ main = "serve"
          /\ Goes(0, "idle", "insert", c) /\ loopOf[c] = -1
      BY <1>2 DEF OnNewConnection
    <2>2. c \notin active
      BY <2>1 DEF ServerInv, ConnOK
    <2>3. \E l : loopOf' = [loopOf EXCEPT ![c] = l]
      BY <1>2 DEF OnNewConnection
    <2>4. \A d \in active : loopOf'[d] = loopOf[d]
      BY <1>1, <2>2, <2>3 DEF TypeOK
    <2>5. pos[0] = "idle" /\ pos'[0] = "insert" /\ \A u \in 0 .. MaxThreads : u # 0 => pos'[u] = pos[u]
      BY <1>1, <2>1 DEF TypeOK, Goes
    <2>6. QED
      BY <1>1, <2>1, <2>4, <2>5, PoolGoes
  <1>3. ASSUME InsertConnection \/ QueueEstablished PROVE PoolInv'
    <2>1. /\ UNCHANGED <<threadNum, joined, looping, main, active, loopOf>>
          /\ \E to \in {"queue", "idle"} :
               /\ pos[0] \in {"insert", "queue"} /\ pos' = [pos EXCEPT ![0] = to]
      BY <1>3 DEF InsertConnection, QueueEstablished, Goes, poolVars, connVars
    <2>2. /\ pos[0] \in {"insert", "queue"} /\ pos'[0] \in {"queue", "idle"}
          /\ \A u \in 0 .. MaxThreads : u # 0 => pos'[u] = pos[u]
      BY <1>1, <2>1 DEF TypeOK
    <2>3. main = "serve"
      BY <2>2 DEF PoolInv
    <2>4. QED
      BY <1>1, <2>1, <2>2, <2>3, PoolGoes
  <1>4. ASSUME NEW l \in Threads, OnClose(l) \/ OnCloseConnection(l)
                                    \/ \E c \in Conns : HandleEventWithGuard(l, c)
        PROVE  PoolInv'
    <2>1. /\ UNCHANGED <<threadNum, joined, looping, main, loopOf>> /\ active' \subseteq active
          /\ l = 0 => main = "serve"
          /\ \E to \in {"close", "erase", "idle"} :
               pos[l] \in {"idle", "close", "erase"} /\ pos' = [pos EXCEPT ![l] = to]
      BY <1>4 DEF OnClose, OnCloseConnection, HandleEventWithGuard, Goes, InLoop, poolVars,
                  connVars
    <2>2. /\ pos[l] # "left" /\ pos'[l] # "left"
          /\ \A u \in 0 .. MaxThreads : u # l => pos'[u] = pos[u]
      BY <1>1, <2>1 DEF TypeOK
    <2>3. QED
      BY <1>1, <2>1, <2>2, PoolGoes
  <1>5. ASSUME NEW l \in Threads, LeaveLoop(l) PROVE PoolInv'
    <2>1. /\ UNCHANGED <<threadNum, joined, looping, main, loopOf, active>>
          /\ l # 0 /\ l \notin looping /\ NoneActive(l)
          /\ pos[l] = "idle" /\ pos' = [pos EXCEPT ![l] = "left"]
      BY <1>5, Numbers DEF LeaveLoop, Goes, poolVars, connVars
    <2>2. \A u \in 0 .. MaxThreads : u # l => pos'[u] = pos[u]
      BY <1>1, <2>1 DEF TypeOK
    <2>3. QED
      BY <1>1, <2>1, <2>2, PoolGoes
  <1>6. QED
    BY <1>2, <1>3, <1>4, <1>5 DEF AcceptStep

LEMMA PoolLoopOnce ==
  ASSUME ServerInv, PoolInv, NEW l \in Threads, NEW ended, LoopOnce(l, ended)
  PROVE  PoolInv'
  <1>1. /\ UNCHANGED <<threadNum, joined, looping, main, loopOf, pos>> /\ pos[l] = "idle"
        /\ active' = active \cup ended /\ \A c \in ended : loopOf[c] = l
    BY DEF LoopOnce, poolVars
  <1>2. \A k \in 1 .. threadNum : pos[k] = "left" /\ NoneActive(k) => NoneActive(k)'
    BY <1>1 DEF NoneActive
  <1>3. QED
    BY <1>1, <1>2 DEF PoolInv

\* The only step that joins: of the loop that has left.
LEMMA PoolJoin == ASSUME ServerInv, PoolInv, JoinLoop PROVE PoolInv'
  <1>1. /\ joined' = joined + 1 /\ pos[joined + 1] = "left" /\ main = "stop"
        /\ UNCHANGED <<threadNum, looping, main, loopOf, active, pos>>
    BY DEF JoinLoop, connVars
  <1>2. joined \in Nat
    BY Numbers DEF ServerInv
  <1>3. \A l \in 1 .. joined' : l \in 1 .. joined \/ l = joined + 1
    BY <1>1, <1>2
  <1>4. \A l : NoneActive(l)' <=> NoneActive(l)
    BY <1>1 DEF NoneActive
  <1>5. QED
    BY <1>1, <1>3, <1>4 DEF PoolInv

LEMMA PoolOtherSteps ==
  ASSUME ServerInv, PoolInv,
         \/ StopServer \/ DataRace \/ UNCHANGED vars
         \/ DestroyOwner \/ EndOfBody \/ StopLoop \/ DestroyMap
         \/ \E c \in Conns : ConnectDestroyed(c)
         \/ \E l \in Threads, c \in Conns : Established(l, c)
  PROVE  PoolInv'
  <1>1. UNCHANGED <<threadNum, joined, loopOf, pos, active>> /\ looping' \subseteq looping
    BY DEF StopServer, DataRace, DestroyOwner, EndOfBody, StopLoop, DestroyMap, ConnectDestroyed,
           Established, poolVars, connVars, vars
  <1>2. main' # "serve" => pos[0] = "idle"
    BY DEF PoolInv, StopServer, DataRace, DestroyOwner, EndOfBody, StopLoop, DestroyMap,
           ConnectDestroyed, Established, MainGoes, vars
  <1>3. main' = "gone" => joined = threadNum
    BY DEF PoolInv, StopServer, DataRace, DestroyOwner, EndOfBody, StopLoop, DestroyMap,
           ConnectDestroyed, Established, MainGoes, vars
  <1>4. QED
    BY <1>1, <1>2, <1>3, PoolKept

LEMMA PoolNext == ServerInv /\ PoolInv /\ [Next]_vars => PoolInv'
  BY PoolThreadStep, PoolLoopOnce, PoolJoin, PoolOtherSteps
     DEF Next, GoesOn, DestroyStep, Done

LEMMA PoolHolds == Spec => [](ServerInv /\ PoolInv)
  <1>1. Init => PoolInv
    <2> SUFFICES ASSUME Init PROVE PoolInv
      OBVIOUS
    <2>1. MaxThreads \in Nat /\ threadNum \in 0 .. MaxThreads
      BY ThreadsAssumption DEF Init
    <2>2. \A t \in 0 .. MaxThreads : pos[t] = "idle"
      BY DEF Init
    <2>3. \A l \in 1 .. threadNum : pos[l] # "left"
      BY <2>1, <2>2
    <2>4. joined = 0 /\ main = "serve"
      BY DEF Init
    <2>5. QED
      BY <2>3, <2>4 DEF PoolInv
  <1>2. QED
    BY <1>1, PoolNext, Inductive, PTL DEF Spec

\* The map, and with it the connections, outlives the threads of the pool, for
\* every number of loops and connections.
THEOREM MapOutlivesLoopsCorrect == Spec => []MapOutlivesLoops
  <1>1. PoolInv => MapOutlivesLoops
    BY DEF PoolInv, MapOutlivesLoops
  <1>2. QED
    BY <1>1, PoolHolds, PTL

-----------------------------------------------------------------------------
(* A server without threads of its own *)

\* Nothing of the map was visited while the loop of main() may handle a channel.
OneThreadInv ==
  /\ main \in {"serve", "left"} => visited = {}
  /\ OneThreadIsSafe

LEMMA OneThreadKept ==
  ASSUME OneThreadInv, UNCHANGED <<threadNum, down, visited>>,
         crashed' = crashed \/ crashed' \in {None, "owner gone"},
         main' \in {"serve", "left"} => main \in {"serve", "left"}
  PROVE  OneThreadInv'
  BY DEF OneThreadInv, OneThreadIsSafe, None

\* In the only loop a channel is handled before the destructor begins, so that
\* this end is the first.
LEMMA OneThreadOnClose ==
  ASSUME ServerInv, OneThreadInv, NEW l \in Threads, OnClose(l)
  PROVE  OneThreadInv'
  <1>1. /\ UNCHANGED <<threadNum, main, visited>> /\ (l = 0 => main = "serve")
        /\ pos[l] = "close" /\ ConnectionCallback(down, conn[l])
    BY DEF OnClose, Goes, InLoop, poolVars
  <1>2. TypeOK /\ l \in 0 .. MaxThreads /\ ThreadOK(l) /\ conn[l] \in Conns
    BY <1>1, Numbers, ConnTypes DEF ServerInv, Threads
  <1>3. /\ down'[conn[l]] = down[conn[l]] + 1
        /\ \A d \in Conns : d # conn[l] => down'[d] = down[d]
    BY <1>1, <1>2, Told
  <1>4. ASSUME threadNum = 0 PROVE crashed' # "race" /\ \A c \in Conns : down'[c] <= 1
    <2>1. l = 0 /\ visited = {}
      BY <1>1, <1>4 DEF Threads, OneThreadInv
    <2>2. down[conn[l]] = 0
      BY <1>1, <1>2, <2>1 DEF ThreadOK
    <2>3. crashed' \in {None, "owner gone"}
      BY <1>1 DEF ConnectionCallback
    <2>4. down'[conn[l]] = 1
      BY <1>3, <2>2
    <2>5. \A c \in Conns : down[c] <= 1
      BY <1>4 DEF OneThreadInv, OneThreadIsSafe
    <2>6. \A c \in Conns : down'[c] <= 1
      BY <1>3, <2>4, <2>5
    <2>7. QED
      BY <2>3, <2>6 DEF None
  <1>5. QED
    BY <1>1, <1>4 DEF OneThreadInv, OneThreadIsSafe

LEMMA OneThreadDestroyed ==
  ASSUME ServerInv, OneThreadInv, NEW c \in Conns, ConnectDestroyed(c)
  PROVE  OneThreadInv'
  <1>1. main = "notify" /\ UNCHANGED <<threadNum, main>> /\ TypeOK /\ ConnOK(c)
    BY DEF ConnectDestroyed, ServerInv, poolVars
  <1>2. CASE status[c] = "CONNECTED"
    <2>1. ConnectionCallback(down, c)
      BY <1>2 DEF ConnectDestroyed
    <2>2. /\ down'[c] = down[c] + 1
          /\ \A d \in Conns : d # c => down'[d] = down[d]
      BY <1>1, <2>1, Told
    <2>3. down[c] = 0 /\ down'[c] = 1
      <3>1. down[c] = 0
        BY <1>1, <1>2 DEF ConnOK
      <3>2. QED
        BY <2>2, <3>1
    <2>4. ASSUME threadNum = 0 PROVE \A d \in Conns : down'[d] <= 1
      <3>1. \A d \in Conns : down[d] <= 1
        BY <2>4 DEF OneThreadInv, OneThreadIsSafe
      <3>2. QED
        BY <2>2, <2>3, <3>1
    <2>5. crashed' # "race"
      BY <2>1 DEF ConnectionCallback, None
    <2>6. QED
      BY <1>1, <2>4, <2>5 DEF OneThreadInv, OneThreadIsSafe
  <1>3. CASE status[c] # "CONNECTED"
    BY <1>1, <1>3 DEF ConnectDestroyed, OneThreadInv, OneThreadIsSafe
  <1>4. QED
    BY <1>2, <1>3

\* The one thread is at rest when it goes through the map.
LEMMA OneThreadNoRace ==
  ASSUME ServerInv, PoolInv, DataRace
  PROVE  threadNum # 0
  <1> SUFFICES ASSUME threadNum = 0 PROVE FALSE
    OBVIOUS
  <1>1. Threads = {0}
    BY DEF Threads
  <1>2. AtMap(0) /\ main = "notify"
    BY <1>1 DEF DataRace, Iterating
  <1>3. QED
    BY <1>2 DEF PoolInv, AtMap

LEMMA OneThreadNext == ServerInv /\ PoolInv /\ OneThreadInv /\ [Next]_vars => OneThreadInv'
  <1> SUFFICES ASSUME ServerInv, PoolInv, OneThreadInv, [Next]_vars PROVE OneThreadInv'
    OBVIOUS
  <1>1. CASE DataRace
    <2>1. threadNum # 0 /\ UNCHANGED <<threadNum, main, visited>>
      BY <1>1, OneThreadNoRace DEF DataRace, poolVars
    <2>2. QED
      BY <2>1 DEF OneThreadInv, OneThreadIsSafe
  <1>2. CASE \E l \in Threads : OnClose(l)
    BY <1>2, OneThreadOnClose
  <1>3. CASE \E c \in Conns : ConnectDestroyed(c)
    BY <1>3, OneThreadDestroyed
  <1>4. CASE \/ AcceptStep \/ StopServer \/ UNCHANGED vars
             \/ DestroyOwner \/ EndOfBody \/ StopLoop \/ JoinLoop \/ DestroyMap
             \/ \E l \in Threads : \/ \E c \in Conns : Established(l, c) \/ HandleEventWithGuard(l, c)
                                   \/ OnCloseConnection(l) \/ LeaveLoop(l)
                                   \/ \E ended \in SUBSET Conns : LoopOnce(l, ended)
    <2>1. UNCHANGED <<threadNum, down, visited>>
      BY <1>4 DEF AcceptStep, OnNewConnection, InsertConnection, QueueEstablished, StopServer,
                  DestroyOwner, EndOfBody, StopLoop, JoinLoop, DestroyMap, Established,
                  HandleEventWithGuard, OnCloseConnection, LeaveLoop, LoopOnce, poolVars,
                  connVars, vars
    <2>2. crashed' = crashed \/ crashed' \in {None, "owner gone"}
      BY <1>4 DEF AcceptStep, OnNewConnection, InsertConnection, QueueEstablished, StopServer,
                  DestroyOwner, EndOfBody, StopLoop, JoinLoop, DestroyMap, Established,
                  HandleEventWithGuard, OnCloseConnection, LeaveLoop, LoopOnce,
                  ConnectionCallback, vars
    <2>3. main' \in {"serve", "left"} => main \in {"serve", "left"}
      BY <1>4 DEF AcceptStep, OnNewConnection, InsertConnection, QueueEstablished, StopServer,
                  DestroyOwner, EndOfBody, StopLoop, JoinLoop, DestroyMap, Established,
                  HandleEventWithGuard, OnCloseConnection, LeaveLoop, LoopOnce, MainGoes, vars
    <2>4. QED
      BY <2>1, <2>2, <2>3, OneThreadKept
  <1>5. QED
    BY <1>1, <1>2, <1>3, <1>4 DEF Next, GoesOn, DestroyStep, Done

\* What goes wrong between the threads of a server does not where there is one.
THEOREM OneThreadCorrect == Spec => []OneThreadIsSafe
  <1>1. Init => OneThreadInv
    BY DEF Init, OneThreadInv, OneThreadIsSafe, None
  <1>2. OneThreadInv => OneThreadIsSafe
    BY DEF OneThreadInv
  <1>3. QED
    BY <1>1, <1>2, OneThreadNext, PoolHolds, PTL DEF Spec

=============================================================================
