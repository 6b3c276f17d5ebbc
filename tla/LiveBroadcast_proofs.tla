------------------------ MODULE LiveBroadcast_proofs ------------------------
(***************************************************************************)
(* Proofs about LiveBroadcast, for any broadcasters, viewers and rooms.    *)
(***************************************************************************)
EXTENDS LiveBroadcast, FiniteSetTheorems, SequenceTheorems, TLAPS

-----------------------------------------------------------------------------
(* The next viewer of a walk *)

\* The numbers below all of S are as many as the least of S says.
LEMMA Smallest ==
  ASSUME NEW S \in SUBSET Nat, S # {}
  PROVE  \E x \in S : \A y \in S : x <= y
  <1> DEFINE below == {x \in Nat : \A s \in S : x < s}
             c == Cardinality(below)
  <1>1. PICK n \in S : TRUE
    OBVIOUS
  <1>2. IsFiniteSet(below)
    <2>1. below \in SUBSET Nat /\ n \in Nat /\ \A x \in below : x <= n
      BY <1>1
    <2>2. QED
      BY <2>1, FS_BoundedSetOfNaturals
  <1>3. c \in Nat
    BY <1>2, FS_CardinalityType
  <1>4. \A d \in below : d < c
    <2>1. TAKE d \in below
    <2>2. d \in Nat /\ 0 .. d \in SUBSET below
      OBVIOUS
    <2>3. Cardinality(0 .. d) <= c
      BY <1>2, <2>2, FS_Subset
    <2>4. Cardinality(0 .. d) = d + 1
      BY <2>2, FS_Interval
    <2> HIDE DEF c
    <2>5. QED
      BY <1>3, <2>2, <2>3, <2>4
  <1>5. below = 0 .. c - 1
    <2>1. IsFiniteSet(0 .. c - 1) /\ Cardinality(0 .. c - 1) = c
      <3> HIDE DEF c
      <3>1. /\ IsFiniteSet(0 .. c - 1)
            /\ Cardinality(0 .. c - 1) = IF 0 > c - 1 THEN 0 ELSE c - 1 - 0 + 1
        BY <1>3, FS_Interval
      <3>2. QED
        BY <1>3, <3>1
    <2>2. below \in SUBSET (0 .. c - 1)
      BY <1>3, <1>4
    <2>3. QED
      BY <2>1, <2>2, FS_Subset
  <1> HIDE DEF c
  <1>6. c \notin below
    BY <1>3, <1>5
  <1>7. PICK s \in S : s <= c
    BY <1>3, <1>6
  <1>8. \A y \in S : y \notin 0 .. c - 1
    <2>1. \A y \in S : y \notin below
      OBVIOUS
    <2>2. QED
      BY <1>5, <2>1
  <1>9. QED
    BY <1>3, <1>7, <1>8

LEMMA NextClientFacts ==
  ASSUME NEW p \in Pushers, NEW n \in Nat, Members(p) \subseteq Viewers
  PROVE  /\ NextClient(p, n) \in Members(p) \cup {0}
         /\ NextClient(p, n) # 0 => NextClient(p, n) > n
         /\ \A v \in Members(p) : v > n => NextClient(p, n) \in 1 .. v
  <1> DEFINE behind == {v \in Members(p) : v > n}
  <1>1. behind \subseteq Nat /\ \A v \in behind : v > 0
    <2>1. \A v \in Members(p) : v \in Nat /\ v # 0
      BY ViewersAssumption
    <2>2. QED
      BY <2>1
  <1>2. CASE behind = {}
    BY <1>2 DEF NextClient
  <1>3. CASE behind # {}
    <2>1. \E x \in behind : \A y \in behind : x <= y
      BY <1>1, <1>3, Smallest
    <2>2. NextClient(p, n) = CHOOSE v \in behind : \A w \in behind : v <= w
      BY <1>3 DEF NextClient
    <2>3. NextClient(p, n) \in behind /\ \A w \in behind : NextClient(p, n) <= w
      BY <2>1, <2>2
    <2>4. QED
      BY <1>1, <2>3
  <1>4. QED
    BY <1>2, <1>3

-----------------------------------------------------------------------------
(* Types *)

LEMMA MembersAreViewers ==
  ASSUME TypeOK, NEW p \in Pushers
  PROVE  Members(p) \subseteq Viewers /\ Members(p) \subseteq Nat \ {0}
  BY ViewersAssumption DEF TypeOK, Members

LEMMA NextClientType ==
  ASSUME TypeOK, NEW p \in Pushers, NEW n \in Viewers \cup {0}
  PROVE  NextClient(p, n) \in Viewers \cup {0}
  BY MembersAreViewers, NextClientFacts, ViewersAssumption

LEMMA ItemTypes ==
  /\ \A p \in Pushers, n \in Nat : Tag(p, n) \in Tags
  /\ \A parts \in Seq(Parts) : Header(parts) \in Headers
  BY DEF Tag, Tags, Header, Headers

\* What a step leaves alone keeps its type, and so does what goes through a queue.
LEMMA QueueTypes ==
  ASSUME NEW q \in [Viewers -> Seq(Tags)], NEW o \in [Viewers -> Seq(Tags \cup Headers)],
         NEW v \in Viewers
  PROVE  /\ \A item \in Tags : [q EXCEPT ![v] = Append(@, item)] \in [Viewers -> Seq(Tags)]
         /\ \A item \in Tags \cup Headers :
              [o EXCEPT ![v] = Append(@, item)] \in [Viewers -> Seq(Tags \cup Headers)]
         /\ q[v] # <<>> => /\ Head(q[v]) \in Tags
                           /\ [q EXCEPT ![v] = Tail(@)] \in [Viewers -> Seq(Tags)]
  <1>1. \A item \in Tags : Append(q[v], item) \in Seq(Tags)
    BY AppendProperties
  <1>2. \A item \in Tags \cup Headers : Append(o[v], item) \in Seq(Tags \cup Headers)
    BY AppendProperties
  <1>3. q[v] # <<>> => Head(q[v]) \in Tags /\ Tail(q[v]) \in Seq(Tags)
    BY HeadTailProperties
  <1>4. QED
    BY <1>1, <1>2, <1>3

LEMMA InitTypes == Init => TypeOK
  <1> SUFFICES ASSUME Init PROVE TypeOK
    OBVIOUS
  <1>1. /\ rooms \in [Paths -> Pushers \cup {None}]
        /\ pusher \in [Pushers -> {"shake hand", "bound", "live", "closed"}]
        /\ first \in [Pushers -> {"none", "no audio", "all"}]
        /\ clients \in [Pushers -> SUBSET Viewers]
        /\ at \in [Pushers -> Viewers \cup {0}]
    BY DEF Init
  <1>2. tags \in [Pushers -> Nat] /\ \A p \in Pushers : tags[p] <= MaxTags[p]
    <2>1. \A p \in Pushers : MaxTags[p] \in Nat
      BY MaxTagsAssumption
    <2>2. tags = [p \in Pushers |-> 0]
      BY DEF Init
    <2>3. QED
      BY <2>1, <2>2
  <1>3. header \in [Pushers -> Seq(Parts)]
    BY EmptySeq DEF Init
  <1>4. queued \in [Viewers -> Seq(Tags)] /\ out \in [Viewers -> Seq(Tags \cup Headers)]
    BY EmptySeq DEF Init
  <1>5. /\ viewer \in [Viewers -> Joining \cup {"new", "watching", "erase", "gone"}]
        /\ source \in [Viewers -> Pushers \cup {None}]
        /\ owed \in [Viewers -> Nat]
        /\ packs \in [Viewers -> {"none", "no audio", "all"}]
        /\ \A v \in Viewers : viewer[v] \notin Joining
    BY DEF Init, Joining
  <1>6. up \in [Viewers -> BOOLEAN] /\ crashed \in {None, "race", "dangling", "no first packs"}
    BY DEF Init
  <1>7. QED
    BY <1>1, <1>2, <1>3, <1>4, <1>5, <1>6 DEF TypeOK

LEMMA PushTypes ==
  ASSUME TypeOK, NEW p \in Pushers,
         \/ OnShakeHandSuccess(p) \/ SetNewMessageCallback(p) \/ FirstPacksWithoutAudio(p)
         \/ OnNewFlvTag(p) \/ AddFlvTag(p) \/ AddFlvTagDangling(p)
         \/ OnBodyDataDangling(p) \/ OnConnection(p)
  PROVE  TypeOK'
  <1>1. CASE OnShakeHandSuccess(p)
    <2>1. PathOf[p] \in Paths
      BY PathsAssumption
    <2>2. QED
      BY <1>1, <2>1 DEF TypeOK, OnShakeHandSuccess, pullVars
  <1>2. CASE SetNewMessageCallback(p)
    BY <1>2 DEF TypeOK, SetNewMessageCallback, pullVars
  <1>3. CASE FirstPacksWithoutAudio(p)
    BY <1>3 DEF TypeOK, FirstPacksWithoutAudio, pullVars
  <1>4. CASE OnNewFlvTag(p)
    <2>1. MaxTags[p] \in Nat /\ tags[p] \in Nat /\ tags[p] < MaxTags[p]
      BY <1>4, MaxTagsAssumption DEF TypeOK, OnNewFlvTag
    <2>2. tags[p] + 1 \in Nat /\ tags[p] + 1 <= MaxTags[p]
      BY <2>1
    <2>3. NextClient(p, 0) \in Viewers \cup {0}
      BY NextClientType
    <2>4. tags' \in [Pushers -> Nat] /\ \A q \in Pushers : tags'[q] <= MaxTags[q]
      BY <1>4, <2>2 DEF TypeOK, OnNewFlvTag
    <2>5. at' \in [Pushers -> Viewers \cup {0}]
      BY <1>4, <2>3 DEF TypeOK, OnNewFlvTag
    <2>6. QED
      BY <1>4, <2>4, <2>5 DEF TypeOK, OnNewFlvTag, pullVars
  <1>5. CASE AddFlvTag(p)
    <2>1. at[p] \in Viewers /\ at'[p] \in Viewers \cup {0} /\ at' \in [Pushers -> Viewers \cup {0}]
      <3>1. at[p] \in Viewers
        BY <1>5 DEF AddFlvTag, TypeOK
      <3>2. NextClient(p, at[p]) \in Viewers \cup {0}
        BY <3>1, NextClientType
      <3>3. QED
        BY <1>5, <3>1, <3>2 DEF AddFlvTag, TypeOK
    <2>2. Tag(p, tags[p]) \in Tags
      BY ItemTypes DEF TypeOK
    <2>3. [queued EXCEPT ![at[p]] = Append(@, Tag(p, tags[p]))] \in [Viewers -> Seq(Tags)]
      BY <2>1, <2>2, QueueTypes DEF TypeOK
    <2>4. queued' \in [Viewers -> Seq(Tags)]
      BY <1>5, <2>3 DEF TypeOK, AddFlvTag
    <2>5. QED
      BY <1>5, <2>1, <2>4 DEF TypeOK, AddFlvTag, pullVars
  <1>6. CASE AddFlvTagDangling(p)
    <2>1. at' \in [Pushers -> Viewers \cup {0}]
      <3>1. at[p] \in Viewers
        BY <1>6 DEF AddFlvTagDangling, TypeOK
      <3>2. NextClient(p, at[p]) \in Viewers \cup {0}
        BY <3>1, NextClientType
      <3>3. QED
        BY <1>6, <3>1, <3>2 DEF AddFlvTagDangling, TypeOK
    <2>2. crashed' \in {None, "race", "dangling", "no first packs"}
      BY <1>6 DEF AddFlvTagDangling
    <2>3. QED
      BY <1>6, <2>1, <2>2 DEF TypeOK, AddFlvTagDangling, pullVars
  <1>7. CASE OnBodyDataDangling(p)
    BY <1>7 DEF TypeOK, OnBodyDataDangling, pullVars, pushVars
  <1>8. CASE OnConnection(p)
    BY <1>8 DEF TypeOK, OnConnection, pullVars
  <1>9. QED
    BY <1>1, <1>2, <1>3, <1>4, <1>5, <1>6, <1>7, <1>8

LEMMA PullTypes ==
  ASSUME TypeOK, NEW v \in Viewers,
         \/ \E path \in Paths : OnClientMessage(v, path) \/ OnClientMessageFailed(v, path)
         \/ AddClientConnection(v) \/ HeaderThere(v) \/ TakeFirstPacks(v) \/ NoFirstPacks(v)
         \/ MakeFirstPart(v) \/ MakeSecondPart(v) \/ SendHeaderOnConnection(v)
         \/ SendInLoop(v) \/ OnClose(v) \/ OnConnectionClose(v) \/ OnConnectionCloseDangling(v)
  PROVE  TypeOK'
  <1>1. ASSUME NEW path \in Paths, OnClientMessage(v, path) PROVE TypeOK'
    <2>1. rooms[path] \in Pushers
      BY <1>1 DEF TypeOK, OnClientMessage
    <2>2. QED
      BY <1>1, <2>1 DEF TypeOK, OnClientMessage, Goes, Joining, pushVars
  <1>2. ASSUME NEW path \in Paths, OnClientMessageFailed(v, path) PROVE TypeOK'
    BY <1>2 DEF TypeOK, OnClientMessageFailed, Goes, Joining, pushVars
  <1>3. CASE AddClientConnection(v)
    <2>1. source[v] \in Pushers
      BY <1>3 DEF TypeOK, AddClientConnection, Joining
    <2>2. tags[source[v]] \in Nat
      BY <2>1 DEF TypeOK
    <2>3. owed' \in [Viewers -> Nat]
      <3>1. tags[source[v]] + 1 \in Nat
        BY <2>2
      <3>2. QED
        BY <1>3, <2>2, <3>1 DEF TypeOK, AddClientConnection
    <2>4. QED
      BY <1>3, <2>1, <2>3 DEF TypeOK, AddClientConnection, Goes, Joining, pushVars
  <1>4. CASE HeaderThere(v)
    BY <1>4 DEF TypeOK, HeaderThere, Goes, Joining, pushVars
  <1>5. CASE TakeFirstPacks(v)
    <2>1. source[v] \in Pushers
      BY <1>5 DEF TypeOK, TakeFirstPacks, Joining
    <2>2. QED
      BY <1>5, <2>1 DEF TypeOK, TakeFirstPacks, Goes, Joining, pushVars
  <1>6. CASE NoFirstPacks(v)
    BY <1>6 DEF TypeOK, NoFirstPacks, pushVars, pullVars
  <1>7. CASE MakeFirstPart(v)
    <2>1. source[v] \in Pushers /\ header[source[v]] \in Seq(Parts)
      BY <1>7 DEF TypeOK, MakeFirstPart, Joining
    <2>2. Append(header[source[v]], "script") \in Seq(Parts)
      BY <2>1, AppendProperties DEF Parts
    <2>3. header' \in [Pushers -> Seq(Parts)]
      BY <1>7, <2>1, <2>2 DEF TypeOK, MakeFirstPart
    <2>4. QED
      BY <1>7, <2>3 DEF TypeOK, MakeFirstPart, Goes, Joining, pushVars
  <1>8. CASE MakeSecondPart(v)
    <2>1. source[v] \in Pushers /\ header[source[v]] \in Seq(Parts)
      BY <1>8 DEF TypeOK, MakeSecondPart, Joining
    <2>2. <<"video", "audio">> \in Seq(Parts) /\ <<"video">> \in Seq(Parts)
      BY DEF Parts
    <2>3. /\ header[source[v]] \o <<"video", "audio">> \in Seq(Parts)
          /\ header[source[v]] \o <<"video">> \in Seq(Parts)
      BY <2>1, <2>2, ConcatProperties
    <2>4. header' \in [Pushers -> Seq(Parts)]
      <3>1. \E h \in Seq(Parts) : header' = [header EXCEPT ![source[v]] = h]
        <4>1. CASE packs[v] = "all"
          BY <1>8, <2>3, <4>1 DEF MakeSecondPart
        <4>2. CASE packs[v] # "all"
          BY <1>8, <2>3, <4>2 DEF MakeSecondPart
        <4>3. QED
          BY <4>1, <4>2
      <3>2. QED
        BY <2>1, <3>1 DEF TypeOK
    <2>5. QED
      BY <1>8, <2>4 DEF TypeOK, MakeSecondPart, Goes, Joining, pushVars
  <1>9. CASE SendHeaderOnConnection(v)
    <2>1. Header(header[source[v]]) \in Headers
      BY <1>9, ItemTypes DEF TypeOK, SendHeaderOnConnection, Joining
    <2>2. out' \in [Viewers -> Seq(Tags \cup Headers)]
      BY <1>9, <2>1, QueueTypes DEF TypeOK, SendHeaderOnConnection
    <2>3. QED
      BY <1>9, <2>2 DEF TypeOK, SendHeaderOnConnection, Goes, Joining, pushVars
  <1>10. CASE SendInLoop(v)
    <2>1. Head(queued[v]) \in Tags \cup Headers /\ queued' \in [Viewers -> Seq(Tags)]
      <3>1. queued \in [Viewers -> Seq(Tags)] /\ out \in [Viewers -> Seq(Tags \cup Headers)]
        BY DEF TypeOK
      <3>2. queued[v] # <<>> /\ queued' = [queued EXCEPT ![v] = Tail(@)]
        BY <1>10 DEF SendInLoop
      <3>3. QED
        BY <3>1, <3>2, QueueTypes
    <2>2. [out EXCEPT ![v] = Append(@, Head(queued[v]))] \in [Viewers -> Seq(Tags \cup Headers)]
      <3>1. queued \in [Viewers -> Seq(Tags)] /\ out \in [Viewers -> Seq(Tags \cup Headers)]
        BY DEF TypeOK
      <3>2. QED
        BY <2>1, <3>1, QueueTypes
    <2>3. out' \in [Viewers -> Seq(Tags \cup Headers)]
      BY <1>10, <2>2 DEF TypeOK, SendInLoop
    <2>4. QED
      BY <1>10, <2>1, <2>3 DEF TypeOK, SendInLoop, pushVars, pullVars
  <1>11. CASE OnClose(v)
    BY <1>11 DEF TypeOK, OnClose, Goes, Joining, pushVars
  <1>12. CASE OnConnectionClose(v)
    BY <1>12 DEF TypeOK, OnConnectionClose, Goes, Joining, pushVars
  <1>13. CASE OnConnectionCloseDangling(v)
    BY <1>13 DEF TypeOK, OnConnectionCloseDangling, Goes, Joining, pushVars
  <1>14. QED
    BY <1>1, <1>2, <1>3, <1>4, <1>5, <1>6, <1>7, <1>8, <1>9, <1>10, <1>11, <1>12, <1>13

LEMMA RestTypes == ASSUME TypeOK, DataRace \/ UNCHANGED vars PROVE TypeOK'
  BY DEF TypeOK, DataRace, pushVars, pullVars, vars

LEMMA TypesStep == ASSUME TypeOK, [Next]_vars PROVE TypeOK'
  BY PushTypes, PullTypes, RestTypes DEF Next, Input, PushStep, PullStep, Done

-----------------------------------------------------------------------------
(* Rooms, and who lives *)

\* A room is on its path and has had its broadcaster since the shake hand; it
\* is never empty again, so whoever got into one has a path with a room.
RoomsInv ==
  /\ \A path \in Paths : rooms[path] # None =>
       PathOf[rooms[path]] = path /\ pusher[rooms[path]] # "shake hand"
  /\ \A p \in Pushers : pusher[p] \in {"bound", "live"} => rooms[PathOf[p]] # None
  /\ \A p \in Pushers : at[p] # 0 => pusher[p] = "live"
  /\ \A v \in Viewers : source[v] # None => rooms[PathOf[source[v]]] # None
  /\ \A v \in Viewers : viewer[v] \in {"watching", "erase"} => source[v] # None
  /\ \A v \in Viewers : viewer[v] = "new" => source[v] = None

RoomTypes ==
  /\ pusher \in [Pushers -> {"shake hand", "bound", "live", "closed"}]
  /\ rooms \in [Paths -> Pushers \cup {None}]
  /\ at \in [Pushers -> Viewers \cup {0}]
  /\ viewer \in [Viewers -> Joining \cup {"new", "watching", "erase", "gone"}]
  /\ source \in [Viewers -> Pushers \cup {None}]
  /\ \A p \in Pushers : PathOf[p] \in Paths /\ p # None
  /\ \A path \in Paths : rooms[path] # None => rooms[path] \in Pushers

LEMMA RoomTyping == TypeOK => RoomTypes
  BY PathsAssumption, NoneAssumption DEF TypeOK, RoomTypes

LEMMA PushRooms ==
  ASSUME TypeOK, RoomsInv, NEW p \in Pushers,
         \/ OnShakeHandSuccess(p) \/ SetNewMessageCallback(p) \/ FirstPacksWithoutAudio(p)
         \/ OnNewFlvTag(p) \/ AddFlvTag(p) \/ AddFlvTagDangling(p)
         \/ OnBodyDataDangling(p) \/ OnConnection(p)
  PROVE  RoomsInv'
  <1>1. CASE OnShakeHandSuccess(p)
    <2>1. /\ PathOf[p] \in Paths /\ p # None
          /\ rooms' = [rooms EXCEPT ![PathOf[p]] = p] /\ pusher' = [pusher EXCEPT ![p] = "bound"]
          /\ UNCHANGED <<at, source, viewer>> /\ pusher[p] = "shake hand"
      BY <1>1, PathsAssumption, NoneAssumption DEF OnShakeHandSuccess, pullVars
    <2>2. \A path \in Paths : rooms[path] # None => rooms[path] # p
      BY <2>1 DEF RoomsInv
    <2>3. \A path \in Paths : rooms'[path] # None =>
            PathOf[rooms'[path]] = path /\ pusher'[rooms'[path]] # "shake hand"
      BY <2>1, <2>2, RoomTyping DEF RoomTypes, RoomsInv
    <2>4. \A path \in Paths : rooms[path] # None => rooms'[path] # None
      BY <2>1 DEF TypeOK
    <2>5. \A q \in Pushers : pusher'[q] \in {"bound", "live"} => rooms'[PathOf[q]] # None
      BY <2>1, <2>4, PathsAssumption DEF TypeOK, RoomsInv
    <2>6. \A v \in Viewers : source[v] # None => rooms'[PathOf[source[v]]] # None
      <3> SUFFICES ASSUME NEW v \in Viewers, source[v] # None
                   PROVE  rooms'[PathOf[source[v]]] # None
        OBVIOUS
      <3>1. PathOf[source[v]] \in Paths
        BY RoomTyping DEF RoomTypes
      <3>2. rooms[PathOf[source[v]]] # None
        BY DEF RoomsInv
      <3>3. QED
        BY <2>4, <3>1, <3>2
    <2>7. \A q \in Pushers : at[q] # 0 => pusher'[q] = "live"
      BY <2>1, RoomTyping DEF RoomTypes, RoomsInv
    <2>8. QED
      BY <2>1, <2>3, <2>5, <2>6, <2>7 DEF RoomsInv
  <1>2. CASE SetNewMessageCallback(p)
    <2>1. /\ pusher' = [pusher EXCEPT ![p] = "live"] /\ pusher[p] = "bound"
          /\ UNCHANGED <<rooms, at, source, viewer>>
      BY <1>2 DEF SetNewMessageCallback, pullVars
    <2>2. QED
      BY <2>1, RoomTyping DEF RoomTypes, RoomsInv
  <1>3. CASE OnConnection(p)
    <2>1. /\ pusher' = [pusher EXCEPT ![p] = "closed"] /\ at[p] = 0
          /\ UNCHANGED <<rooms, at, source, viewer>>
      BY <1>3 DEF OnConnection, pullVars
    <2>2. QED
      BY <2>1, RoomTyping DEF RoomTypes, RoomsInv
  <1>4. CASE \/ FirstPacksWithoutAudio(p) \/ OnNewFlvTag(p) \/ AddFlvTag(p)
             \/ AddFlvTagDangling(p) \/ OnBodyDataDangling(p)
    <2>1. UNCHANGED <<pusher, rooms, source, viewer>>
      BY <1>4 DEF FirstPacksWithoutAudio, OnNewFlvTag, AddFlvTag, AddFlvTagDangling,
                  OnBodyDataDangling, pullVars, pushVars
    <2>2. \A q \in Pushers : at'[q] # 0 => at[q] # 0 \/ pusher[q] = "live"
      BY <1>4 DEF TypeOK, FirstPacksWithoutAudio, OnNewFlvTag, AddFlvTag, AddFlvTagDangling,
                  OnBodyDataDangling, pushVars
    <2>3. QED
      BY <2>1, <2>2 DEF RoomsInv
  <1>5. QED
    BY <1>1, <1>2, <1>3, <1>4

LEMMA PullRooms ==
  ASSUME TypeOK, RoomsInv, NEW v \in Viewers,
         \/ \E path \in Paths : OnClientMessage(v, path) \/ OnClientMessageFailed(v, path)
         \/ AddClientConnection(v) \/ HeaderThere(v) \/ TakeFirstPacks(v) \/ NoFirstPacks(v)
         \/ MakeFirstPart(v) \/ MakeSecondPart(v) \/ SendHeaderOnConnection(v)
         \/ SendInLoop(v) \/ OnClose(v) \/ OnConnectionClose(v) \/ OnConnectionCloseDangling(v)
  PROVE  RoomsInv'
  <1>1. UNCHANGED <<pusher, rooms, at>>
    BY DEF OnClientMessage, OnClientMessageFailed, AddClientConnection, HeaderThere,
           TakeFirstPacks, NoFirstPacks, MakeFirstPart, MakeSecondPart, SendHeaderOnConnection,
           SendInLoop, OnClose, OnConnectionClose, OnConnectionCloseDangling, pushVars
  <1>2. ASSUME NEW path \in Paths, OnClientMessage(v, path) PROVE RoomsInv'
    <2>1. rooms[path] \in Pushers /\ PathOf[rooms[path]] = path /\ rooms[path] # None
      <3>1. rooms[path] # None
        BY <1>2 DEF OnClientMessage
      <3>2. rooms[path] \in Pushers
        BY <3>1, RoomTyping DEF RoomTypes
      <3>3. QED
        BY <3>1, <3>2 DEF RoomsInv
    <2>2. /\ source' = [source EXCEPT ![v] = rooms[path]]
          /\ viewer' = [viewer EXCEPT ![v] = "insert"]
      BY <1>2 DEF OnClientMessage, Goes
    <2>3. QED
      BY <1>1, <2>1, <2>2, RoomTyping DEF RoomTypes, RoomsInv
  <1>3. ASSUME NEW path \in Paths, OnClientMessageFailed(v, path) PROVE RoomsInv'
    <2>1. viewer' = [viewer EXCEPT ![v] = "gone"] /\ source' = source
      BY <1>3 DEF OnClientMessageFailed, Goes
    <2>2. \A w \in Viewers : viewer'[w] = IF w = v THEN "gone" ELSE viewer[w]
      BY <2>1, RoomTyping DEF RoomTypes
    <2>3. \A w \in Viewers : /\ viewer'[w] \in {"watching", "erase"} => source[w] # None
                             /\ viewer'[w] = "new" => source[w] = None
      BY <2>2 DEF RoomsInv
    <2>4. QED
      BY <1>1, <2>1, <2>3 DEF RoomsInv
  <1>4. CASE \/ AddClientConnection(v) \/ HeaderThere(v) \/ TakeFirstPacks(v) \/ NoFirstPacks(v)
             \/ MakeFirstPart(v) \/ MakeSecondPart(v) \/ SendHeaderOnConnection(v)
             \/ SendInLoop(v) \/ OnClose(v) \/ OnConnectionClose(v) \/ OnConnectionCloseDangling(v)
    <2>1. /\ source' = source
          /\ \/ viewer' = viewer
             \/ \E to \in (Joining \ {"insert"}) \cup {"gone"} : viewer' = [viewer EXCEPT ![v] = to]
             \/ /\ viewer[v] \in Joining \cup {"watching"}
                /\ \E to \in {"watching", "erase"} : viewer' = [viewer EXCEPT ![v] = to]
      BY <1>4 DEF AddClientConnection, HeaderThere, TakeFirstPacks, NoFirstPacks,
                  MakeFirstPart, MakeSecondPart, SendHeaderOnConnection, SendInLoop, OnClose,
                  OnConnectionClose, OnConnectionCloseDangling, pullVars, Goes, Joining
    <2>2. viewer[v] \in Joining \cup {"watching"} => source[v] # None
      <3>1. viewer[v] \in Joining => source[v] \in Pushers
        BY DEF TypeOK
      <3>2. QED
        BY <3>1, NoneAssumption DEF RoomsInv
    <2>3. \A w \in Viewers : viewer'[w] = viewer[w] \/ w = v
      BY <2>1, RoomTyping DEF RoomTypes
    <2>4. viewer'[v] \in {"watching", "erase"} => source[v] # None
      BY <2>1, <2>2, RoomTyping DEF RoomTypes, RoomsInv, Joining
    <2>5. viewer'[v] = "new" => viewer[v] = "new"
      BY <2>1, RoomTyping DEF RoomTypes, Joining
    <2>6. \A w \in Viewers : /\ viewer'[w] \in {"watching", "erase"} => source[w] # None
                             /\ viewer'[w] = "new" => source[w] = None
      BY <2>3, <2>4, <2>5 DEF RoomsInv
    <2>7. QED
      BY <1>1, <2>1, <2>6 DEF RoomsInv
  <1>5. QED
    BY <1>2, <1>3, <1>4

LEMMA RestRooms == ASSUME RoomsInv, DataRace \/ UNCHANGED vars PROVE RoomsInv'
  BY DEF RoomsInv, DataRace, pushVars, pullVars, vars

LEMMA RoomsStep == ASSUME TypeOK, RoomsInv, [Next]_vars PROVE RoomsInv'
  BY PushRooms, PullRooms, RestRooms DEF Next, Input, PushStep, PullStep, Done

LEMMA InitRooms == Init => RoomsInv
  <1> SUFFICES ASSUME Init PROVE RoomsInv
    OBVIOUS
  <1>1. /\ \A path \in Paths : rooms[path] = None
        /\ \A p \in Pushers : pusher[p] = "shake hand" /\ at[p] = 0
        /\ \A v \in Viewers : source[v] = None /\ viewer[v] = "new"
    BY DEF Init
  <1>2. QED
    BY <1>1 DEF RoomsInv

\* What was destroyed is gone.
LEMMA AliveBefore ==
  ASSUME TypeOK, RoomsInv, [Next]_vars, NEW p \in Pushers, Alive(p)'
  PROVE  Alive(p)
  <1>1. CASE pusher'[p] \in {"shake hand", "bound"}
    <2>1. ASSUME NEW q \in Pushers,
                 \/ OnShakeHandSuccess(q) \/ SetNewMessageCallback(q) \/ FirstPacksWithoutAudio(q)
                 \/ OnNewFlvTag(q) \/ AddFlvTag(q) \/ AddFlvTagDangling(q)
                 \/ OnBodyDataDangling(q) \/ OnConnection(q)
          PROVE  pusher[p] \in {"shake hand", "bound"}
      BY <1>1, <2>1 DEF TypeOK, OnShakeHandSuccess, SetNewMessageCallback, FirstPacksWithoutAudio,
                        OnNewFlvTag, AddFlvTag, AddFlvTagDangling, OnBodyDataDangling,
                        OnConnection, pushVars
    <2>2. ASSUME NEW v \in Viewers,
                 \/ \E path \in Paths : OnClientMessage(v, path) \/ OnClientMessageFailed(v, path)
                 \/ OnClose(v) \/ PullStep(v)
          PROVE  pusher[p] \in {"shake hand", "bound"}
      BY <1>1, <2>2 DEF OnClientMessage, OnClientMessageFailed, AddClientConnection, HeaderThere,
           TakeFirstPacks, NoFirstPacks, MakeFirstPart, MakeSecondPart, SendHeaderOnConnection,
           SendInLoop, OnClose, OnConnectionClose, OnConnectionCloseDangling, pushVars, PullStep
    <2>3. ASSUME DataRace \/ UNCHANGED vars PROVE pusher[p] \in {"shake hand", "bound"}
      BY <1>1, <2>3 DEF DataRace, vars, pushVars
    <2>4. pusher[p] \in {"shake hand", "bound"}
      BY <2>1, <2>2, <2>3 DEF Next, Input, PushStep, Done
    <2>5. QED
      BY <2>4 DEF Alive
  <1>2. CASE rooms'[PathOf[p]] = p /\ ~Alive(p)
    <2>1. rooms[PathOf[p]] # p /\ pusher[p] # "shake hand"
      BY <1>2 DEF Alive
    <2>2. ASSUME NEW q \in Pushers, OnShakeHandSuccess(q) PROVE FALSE
      BY <1>2, <2>1, <2>2, PathsAssumption DEF OnShakeHandSuccess, TypeOK
    <2>3. rooms' = rooms
      BY <2>2 DEF Next, Input, PushStep, PullStep, Done, DataRace, vars, pushVars,
           SetNewMessageCallback, FirstPacksWithoutAudio, OnNewFlvTag, AddFlvTag,
           AddFlvTagDangling, OnBodyDataDangling, OnConnection,
           OnClientMessage, OnClientMessageFailed, AddClientConnection, HeaderThere,
           TakeFirstPacks, NoFirstPacks, MakeFirstPart, MakeSecondPart, SendHeaderOnConnection,
           SendInLoop, OnClose, OnConnectionClose, OnConnectionCloseDangling
    <2>4. QED
      BY <1>2, <2>1, <2>3
  <1>3. ASSUME NEW v \in Viewers, source'[v] = p, viewer'[v] \in Joining PROVE Alive(p)
    <2>1. CASE source[v] = p /\ viewer[v] \in Joining
      BY <2>1 DEF Alive
    <2>2. ASSUME NEW w \in Viewers, NEW path \in Paths, OnClientMessage(w, path)
          PROVE  (source[v] = p /\ viewer[v] \in Joining) \/ Alive(p)
      <3>1. CASE w = v
        <4>1. rooms[path] = p /\ PathOf[p] = path
          BY <1>3, <2>2, <3>1 DEF OnClientMessage, TypeOK, RoomsInv
        <4>2. QED
          BY <4>1 DEF Alive
      <3>2. CASE w # v
        BY <1>3, <2>2, <3>2 DEF OnClientMessage, TypeOK, Goes
      <3>3. QED
        BY <3>1, <3>2
    <2>3. ASSUME NEW w \in Viewers,
                 \/ \E path \in Paths : OnClientMessageFailed(w, path)
                 \/ OnClose(w) \/ PullStep(w)
          PROVE  source[v] = p /\ viewer[v] \in Joining
      <3>1. /\ source' = source
            /\ \/ viewer' = viewer
               \/ \E to : viewer' = [viewer EXCEPT ![w] = to] /\ (to \in Joining => viewer[w] \in Joining)
        BY <2>3 DEF OnClientMessageFailed, AddClientConnection, HeaderThere,
           TakeFirstPacks, NoFirstPacks, MakeFirstPart, MakeSecondPart, SendHeaderOnConnection,
           SendInLoop, OnClose, OnConnectionClose, OnConnectionCloseDangling, pullVars, PullStep,
           Goes, Joining
      <3>2. QED
        BY <1>3, <3>1 DEF TypeOK
    <2>4. ASSUME \/ \E q \in Pushers :
                    \/ OnShakeHandSuccess(q) \/ SetNewMessageCallback(q) \/ FirstPacksWithoutAudio(q)
                    \/ OnNewFlvTag(q) \/ AddFlvTag(q) \/ AddFlvTagDangling(q)
                    \/ OnBodyDataDangling(q) \/ OnConnection(q)
                 \/ DataRace \/ UNCHANGED vars
          PROVE  source[v] = p /\ viewer[v] \in Joining
      BY <1>3, <2>4 DEF OnShakeHandSuccess, SetNewMessageCallback, FirstPacksWithoutAudio,
                        OnNewFlvTag, AddFlvTag, AddFlvTagDangling, OnBodyDataDangling,
                        OnConnection, DataRace, pullVars, vars
    <2>5. QED
      BY <2>1, <2>2, <2>3, <2>4 DEF Next, Input, PushStep, Done
  <1>4. QED
    BY <1>1, <1>2, <1>3 DEF Alive

-----------------------------------------------------------------------------
(* The map of the viewers, and what dangles *)

Held == (Joining \ {"insert"}) \cup {"watching", "erase"}
Watching(p) == {v \in Viewers : source[v] = p /\ viewer[v] \in Held}

LEMMA MapMeaning ==
  MapHoldsViewers <=> \A p \in Pushers : Alive(p) => clients[p] = Watching(p)
  BY DEF MapHoldsViewers, Watching, Held

\* The steps that leave the map alone and take nobody in or out.
LEMMA MapUnchanged ==
  ASSUME TypeOK, RoomsInv, MapHoldsViewers, [Next]_vars, UNCHANGED <<clients, source>>,
         \A v \in Viewers : viewer'[v] \in Held <=> viewer[v] \in Held
  PROVE  MapHoldsViewers'
  <1>1. ASSUME NEW p \in Pushers, Alive(p)' PROVE clients'[p] = Watching(p)'
    <2>1. clients[p] = Watching(p)
      BY <1>1, AliveBefore, MapMeaning
    <2>2. QED
      BY <2>1 DEF Watching
  <1>2. QED
    BY <1>1, MapMeaning DEF MapHoldsViewers, Watching, Held

LEMMA MapStep ==
  ASSUME TypeOK, RoomsInv, MapHoldsViewers, [Next]_vars
  PROVE  MapHoldsViewers'
  <1> DEFINE Rest == \A p \in Pushers : Alive(p)' => clients'[p] = Watching(p)'
  <1>1. Rest => MapHoldsViewers'
    BY DEF MapHoldsViewers, Watching, Held
  <1>2. viewer \in [Viewers -> Joining \cup {"new", "watching", "erase", "gone"}]
    BY DEF TypeOK
  <1>3. CASE \/ DataRace \/ UNCHANGED vars
             \/ \E p \in Pushers :
                  \/ OnShakeHandSuccess(p) \/ SetNewMessageCallback(p) \/ FirstPacksWithoutAudio(p)
                  \/ OnNewFlvTag(p) \/ AddFlvTag(p) \/ AddFlvTagDangling(p)
                  \/ OnBodyDataDangling(p) \/ OnConnection(p)
             \/ \E v \in Viewers : NoFirstPacks(v) \/ SendInLoop(v)
    <2>1. UNCHANGED <<clients, source, viewer>>
      BY <1>3 DEF DataRace, vars, pullVars, OnShakeHandSuccess, SetNewMessageCallback,
         FirstPacksWithoutAudio, OnNewFlvTag, AddFlvTag, AddFlvTagDangling, OnBodyDataDangling,
         OnConnection, NoFirstPacks, SendInLoop
    <2>2. QED
      BY <2>1, MapUnchanged
  <1>4. CASE \E v \in Viewers :
               \/ HeaderThere(v) \/ TakeFirstPacks(v) \/ MakeFirstPart(v) \/ MakeSecondPart(v)
               \/ SendHeaderOnConnection(v) \/ OnClose(v)
               \/ \E path \in Paths : OnClientMessageFailed(v, path)
    <2>1. /\ UNCHANGED <<clients, source>>
          /\ \E v \in Viewers, to \in Held \cup {"gone"} :
               /\ viewer' = [viewer EXCEPT ![v] = to]
               /\ to \in Held <=> viewer[v] \in Held
      <3>1. Held = {"check", "first part", "second part", "send", "watching", "erase"}
        BY DEF Held, Joining
      <3>2. PICK v \in Viewers :
              \/ HeaderThere(v) \/ TakeFirstPacks(v) \/ MakeFirstPart(v) \/ MakeSecondPart(v)
              \/ SendHeaderOnConnection(v) \/ OnClose(v)
              \/ \E path \in Paths : OnClientMessageFailed(v, path)
        BY <1>4
      <3>3. UNCHANGED <<clients, source>>
        BY <3>2 DEF HeaderThere, TakeFirstPacks, MakeFirstPart, MakeSecondPart,
           SendHeaderOnConnection, OnClose, OnClientMessageFailed
      <3>4. \E to : /\ viewer' = [viewer EXCEPT ![v] = to]
                    /\ \/ to \in Held /\ viewer[v] \in Held
                       \/ to = "gone" /\ viewer[v] = "new"
        BY <3>1, <3>2 DEF HeaderThere, TakeFirstPacks, MakeFirstPart, MakeSecondPart,
           SendHeaderOnConnection, OnClose, OnClientMessageFailed, Goes
      <3>5. QED
        BY <3>1, <3>3, <3>4
    <2>2. \A v \in Viewers : viewer'[v] \in Held <=> viewer[v] \in Held
      BY <1>2, <2>1
    <2>3. QED
      BY <2>1, <2>2, MapUnchanged
  <1>5. ASSUME NEW v \in Viewers, NEW path \in Paths, OnClientMessage(v, path) PROVE Rest
    <2>1. TAKE p \in Pushers
    <2>2. HAVE Alive(p)'
    <2>3. clients[p] = Watching(p)
      BY <2>2, AliveBefore, MapMeaning
    <2>4. /\ clients' = clients /\ viewer' = [viewer EXCEPT ![v] = "insert"] /\ viewer[v] = "new"
          /\ \A w \in Viewers \ {v} : source'[w] = source[w]
      BY <1>5 DEF OnClientMessage, Goes, TypeOK
    <2>5. QED
      BY <1>2, <2>3, <2>4 DEF Watching, Held, Joining
  <1>6. ASSUME NEW v \in Viewers, AddClientConnection(v) PROVE Rest
    <2>1. TAKE p \in Pushers
    <2>2. HAVE Alive(p)'
    <2>3. clients[p] = Watching(p)
      BY <2>2, AliveBefore, MapMeaning
    <2>4. /\ viewer[v] = "insert" /\ viewer' = [viewer EXCEPT ![v] = "check"] /\ source' = source
          /\ clients' = [clients EXCEPT ![source[v]] = @ \cup {v}]
      BY <1>6 DEF AddClientConnection, Goes
    <2>5. clients'[p] = IF source[v] = p THEN clients[p] \cup {v} ELSE clients[p]
      BY <2>4 DEF TypeOK
    <2>6. "check" \in Held /\ "insert" \notin Held
      BY DEF Held, Joining
    <2>7. \A w \in Viewers : viewer'[w] = IF w = v THEN "check" ELSE viewer[w]
      BY <1>2, <2>4
    <2>8. QED
      BY <2>3, <2>4, <2>5, <2>6, <2>7 DEF Watching
  <1>7. ASSUME NEW v \in Viewers, OnConnectionClose(v) PROVE Rest
    <2>1. TAKE p \in Pushers
    <2>2. HAVE Alive(p)'
    <2>3. clients[p] = Watching(p)
      BY <2>2, AliveBefore, MapMeaning
    <2>4. /\ viewer' = [viewer EXCEPT ![v] = "gone"] /\ source' = source
          /\ clients' = [clients EXCEPT ![source[v]] = @ \ {v}]
      BY <1>7 DEF OnConnectionClose, Goes
    <2>5. clients'[p] = IF source[v] = p THEN clients[p] \ {v} ELSE clients[p]
      BY <2>4 DEF TypeOK
    <2>6. "gone" \notin Held
      BY DEF Held, Joining
    <2>7. \A w \in Viewers : viewer'[w] = IF w = v THEN "gone" ELSE viewer[w]
      BY <1>2, <2>4
    <2>8. QED
      BY <2>3, <2>4, <2>5, <2>6, <2>7 DEF Watching
  <1>8. ASSUME NEW v \in Viewers, OnConnectionCloseDangling(v) PROVE Rest
    <2>1. TAKE p \in Pushers
    <2>2. HAVE Alive(p)'
    <2>3. Alive(p) /\ clients[p] = Watching(p)
      BY <2>2, AliveBefore, MapMeaning
    <2>4. /\ viewer' = [viewer EXCEPT ![v] = "gone"] /\ source' = source /\ clients' = clients
          /\ source[v] # p
      BY <1>8, <2>3 DEF OnConnectionCloseDangling, Goes
    <2>5. QED
      BY <1>2, <2>3, <2>4 DEF Watching
  <1>9. QED
    BY <1>1, <1>3, <1>4, <1>5, <1>6, <1>7, <1>8 DEF Next, Input, PushStep, PullStep, Done

LEMMA InitMap == Init => MapHoldsViewers
  <1> SUFFICES ASSUME Init PROVE \A p \in Pushers : clients[p] = Watching(p)
    BY MapMeaning
  <1>1. \A p \in Pushers : clients[p] = {}
    BY DEF Init
  <1>2. \A v \in Viewers : viewer[v] = "new"
    BY DEF Init
  <1>3. QED
    BY <1>1, <1>2 DEF Watching, Held, Joining

LEMMA DangleStep ==
  ASSUME TypeOK, RoomsInv, OnlyReplacedDangles, [Next]_vars
  PROVE  OnlyReplacedDangles'
  <1>1. CASE \E p \in Pushers : AddFlvTagDangling(p) \/ OnBodyDataDangling(p)
    <2>1. PICK p \in Pushers : AddFlvTagDangling(p) \/ OnBodyDataDangling(p)
      BY <1>1
    <2>2. UNCHANGED <<pusher, rooms>>
      BY <2>1 DEF AddFlvTagDangling, OnBodyDataDangling, pushVars
    <2>3. crashed' = "dangling" => ~Alive(p) /\ pusher[p] = "live"
      BY <2>1 DEF AddFlvTagDangling, OnBodyDataDangling, RoomsInv, None
    <2>4. ~Alive(p) /\ pusher[p] = "live" => rooms[PathOf[p]] \notin {p, None}
      BY DEF Alive, RoomsInv
    <2>5. QED
      BY <2>2, <2>3, <2>4 DEF OnlyReplacedDangles
  <1>2. CASE \E v \in Viewers : OnConnectionCloseDangling(v)
    <2>1. PICK v \in Viewers : OnConnectionCloseDangling(v)
      BY <1>2
    <2>2. UNCHANGED <<pusher, rooms>>
      BY <2>1 DEF OnConnectionCloseDangling, pushVars
    <2>3. ~Alive(source[v]) /\ source[v] # None
      BY <2>1 DEF OnConnectionCloseDangling, RoomsInv
    <2>4. source[v] \in Pushers /\ pusher[source[v]] \in {"live", "closed"}
      BY <2>3 DEF TypeOK, Alive
    <2>5. rooms[PathOf[source[v]]] \notin {source[v], None}
      BY <2>3 DEF Alive, RoomsInv
    <2>6. QED
      BY <2>2, <2>4, <2>5 DEF OnlyReplacedDangles
  <1>3. ASSUME crashed' # "dangling" PROVE OnlyReplacedDangles'
    BY <1>3 DEF OnlyReplacedDangles
  <1>4. CASE UNCHANGED vars
    BY <1>4 DEF OnlyReplacedDangles, vars, pushVars
  <1>5. ASSUME Next, ~Done, crashed' = "dangling"
        PROVE  \/ \E p \in Pushers : AddFlvTagDangling(p) \/ OnBodyDataDangling(p)
               \/ \E v \in Viewers : OnConnectionCloseDangling(v)
    BY <1>5 DEF Next, Input, PushStep, PullStep, DataRace, Runs, None, pushVars, pullVars,
           OnShakeHandSuccess, SetNewMessageCallback, FirstPacksWithoutAudio, OnNewFlvTag,
           AddFlvTag, OnConnection, OnClientMessage, OnClientMessageFailed,
           AddClientConnection, HeaderThere, TakeFirstPacks, NoFirstPacks, MakeFirstPart,
           MakeSecondPart, SendHeaderOnConnection, SendInLoop, OnClose, OnConnectionClose
  <1>6. QED
    BY <1>1, <1>2, <1>3, <1>4, <1>5 DEF Done

-----------------------------------------------------------------------------
(* What a viewer is sent first *)

\* Nothing is sent before the header, and nothing at all after the close: that is
\* why a tag handed over early cannot come before it.
SentInv ==
  /\ HeaderFirst
  /\ \A v \in Viewers : viewer[v] \in Joining \cup {"new"} => out[v] = <<>>
  /\ \A v \in Viewers : viewer[v] = "watching" => out[v] # <<>>
  /\ \A v \in Viewers : viewer[v] \in {"erase", "gone"} => ~up[v]

LEMMA SentUnchanged ==
  ASSUME TypeOK, SentInv, NEW v \in Viewers, UNCHANGED out,
         up' = up \/ up' = [up EXCEPT ![v] = FALSE],
         \/ viewer' = viewer
         \/ \E to \in Joining : viewer[v] \in Joining \cup {"new"} /\ viewer' = [viewer EXCEPT ![v] = to]
         \/ \E to \in {"erase", "gone"} : ~up'[v] /\ viewer' = [viewer EXCEPT ![v] = to]
  PROVE  SentInv'
  <1>1. /\ viewer \in [Viewers -> Joining \cup {"new", "watching", "erase", "gone"}]
        /\ up \in [Viewers -> BOOLEAN]
    BY DEF TypeOK
  <1>2. HeaderFirst'
    BY DEF SentInv, HeaderFirst
  <1>3. \A w \in Viewers : up'[w] => up[w]
    BY <1>1
  <1>4. \A w \in Viewers : /\ viewer'[w] \in Joining \cup {"new"} => out'[w] = <<>>
                           /\ viewer'[w] = "watching" => out'[w] # <<>>
                           /\ viewer'[w] \in {"erase", "gone"} => ~up'[w]
    BY <1>1, <1>3 DEF SentInv, Joining
  <1>5. QED
    BY <1>2, <1>4 DEF SentInv

LEMMA SentStep == ASSUME TypeOK, SentInv, [Next]_vars PROVE SentInv'
  <1>1. CASE \/ DataRace \/ UNCHANGED vars
             \/ \E p \in Pushers :
                  \/ OnShakeHandSuccess(p) \/ SetNewMessageCallback(p) \/ FirstPacksWithoutAudio(p)
                  \/ OnNewFlvTag(p) \/ AddFlvTag(p) \/ AddFlvTagDangling(p)
                  \/ OnBodyDataDangling(p) \/ OnConnection(p)
             \/ \E v \in Viewers : NoFirstPacks(v)
    <2>1. UNCHANGED <<out, up, viewer>>
      BY <1>1 DEF DataRace, vars, pullVars, OnShakeHandSuccess, SetNewMessageCallback,
         FirstPacksWithoutAudio, OnNewFlvTag, AddFlvTag, AddFlvTagDangling, OnBodyDataDangling,
         OnConnection, NoFirstPacks
    <2>2. QED
      BY <2>1 DEF SentInv, HeaderFirst
  <1>2. ASSUME NEW v \in Viewers,
               \/ \E path \in Paths : OnClientMessage(v, path) \/ OnClientMessageFailed(v, path)
               \/ AddClientConnection(v) \/ HeaderThere(v) \/ TakeFirstPacks(v)
               \/ MakeFirstPart(v) \/ MakeSecondPart(v) \/ OnClose(v)
        PROVE  SentInv'
    <2>1. UNCHANGED out
      BY <1>2 DEF OnClientMessage, OnClientMessageFailed, AddClientConnection, HeaderThere,
         TakeFirstPacks, MakeFirstPart, MakeSecondPart, OnClose
    <2>2. \/ up' = up /\ \E to \in Joining : /\ viewer[v] \in Joining \cup {"new"}
                                             /\ viewer' = [viewer EXCEPT ![v] = to]
          \/ /\ up' = [up EXCEPT ![v] = FALSE]
             /\ \E to \in {"erase", "gone"} : viewer' = [viewer EXCEPT ![v] = to]
      BY <1>2 DEF OnClientMessage, OnClientMessageFailed, AddClientConnection, HeaderThere,
         TakeFirstPacks, MakeFirstPart, MakeSecondPart, OnClose, Goes, Joining
    <2>3. up' = [up EXCEPT ![v] = FALSE] => ~up'[v]
      BY DEF TypeOK
    <2>4. QED
      BY <2>1, <2>2, <2>3, SentUnchanged
  <1>3. ASSUME NEW v \in Viewers, OnConnectionClose(v) \/ OnConnectionCloseDangling(v)
        PROVE  SentInv'
    <2>1. /\ UNCHANGED <<out, up>> /\ viewer[v] = "erase"
          /\ viewer' = [viewer EXCEPT ![v] = "gone"]
      BY <1>3 DEF OnConnectionClose, OnConnectionCloseDangling, Goes
    <2>2. ~up'[v]
      BY <2>1 DEF SentInv
    <2>3. QED
      BY <2>1, <2>2, SentUnchanged
  <1>4. ASSUME NEW v \in Viewers, SendHeaderOnConnection(v) PROVE SentInv'
    <2> DEFINE item == Header(header[source[v]])
    <2>1. /\ out[v] = <<>> /\ item.kind = "header"
          /\ viewer' = [viewer EXCEPT ![v] = "watching"] /\ up' = up
          /\ out' = [out EXCEPT ![v] = Append(@, item)]
      BY <1>4 DEF SendHeaderOnConnection, SentInv, Joining, Goes, Header
    <2> HIDE DEF item
    <2>2. out'[v] = <<item>> /\ \A w \in Viewers \ {v} : out'[w] = out[w]
      <3>1. /\ out'[v] = Append(out[v], item)
            /\ \A w \in Viewers \ {v} : out'[w] = out[w]
        BY <2>1 DEF TypeOK
      <3>2. Append(<<>>, item) = <<item>>
        OBVIOUS
      <3>3. QED
        BY <2>1, <3>1, <3>2
    <2>3. HeaderFirst'
      <3>1. \A i \in DOMAIN out'[v] : out'[v][i].kind = "header" <=> i = 1
        BY <2>1, <2>2
      <3>2. \A w \in Viewers \ {v} : \A i \in DOMAIN out'[w] : out'[w][i].kind = "header" <=> i = 1
        BY <2>2 DEF SentInv, HeaderFirst
      <3>3. QED
        BY <3>1, <3>2 DEF HeaderFirst
    <2>4. \A w \in Viewers : viewer'[w] = IF w = v THEN "watching" ELSE viewer[w]
      BY <2>1 DEF TypeOK
    <2>5. out'[v] # <<>>
      <3>1. Len(<<item>>) = 1 /\ Len(<<>>) = 0
        OBVIOUS
      <3>2. QED
        BY <2>2, <3>1
    <2>6. \A w \in Viewers : /\ viewer'[w] \in Joining \cup {"new"} => out'[w] = <<>>
                             /\ viewer'[w] = "watching" => out'[w] # <<>>
                             /\ viewer'[w] \in {"erase", "gone"} => ~up'[w]
      <3>1. TAKE w \in Viewers
      <3>2. CASE w = v
        BY <2>4, <2>5, <3>2 DEF Joining
      <3>3. CASE w # v
        BY <2>1, <2>2, <2>4, <3>3 DEF SentInv
      <3>4. QED
        BY <3>2, <3>3
    <2>7. QED
      BY <2>3, <2>6 DEF SentInv
  <1>5. ASSUME NEW v \in Viewers, SendInLoop(v) PROVE SentInv'
    <2>1. CASE ~up[v]
      <3>1. UNCHANGED <<out, up, viewer>>
        BY <1>5, <2>1 DEF SendInLoop, pullVars
      <3>2. QED
        BY <3>1 DEF SentInv, HeaderFirst
    <2>2. CASE up[v]
      <3> DEFINE item == Head(queued[v])
      <3>1. /\ viewer[v] = "watching" /\ out[v] # <<>> /\ UNCHANGED <<up, viewer>>
            /\ out' = [out EXCEPT ![v] = Append(@, item)]
            /\ item \in Tags
        <4>1. /\ viewer[v] = "watching" /\ out[v] # <<>> /\ UNCHANGED <<up, viewer>>
              /\ out' = [out EXCEPT ![v] = Append(@, item)] /\ queued[v] # <<>>
          BY <1>5, <2>2 DEF SendInLoop, SentInv, pullVars
        <4>2. queued[v] \in Seq(Tags)
          BY DEF TypeOK
        <4>3. QED
          BY <4>1, <4>2, HeadTailProperties
      <3> HIDE DEF item
      <3>2. item.kind # "header" /\ out[v] \in Seq(Tags \cup Headers)
        BY <3>1 DEF Tags, TypeOK
      <3>3. /\ out'[v] = Append(out[v], item)
            /\ \A w \in Viewers \ {v} : out'[w] = out[w]
        BY <3>1 DEF TypeOK
      <3>4. \A i \in DOMAIN out'[v] : out'[v][i].kind = "header" <=> i = 1
        <4>1. Len(out[v]) \in Nat /\ Len(out[v]) # 0 /\ DOMAIN out[v] = 1 .. Len(out[v])
          BY <3>1, <3>2, LenProperties, EmptySeq
        <4>2. /\ DOMAIN out'[v] = 1 .. Len(out[v]) + 1
              /\ \A i \in 1 .. Len(out[v]) : out'[v][i] = out[v][i]
              /\ out'[v][Len(out[v]) + 1] = item
          BY <3>1, <3>2, <3>3, <4>1
        <4>3. \A i \in 1 .. Len(out[v]) : out[v][i].kind = "header" <=> i = 1
          BY <4>1 DEF SentInv, HeaderFirst
        <4>4. QED
          BY <3>2, <4>1, <4>2, <4>3
      <3>5. HeaderFirst'
        <4>1. ASSUME NEW w \in Viewers
              PROVE  \A i \in DOMAIN out'[w] : out'[w][i].kind = "header" <=> i = 1
          <5>1. CASE w = v
            BY <3>4, <5>1
          <5>2. CASE w # v
            <6>1. out'[w] = out[w]
              BY <3>3, <5>2
            <6>2. QED
              BY <6>1 DEF SentInv, HeaderFirst
          <5>3. QED
            BY <5>1, <5>2
        <4>2. QED
          BY <4>1 DEF HeaderFirst
      <3>6. out'[v] # <<>>
        <4>1. Len(out[v]) \in Nat /\ Len(out'[v]) = Len(out[v]) + 1
          BY <3>2, <3>3, <3>1
        <4>2. Len(<<>>) = 0
          OBVIOUS
        <4>3. QED
          BY <4>1, <4>2
      <3>7. QED
        BY <3>1, <3>3, <3>5, <3>6 DEF SentInv, Joining
    <2>3. QED
      BY <2>1, <2>2
  <1>6. QED
    BY <1>1, <1>2, <1>3, <1>4, <1>5 DEF Next, Input, PushStep, PullStep, Done

LEMMA InitSent == Init => SentInv
  <1> SUFFICES ASSUME Init PROVE SentInv
    OBVIOUS
  <1>1. \A v \in Viewers : out[v] = <<>> /\ viewer[v] = "new"
    BY DEF Init
  <1>2. HeaderFirst
    BY <1>1 DEF HeaderFirst
  <1>3. QED
    BY <1>1, <1>2 DEF SentInv

-----------------------------------------------------------------------------
(* The header *)

Alone(v) == packs[v] # "none" /\ \A w \in Viewers : source[w] = source[v] /\ packs[w] # "none" => w = v

\* How far the one that makes the header has come.
Part(v) ==
  IF viewer[v] = "first part" THEN <<>>
  ELSE IF viewer[v] = "second part" THEN <<"script">>
  ELSE IF packs[v] = "all" THEN <<"script", "video", "audio">> ELSE <<"script", "video">>

MakerInv ==
  /\ \A v \in Viewers : packs[v] # "none" =>
       source[v] # None /\ viewer[v] \notin {"new", "insert", "check"}
  /\ \A v \in Viewers : viewer[v] \in {"first part", "second part"} => packs[v] # "none"
  /\ \A v \in Viewers : Alone(v) => header[source[v]] = Part(v)

MakerTypes ==
  /\ viewer \in [Viewers -> Joining \cup {"new", "watching", "erase", "gone"}]
  /\ source \in [Viewers -> Pushers \cup {None}]
  /\ packs \in [Viewers -> {"none", "no audio", "all"}]

Makes == {"first part", "second part"}

\* The steps that make nothing.
LEMMA MakerUnchanged ==
  ASSUME TypeOK, MakerInv, NEW v \in Viewers, UNCHANGED <<packs, header>>,
         source' = source \/ (packs[v] = "none" /\ \E x : source' = [source EXCEPT ![v] = x]),
         \/ viewer' = viewer
         \/ \E to : /\ viewer' = [viewer EXCEPT ![v] = to]
                    /\ viewer[v] \notin Makes /\ to \notin Makes
                    /\ to \in {"new", "insert", "check"} => viewer[v] \in {"new", "insert", "check"}
  PROVE  MakerInv'
  <1>1. MakerTypes
    BY DEF TypeOK, MakerTypes
  <1>2. \A w \in Viewers : packs[w] # "none" => source'[w] = source[w]
    BY <1>1 DEF MakerTypes
  <1>3. \A w \in Viewers : /\ viewer'[w] = "first part" <=> viewer[w] = "first part"
                           /\ viewer'[w] = "second part" <=> viewer[w] = "second part"
                           /\ viewer'[w] \in {"new", "insert", "check"} =>
                                viewer[w] \in {"new", "insert", "check"}
    <2>1. CASE viewer' = viewer
      BY <2>1
    <2>2. CASE viewer' # viewer
      <3>1. PICK to : /\ viewer' = [viewer EXCEPT ![v] = to]
                      /\ viewer[v] \notin Makes /\ to \notin Makes
                      /\ to \in {"new", "insert", "check"} =>
                           viewer[v] \in {"new", "insert", "check"}
        BY <2>2
      <3>2. \A x \in {viewer[v], to} : x # "first part" /\ x # "second part"
        BY <3>1 DEF Makes
      <3>3. \A w \in Viewers : viewer'[w] = IF w = v THEN to ELSE viewer[w]
        BY <1>1, <3>1 DEF MakerTypes
      <3>4. QED
        BY <3>1, <3>2, <3>3
    <2>3. QED
      BY <2>1, <2>2
  <1>4. \A w \in Viewers : Alone(w)' => Alone(w)
    BY <1>2 DEF Alone
  <1>5. \A w \in Viewers : Part(w)' = Part(w)
    BY <1>3 DEF Part
  <1>6. \A w \in Viewers : Alone(w)' => header'[source'[w]] = Part(w)'
    BY <1>2, <1>4, <1>5 DEF MakerInv, Alone
  <1>7. ASSUME NEW w \in Viewers, packs'[w] # "none"
        PROVE  source'[w] # None /\ viewer'[w] \notin {"new", "insert", "check"}
    <2>1. packs[w] # "none"
      BY <1>7
    <2>2. source[w] # None /\ viewer[w] \notin {"new", "insert", "check"}
      BY <2>1 DEF MakerInv
    <2>3. QED
      BY <1>2, <1>3, <2>1, <2>2
  <1>8. \A w \in Viewers : viewer'[w] \in {"first part", "second part"} => packs'[w] # "none"
    BY <1>3 DEF MakerInv
  <1>9. QED
    BY <1>6, <1>7, <1>8 DEF MakerInv

LEMMA BothParts ==
  /\ <<"script">> \o <<"video", "audio">> = <<"script", "video", "audio">>
  /\ <<"script">> \o <<"video">> = <<"script", "video">>
  <1>1. /\ <<"script">> \in Seq(Parts) /\ <<"video">> \in Seq(Parts)
        /\ <<"video", "audio">> \in Seq(Parts)
    BY DEF Parts
  <1>2. /\ <<"script", "video", "audio">> \in Seq(Parts) /\ <<"script", "video">> \in Seq(Parts)
    BY DEF Parts
  <1>3. <<"script">> \o <<"video", "audio">> = <<"script", "video", "audio">>
    <2> DEFINE s == <<"script">> \o <<"video", "audio">>
               t == <<"script", "video", "audio">>
    <2>1. /\ s \in Seq(Parts) /\ Len(s) = 3
          /\ s[1] = "script" /\ s[2] = "video" /\ s[3] = "audio"
      BY <1>1, ConcatProperties
    <2>2. /\ t \in Seq(Parts) /\ Len(t) = 3
          /\ t[1] = "script" /\ t[2] = "video" /\ t[3] = "audio"
      BY <1>2
    <2> HIDE DEF s, t
    <2>3. \A i \in 1 .. Len(s) : s[i] = t[i]
      BY <2>1, <2>2
    <2>4. s = t
      BY <2>1, <2>2, <2>3, SeqEqual
    <2>5. QED
      BY <2>4 DEF s, t
  <1>4. <<"script">> \o <<"video">> = <<"script", "video">>
    <2> DEFINE s == <<"script">> \o <<"video">>
               t == <<"script", "video">>
    <2>1. s \in Seq(Parts) /\ Len(s) = 2 /\ s[1] = "script" /\ s[2] = "video"
      BY <1>1, ConcatProperties
    <2>2. t \in Seq(Parts) /\ Len(t) = 2 /\ t[1] = "script" /\ t[2] = "video"
      BY <1>2
    <2> HIDE DEF s, t
    <2>3. \A i \in 1 .. Len(s) : s[i] = t[i]
      BY <2>1, <2>2
    <2>4. s = t
      BY <2>1, <2>2, <2>3, SeqEqual
    <2>5. QED
      BY <2>4 DEF s, t
  <1>5. QED
    BY <1>3, <1>4

LEMMA MakerStep == ASSUME TypeOK, MakerInv, [Next]_vars PROVE MakerInv'
  <1>1. CASE \/ DataRace \/ UNCHANGED vars
             \/ \E p \in Pushers :
                  \/ OnShakeHandSuccess(p) \/ SetNewMessageCallback(p) \/ FirstPacksWithoutAudio(p)
                  \/ OnNewFlvTag(p) \/ AddFlvTag(p) \/ AddFlvTagDangling(p)
                  \/ OnBodyDataDangling(p) \/ OnConnection(p)
             \/ \E v \in Viewers : NoFirstPacks(v) \/ SendInLoop(v)
    <2>1. UNCHANGED <<packs, header, source, viewer>>
      BY <1>1 DEF DataRace, vars, pullVars, OnShakeHandSuccess, SetNewMessageCallback,
         FirstPacksWithoutAudio, OnNewFlvTag, AddFlvTag, AddFlvTagDangling, OnBodyDataDangling,
         OnConnection, NoFirstPacks, SendInLoop
    <2>2. QED
      BY <2>1 DEF MakerInv, Alone, Part
  <1>2. ASSUME NEW v \in Viewers,
               \/ \E path \in Paths : OnClientMessage(v, path) \/ OnClientMessageFailed(v, path)
               \/ AddClientConnection(v) \/ HeaderThere(v) \/ SendHeaderOnConnection(v)
               \/ OnClose(v) \/ OnConnectionClose(v) \/ OnConnectionCloseDangling(v)
        PROVE  MakerInv'
    <2>1. UNCHANGED <<packs, header>>
      BY <1>2 DEF OnClientMessage, OnClientMessageFailed, AddClientConnection, HeaderThere,
         SendHeaderOnConnection, OnClose, OnConnectionClose, OnConnectionCloseDangling
    <2>2. source' = source \/ (packs[v] = "none" /\ \E x : source' = [source EXCEPT ![v] = x])
      <3>1. CASE \E path \in Paths : OnClientMessage(v, path)
        <4>1. \E path \in Paths : source' = [source EXCEPT ![v] = rooms[path]]
          BY <3>1 DEF OnClientMessage
        <4>2. viewer[v] = "new"
          BY <3>1 DEF OnClientMessage
        <4>3. packs[v] = "none"
          BY <4>2 DEF MakerInv
        <4>4. QED
          BY <4>1, <4>3
      <3>2. CASE \/ \E path \in Paths : OnClientMessageFailed(v, path)
                 \/ AddClientConnection(v) \/ HeaderThere(v) \/ SendHeaderOnConnection(v)
                 \/ OnClose(v) \/ OnConnectionClose(v) \/ OnConnectionCloseDangling(v)
        BY <3>2 DEF OnClientMessageFailed, AddClientConnection, HeaderThere,
           SendHeaderOnConnection, OnClose, OnConnectionClose, OnConnectionCloseDangling
      <3>3. QED
        BY <1>2, <3>1, <3>2
    <2>3. \E to : /\ viewer' = [viewer EXCEPT ![v] = to]
                  /\ viewer[v] \notin Makes /\ to \notin Makes
                  /\ to \in {"new", "insert", "check"} => viewer[v] \in {"new", "insert", "check"}
      <3>1. CASE \E path \in Paths : OnClientMessage(v, path) \/ OnClientMessageFailed(v, path)
        <4>1. /\ viewer[v] = "new"
              /\ \/ viewer' = [viewer EXCEPT ![v] = "insert"]
                 \/ viewer' = [viewer EXCEPT ![v] = "gone"]
          BY <3>1, Zenon DEF OnClientMessage, OnClientMessageFailed, Goes
        <4>2. QED
          BY <4>1 DEF Makes
      <3>2. CASE AddClientConnection(v) \/ HeaderThere(v) \/ SendHeaderOnConnection(v)
        BY <3>2 DEF AddClientConnection, HeaderThere, SendHeaderOnConnection, Goes, Makes
      <3>3. CASE OnClose(v) \/ OnConnectionClose(v) \/ OnConnectionCloseDangling(v)
        BY <3>3 DEF OnClose, OnConnectionClose, OnConnectionCloseDangling, Goes, Makes
      <3>4. QED
        BY <1>2, <3>1, <3>2, <3>3
    <2>4. QED
      BY <2>1, <2>2, <2>3, MakerUnchanged
  <1>3. ASSUME NEW v \in Viewers, TakeFirstPacks(v) PROVE MakerInv'
    <2>1. /\ source[v] # None /\ source[v] \in Pushers /\ packs[v] = "none"
          /\ first[source[v]] # "none"
          /\ viewer' = [viewer EXCEPT ![v] = "first part"] /\ UNCHANGED <<source, header>>
          /\ packs' = [packs EXCEPT ![v] = first[source[v]]]
          /\ header[source[v]] = <<>>
      <3>1. source[v] \in Pushers /\ viewer[v] = "check"
        BY <1>3 DEF TakeFirstPacks, TypeOK, Joining
      <3>2. packs[v] = "none"
        BY <3>1 DEF MakerInv
      <3>3. QED
        BY <1>3, <3>1, <3>2, NoneAssumption DEF TakeFirstPacks, Goes
    <2>2. /\ packs'[v] # "none" /\ viewer'[v] = "first part"
          /\ \A w \in Viewers \ {v} : packs'[w] = packs[w] /\ viewer'[w] = viewer[w]
      BY <2>1 DEF TypeOK
    <2>3. \A w \in Viewers : Alone(w)' => header'[source'[w]] = Part(w)'
      <3>1. Part(v)' = <<>>
        BY <2>2 DEF Part
      <3>2. ASSUME NEW w \in Viewers \ {v}, Alone(w)' PROVE header'[source'[w]] = Part(w)'
        <4>1. Alone(w)
          BY <2>1, <2>2, <3>2 DEF Alone
        <4>2. Part(w)' = Part(w)
          BY <2>2 DEF Part
        <4>3. QED
          BY <2>1, <4>1, <4>2 DEF MakerInv
      <3>3. QED
        BY <2>1, <3>1, <3>2
    <2>4. QED
      BY <2>1, <2>2, <2>3 DEF MakerInv
  <1>4. ASSUME NEW v \in Viewers, NEW h, NEW to \in {"second part", "send"},
               viewer[v] \in {"first part", "second part"},
               header' = [header EXCEPT ![source[v]] = h],
               viewer' = [viewer EXCEPT ![v] = to], UNCHANGED <<packs, source>>,
               Alone(v) => h = Part(v)'
        PROVE  MakerInv'
    <2>1. source[v] \in Pushers /\ packs[v] # "none"
      BY <1>4 DEF TypeOK, Joining, MakerInv
    <2>2. /\ header'[source[v]] = h
          /\ \A p \in Pushers \ {source[v]} : header'[p] = header[p]
          /\ viewer'[v] = to /\ \A w \in Viewers \ {v} : viewer'[w] = viewer[w]
      BY <1>4, <2>1 DEF TypeOK
    <2>3. \A w \in Viewers : Alone(w)' => Alone(w)
      BY <1>4 DEF Alone
    <2>4. ASSUME NEW w \in Viewers, Alone(w)' PROVE header'[source'[w]] = Part(w)'
      <3>1. CASE w = v
        BY <1>4, <2>2, <2>3, <2>4, <3>1
      <3>2. CASE w # v
        <4>1. source[w] # source[v]
          BY <2>1, <2>3, <2>4, <3>2 DEF Alone
        <4>2. source[w] \in Pushers
          <5>1. packs[w] # "none"
            BY <2>3, <2>4 DEF Alone
          <5>2. source[w] # None
            BY <5>1 DEF MakerInv
          <5>3. QED
            BY <5>2 DEF TypeOK
        <4>3. Part(w)' = Part(w)
          BY <1>4, <2>2, <3>2 DEF Part
        <4>4. QED
          BY <1>4, <2>2, <2>3, <2>4, <4>1, <4>2, <4>3 DEF MakerInv
      <3>3. QED
        BY <3>1, <3>2
    <2>5. QED
      BY <1>4, <2>1, <2>2, <2>4 DEF MakerInv
  <1>5. ASSUME NEW v \in Viewers, MakeFirstPart(v) PROVE MakerInv'
    <2>1. /\ viewer[v] = "first part" /\ UNCHANGED <<packs, source>>
          /\ header' = [header EXCEPT ![source[v]] = Append(header[source[v]], "script")]
          /\ viewer' = [viewer EXCEPT ![v] = "second part"]
      BY <1>5 DEF MakeFirstPart, Goes
    <2>2. viewer'[v] = "second part"
      BY <2>1 DEF TypeOK
    <2>3. Alone(v) => Append(header[source[v]], "script") = Part(v)'
      <3>1. Append(<<>>, "script") = <<"script">>
        OBVIOUS
      <3>2. Alone(v) => header[source[v]] = <<>>
        BY <2>1 DEF MakerInv, Part
      <3>3. QED
        BY <2>2, <3>1, <3>2 DEF Part
    <2>4. QED
      BY <1>4, <2>1, <2>3
  <1>6. ASSUME NEW v \in Viewers, MakeSecondPart(v) PROVE MakerInv'
    <2> DEFINE rest == IF packs[v] = "all" THEN <<"video", "audio">> ELSE <<"video">>
    <2>1. /\ viewer[v] = "second part" /\ UNCHANGED <<packs, source>>
          /\ header' = [header EXCEPT ![source[v]] = header[source[v]] \o rest]
          /\ viewer' = [viewer EXCEPT ![v] = "send"]
      BY <1>6 DEF MakeSecondPart, Goes
    <2>2. viewer'[v] = "send"
      BY <2>1 DEF TypeOK
    <2>3. Alone(v) => header[source[v]] \o rest = Part(v)'
      <3>1. /\ <<"script">> \o <<"video", "audio">> = <<"script", "video", "audio">>
            /\ <<"script">> \o <<"video">> = <<"script", "video">>
        BY BothParts
      <3>2. Alone(v) => header[source[v]] = <<"script">>
        BY <2>1 DEF MakerInv, Part
      <3>3. Part(v)' = IF packs[v] = "all" THEN <<"script", "video", "audio">>
                                           ELSE <<"script", "video">>
        BY <2>1, <2>2 DEF Part
      <3>4. QED
        BY <3>1, <3>2, <3>3
    <2>4. QED
      BY <1>4, <2>1, <2>3
  <1>7. QED
    BY <1>1, <1>2, <1>3, <1>5, <1>6 DEF Next, Input, PushStep, PullStep, Done

LEMMA InitMaker == Init => MakerInv
  <1> SUFFICES ASSUME Init PROVE MakerInv
    OBVIOUS
  <1>1. \A v \in Viewers : packs[v] = "none" /\ viewer[v] = "new"
    BY DEF Init
  <1>2. QED
    BY <1>1 DEF MakerInv, Alone

LEMMA MakerMeaning == TypeOK /\ MakerInv => OneMakerOneHeader
  <1> SUFFICES ASSUME TypeOK, MakerInv, NEW p \in Pushers, NEW v \in Makers(p),
                      Makers(p) = {v}, Making(p) = {}
               PROVE  header[p] = IF packs[v] = "all" THEN <<"script", "video", "audio">>
                                                      ELSE <<"script", "video">>
    BY DEF OneMakerOneHeader
  <1>1. v \in Viewers /\ source[v] = p /\ Alone(v)
    BY DEF Makers, Alone
  <1>2. viewer[v] \notin {"first part", "second part"}
    BY <1>1 DEF Making
  <1>3. QED
    BY <1>1, <1>2 DEF MakerInv, Part

-----------------------------------------------------------------------------
(* The tags *)

Items == Tags \cup Headers

Numbered(s, p, n) == \A i \in 1 .. Len(s) : s[i] = Tag(p, n + i - 1)

Counted == \A p \in Pushers : \A v \in Members(p) : up[v] =>
             Len(Given(v)) = Made(v, p) - owed[v] + 1

\* What waits goes on where what was sent ends, and both together are as many as
\* the walks that have come to the viewer.
TagInv ==
  /\ \A v \in Viewers : Numbered(TagsSent(v), source[v], owed[v])
  /\ \A v \in Viewers : up[v] => Numbered(Given(v), source[v], owed[v])
  /\ \A v \in Viewers : viewer[v] \in {"new", "insert"} => queued[v] = <<>>
  /\ Counted

\* Sequences: what handing over, sending the header and sending a tag do.
LEMMA AppendBehind ==
  ASSUME NEW s \in Seq(Items), NEW q \in Seq(Items), NEW x \in Items
  PROVE  /\ s \o q \in Seq(Items) /\ s \o Append(q, x) = Append(s \o q, x)
         /\ Len(Append(s \o q, x)) = Len(s \o q) + 1 /\ Len(s \o q) \in Nat
  <1>1. s \o q \in Seq(Items) /\ Append(q, x) \in Seq(Items) /\ <<x>> \in Seq(Items)
    BY ConcatProperties, AppendProperties
  <1>2. Append(q, x) = q \o <<x>> /\ Append(s \o q, x) = (s \o q) \o <<x>>
    BY <1>1, AppendIsConcat
  <1>3. s \o (q \o <<x>>) = (s \o q) \o <<x>>
    BY <1>1, ConcatAssociative
  <1>4. Len(Append(s \o q, x)) = Len(s \o q) + 1 /\ Len(s \o q) \in Nat
    BY <1>1, AppendProperties, LenProperties
  <1>5. QED
    BY <1>1, <1>2, <1>3, <1>4

LEMMA MoveFirst ==
  ASSUME NEW s \in Seq(Items), NEW q \in Seq(Items), q # <<>>
  PROVE  Append(s, Head(q)) \o Tail(q) = s \o q
  <1>1. Head(q) \in Items /\ Tail(q) \in Seq(Items) /\ <<Head(q)>> \in Seq(Items)
    BY HeadTailProperties
  <1>2. Append(s, Head(q)) = s \o <<Head(q)>>
    BY <1>1, AppendIsConcat
  <1>3. (s \o <<Head(q)>>) \o Tail(q) = s \o (<<Head(q)>> \o Tail(q))
    BY <1>1, ConcatAssociative
  <1>4. <<Head(q)>> \o Tail(q) = q
    <2> DEFINE t == <<Head(q)>> \o Tail(q)
    <2>1. t \in Seq(Items) /\ Len(t) = 1 + Len(Tail(q))
      BY <1>1, ConcatProperties
    <2>2. Len(Tail(q)) = Len(q) - 1 /\ Len(q) \in Nat
      BY HeadTailProperties, LenProperties
    <2>3. \A i \in 1 .. Len(q) : t[i] = q[i]
      OBVIOUS
    <2> HIDE DEF t
    <2>4. t = q
      BY <2>1, <2>2, <2>3, SeqEqual
    <2>5. QED
      BY <2>4 DEF t
  <1>5. QED
    BY <1>2, <1>3, <1>4

LEMMA BehindHeader ==
  ASSUME NEW o \in Seq(Items), o # <<>>, NEW x \in Items
  PROVE  /\ Append(o, x) # <<>> /\ Tail(o) \in Seq(Items)
         /\ Tail(Append(o, x)) = Append(Tail(o), x)
  <1> DEFINE a == Tail(Append(o, x))
             b == Append(Tail(o), x)
  <1>1. Len(o) \in Nat /\ Len(o) # 0 /\ Tail(o) \in Seq(Items) /\ Len(Tail(o)) = Len(o) - 1
    BY HeadTailProperties, LenProperties, EmptySeq
  <1>2. /\ Append(o, x) \in Seq(Items) /\ Len(Append(o, x)) = Len(o) + 1
    BY AppendProperties
  <1>3. Append(o, x) # <<>>
    <2>1. Len(<<>>) = 0
      OBVIOUS
    <2>2. QED
      BY <1>1, <1>2, <2>1
  <1>4. a \in Seq(Items) /\ Len(a) = Len(o)
    <2>1. a \in Seq(Items) /\ Len(a) = Len(Append(o, x)) - 1
      BY <1>2, <1>3, HeadTailProperties
    <2> HIDE DEF a
    <2>2. QED
      BY <1>1, <1>2, <2>1
  <1>5. b \in Seq(Items) /\ Len(b) = Len(o)
    <2>1. b \in Seq(Items) /\ Len(b) = Len(Tail(o)) + 1
      BY <1>1, AppendProperties
    <2> HIDE DEF b
    <2>2. QED
      BY <1>1, <2>1
  <1>6. \A i \in 1 .. Len(o) : a[i] = b[i]
    OBVIOUS
  <1> HIDE DEF a, b
  <1>7. a = b
    BY <1>4, <1>5, <1>6, SeqEqual
  <1>8. QED
    BY <1>1, <1>3, <1>7 DEF a, b

LEMMA SequenceTypes ==
  ASSUME TypeOK, NEW v \in Viewers
  PROVE  /\ out[v] \in Seq(Items) /\ queued[v] \in Seq(Items) /\ TagsSent(v) \in Seq(Items)
         /\ Given(v) \in Seq(Items) /\ Len(Given(v)) \in Nat /\ owed[v] \in Nat
  <1>1. out[v] \in Seq(Items) /\ queued[v] \in Seq(Tags) /\ owed[v] \in Nat
    BY DEF TypeOK, Items
  <1>2. queued[v] \in Seq(Items)
    BY <1>1, SeqMonotonic DEF Items
  <1>3. TagsSent(v) \in Seq(Items)
    BY <1>1, HeadTailProperties, EmptySeq DEF TagsSent
  <1>4. Given(v) \in Seq(Items)
    BY <1>2, <1>3, ConcatProperties DEF Given
  <1>5. QED
    BY <1>1, <1>2, <1>3, <1>4, LenProperties

LEMMA MadeType ==
  ASSUME TypeOK, NEW p \in Pushers, NEW v \in Viewers
  PROVE  Made(v, p) \in Int /\ tags[p] \in Nat /\ at[p] \in Nat /\ v \in Nat /\ v > 0
  <1>1. tags[p] \in Nat /\ at[p] \in Viewers \cup {0}
    BY DEF TypeOK
  <1>2. at[p] \in Nat /\ v \in Nat /\ v > 0
    BY <1>1, ViewersAssumption
  <1>3. QED
    BY <1>1, <1>2 DEF Made

\* A viewer that p serves watches p.
LEMMA MemberWatches ==
  ASSUME TypeOK, MapHoldsViewers, NEW p \in Pushers, NEW v \in Members(p)
  PROVE  v \in Viewers /\ source[v] = p /\ viewer[v] \in Held /\ Alive(p) /\ v \in clients[p]
  <1>1. Alive(p) /\ v \in clients[p]
    BY DEF Members
  <1>2. QED
    BY <1>1, MapMeaning DEF Watching

\* The steps that neither make, hand over nor send anything.
LEMMA TagUnchanged ==
  ASSUME TypeOK, RoomsInv, SentInv, TagInv, [Next]_vars,
         UNCHANGED <<out, queued, owed, tags, at>>,
         \A p \in Pushers : clients'[p] \subseteq clients[p],
         \A v \in Viewers : up'[v] => up[v],
         \A v \in Viewers : source'[v] = source[v] \/ viewer[v] = "new",
         \A v \in Viewers : viewer'[v] \in {"new", "insert"} => viewer[v] \in {"new", "insert"}
  PROVE  TagInv'
  <1>1. \A v \in Viewers : TagsSent(v)' = TagsSent(v) /\ Given(v)' = Given(v)
    BY DEF TagsSent, Given
  <1>2. \A v \in Viewers : viewer[v] = "new" => TagsSent(v) = <<>> /\ Given(v) = <<>>
    <2>1. TAKE v \in Viewers
    <2>2. HAVE viewer[v] = "new"
    <2>3. out[v] = <<>> /\ queued[v] = <<>>
      BY <2>2 DEF SentInv, TagInv
    <2>4. <<>> \o <<>> = <<>>
      OBVIOUS
    <2>5. QED
      BY <2>3, <2>4 DEF TagsSent, Given
  <1>3. \A a, b : Numbered(<<>>, a, b)
    BY DEF Numbered
  <1>4. \A v \in Viewers : /\ Numbered(TagsSent(v), source[v], owed[v])'
                           /\ up'[v] => Numbered(Given(v), source[v], owed[v])'
    <2>1. TAKE v \in Viewers
    <2>2. CASE source'[v] = source[v]
      BY <1>1, <2>2 DEF TagInv, Numbered
    <2>3. CASE viewer[v] = "new"
      BY <1>1, <1>2, <2>3 DEF Numbered
    <2>4. QED
      BY <2>2, <2>3
  <1>5. Counted'
    <2>1. \A p \in Pushers : Members(p)' \subseteq Members(p)
      BY AliveBefore DEF Members
    <2>2. \A p \in Pushers : \A v \in Members(p) : v \in Viewers
      BY MembersAreViewers
    <2>3. QED
      BY <1>1, <2>1, <2>2 DEF TagInv, Counted, Made
  <1>6. QED
    BY <1>4, <1>5 DEF TagInv

\* A tag more, and the walk begins.
LEMMA NewTagStep ==
  ASSUME TypeOK, RoomsInv, TagInv, [Next]_vars, NEW p \in Pushers, OnNewFlvTag(p)
  PROVE  TagInv'
  <1>1. /\ at[p] = 0 /\ tags' = [tags EXCEPT ![p] = tags[p] + 1]
        /\ at' = [at EXCEPT ![p] = NextClient(p, 0)]
        /\ UNCHANGED <<out, queued, owed, clients, up, source, viewer>>
    BY DEF OnNewFlvTag, pullVars
  <1>2. \A q \in Pushers : \A v \in Members(q)' : v \in Members(q) /\ v \in Viewers
    BY <1>1, AliveBefore, MembersAreViewers DEF Members
  <1>3. \A q \in Pushers : \A v \in Members(q) : Made(v, q)' = Made(v, q)
    <2>1. TAKE q \in Pushers
    <2>2. TAKE v \in Members(q)
    <2>3. CASE q # p
      <3>1. at'[q] = at[q] /\ tags'[q] = tags[q]
        BY <1>1, <2>3 DEF TypeOK
      <3>2. QED
        BY <3>1 DEF Made
    <2>4. CASE q = p
      <3>1. v \in Viewers /\ Members(p) \subseteq Viewers
        BY <2>4, MembersAreViewers
      <3>2. v \in Nat /\ v > 0 /\ tags[p] \in Nat
        BY <3>1, MadeType
      <3>3. NextClient(p, 0) \in 1 .. v
        BY <2>4, <3>1, <3>2, NextClientFacts
      <3>4. at'[p] \in 1 .. v /\ tags'[p] = tags[p] + 1
        BY <1>1, <3>3 DEF TypeOK
      <3>5. Made(v, p)' = tags'[p] - 1
        BY <3>4 DEF Made
      <3>6. Made(v, p) = tags[p]
        BY <1>1 DEF Made
      <3>7. QED
        BY <2>4, <3>2, <3>4, <3>5, <3>6
    <2>5. QED
      BY <2>3, <2>4
  <1>4. \A v \in Viewers : TagsSent(v)' = TagsSent(v) /\ Given(v)' = Given(v)
    BY <1>1 DEF TagsSent, Given
  <1>5. Counted'
    BY <1>1, <1>2, <1>3, <1>4 DEF TagInv, Counted
  <1>6. QED
    BY <1>1, <1>4, <1>5 DEF TagInv, Numbered

LEMMA Between ==
  \A a, b \in Nat : /\ a # 0 /\ b > a => a \in 1 .. b /\ b # a
                    /\ b <= a /\ b # a => a \notin 1 .. b
  OBVIOUS

\* The walk goes on: it has come to one viewer more.
LEMMA WalkGoesOn ==
  ASSUME TypeOK, NEW p \in Pushers, at[p] # 0,
         at' = [at EXCEPT ![p] = NextClient(p, at[p])], UNCHANGED tags,
         NEW q \in Pushers, NEW v \in Members(q)
  PROVE  Made(v, q)' = IF q = p /\ v = at[p] THEN tags[p] ELSE Made(v, q)
  <1>1. CASE q # p
    <2>1. at'[q] = at[q] /\ tags'[q] = tags[q]
      BY <1>1 DEF TypeOK
    <2>2. QED
      BY <1>1, <2>1 DEF Made
  <1>2. CASE q = p
    <2>1. v \in Viewers /\ Members(p) \subseteq Viewers
      BY <1>2, MembersAreViewers
    <2>2. v \in Nat /\ v > 0 /\ tags[p] \in Nat /\ at[p] \in Nat
      BY <2>1, MadeType
    <2> DEFINE n == NextClient(p, at[p])
    <2>3. at'[p] = n
      BY DEF TypeOK
    <2>4. /\ n \in Members(p) \cup {0}
          /\ n # 0 => n > at[p]
          /\ v > at[p] => n \in 1 .. v
      BY <1>2, <2>1, <2>2, NextClientFacts
    <2>5. n \in Nat
      <3>1. Members(p) \subseteq Nat \ {0}
        BY MembersAreViewers
      <3> HIDE DEF n
      <3>2. QED
        BY <2>4, <3>1
    <2> HIDE DEF n
    <2>6. CASE v > at[p]
      <3>1. at[p] \in 1 .. v /\ n \in 1 .. v /\ v # at[p]
        BY <2>2, <2>4, <2>6, Between
      <3>2. Made(v, q)' = tags[p] - 1 /\ Made(v, q) = tags[p] - 1
        BY <1>2, <2>3, <3>1 DEF Made
      <3>3. QED
        BY <1>2, <3>1, <3>2
    <2>7. CASE v <= at[p]
      <3>1. n \notin 1 .. v
        BY <2>2, <2>4, <2>5, <2>7
      <3>2. Made(v, q)' = tags[p]
        BY <1>2, <2>3, <3>1 DEF Made
      <3>3. v # at[p] => Made(v, q) = tags[p]
        <4>1. v # at[p] => at[p] \notin 1 .. v
          BY <2>2, <2>7, Between
        <4>2. QED
          BY <1>2, <4>1 DEF Made
      <3>4. QED
        BY <1>2, <3>2, <3>3
    <2>8. QED
      BY <2>2, <2>6, <2>7
  <1>3. QED
    BY <1>1, <1>2

\* The tag is handed over, unless the viewer's connection is closed.
LEMMA AddTagStep ==
  ASSUME TypeOK, RoomsInv, MapHoldsViewers, TagInv, [Next]_vars, NEW p \in Pushers, AddFlvTag(p),
         NEW u \in Viewers, at[p] = u
  PROVE  TagInv'
  <1> DEFINE item == Tag(p, tags[p])
  <1>1. /\ u # 0 /\ u \in Members(p)
        /\ queued' = IF up[u] THEN [queued EXCEPT ![u] = Append(@, item)] ELSE queued
        /\ at' = [at EXCEPT ![p] = NextClient(p, at[p])]
        /\ UNCHANGED <<out, tags, owed, clients, up, source, viewer>>
    BY DEF AddFlvTag, pullVars
  <1>2. u \in Viewers /\ source[u] = p /\ viewer[u] \in Held
    BY <1>1, MemberWatches
  <1>3. item \in Items
    BY ItemTypes DEF TypeOK, Items
  <1>4. \A q \in Pushers : \A v \in Members(q)' : v \in Members(q) /\ v \in Viewers /\ source[v] = q
    BY <1>1, AliveBefore, MemberWatches DEF Members
  <1>5. \A q \in Pushers : \A v \in Members(q) :
          Made(v, q)' = IF q = p /\ v = u THEN tags[p] ELSE Made(v, q)
    BY <1>1, WalkGoesOn
  <1>6. \A v \in Viewers : TagsSent(v)' = TagsSent(v)
    BY <1>1 DEF TagsSent
  <1>7. \A v \in Viewers : v # u \/ ~up[u] => queued'[v] = queued[v] /\ Given(v)' = Given(v)
    BY <1>1, <1>6 DEF TypeOK, Given
  <1>8. up[u] => queued'[u] = Append(queued[u], item)
    BY <1>1, <1>2 DEF TypeOK
  <1> HIDE DEF item
  <1>9. up[u] => /\ Given(u)' = Append(Given(u), item)
                 /\ Given(u) \in Seq(Items) /\ Len(Given(u)) \in Nat
                 /\ Len(Given(u)') = Len(Given(u)) + 1
    <2>1. /\ TagsSent(u) \in Seq(Items) /\ queued[u] \in Seq(Items)
          /\ Given(u) \in Seq(Items) /\ Len(Given(u)) \in Nat
      BY <1>2, SequenceTypes
    <2>2. /\ TagsSent(u) \o Append(queued[u], item) = Append(TagsSent(u) \o queued[u], item)
          /\ Len(Append(TagsSent(u) \o queued[u], item)) = Len(TagsSent(u) \o queued[u]) + 1
      <3> DEFINE s == TagsSent(u)
                 q == queued[u]
      <3>1. s \in Seq(Items) /\ q \in Seq(Items)
        BY <2>1
      <3> HIDE DEF s, q
      <3>2. s \o Append(q, item) = Append(s \o q, item) /\ Len(Append(s \o q, item)) = Len(s \o q) + 1
        BY <1>3, <3>1, AppendBehind
      <3>3. QED
        BY <3>2, Zenon DEF s, q
    <2>4. up[u] => Given(u)' = TagsSent(u) \o Append(queued[u], item)
      BY <1>2, <1>6, <1>8 DEF Given
    <2>5. QED
      BY <2>1, <2>2, <2>4, Zenon DEF Given
  <1>10. up[u] => Len(Given(u)) = tags[p] - owed[u]
    <2>1. Made(u, p) = tags[p] - 1
      <3>1. at[p] \in 1 .. u
        BY <1>1, <1>2, MadeType
      <3>2. QED
        BY <3>1 DEF Made
    <2>2. up[u] => Len(Given(u)) = Made(u, p) - owed[u] + 1
      BY <1>1 DEF TagInv, Counted
    <2>3. tags[p] \in Nat /\ owed[u] \in Nat
      BY <1>2, SequenceTypes, MadeType
    <2>4. QED
      BY <2>1, <2>2, <2>3
  <1>11. Counted'
    <2>1. SUFFICES ASSUME NEW q \in Pushers, NEW v \in Members(q)', up[v]
                   PROVE  Len(Given(v)') = Made(v, q)' - owed[v] + 1
      BY <1>1 DEF Counted
    <2>2. v \in Members(q) /\ v \in Viewers /\ source[v] = q
      BY <1>4
    <2>3. CASE v = u
      <3>1. Made(v, q)' = tags[p]
        BY <1>2, <1>5, <2>2, <2>3
      <3>2. Len(Given(v)') = tags[p] - owed[v] + 1
        BY <1>9, <1>10, <2>1, <2>3
      <3>3. QED
        BY <3>1, <3>2
    <2>4. CASE v # u
      BY <1>5, <1>7, <2>1, <2>2, <2>4 DEF TagInv, Counted
    <2>5. QED
      BY <2>3, <2>4
  <1>12. up[u] => Numbered(Given(u), source[u], owed[u])'
    <2>1. HAVE up[u]
    <2>2. tags[p] \in Nat /\ owed[u] \in Nat
      BY <1>2, SequenceTypes, MadeType
    <2>3. \A i \in 1 .. Len(Given(u)) : Given(u)[i] = Tag(p, owed[u] + i - 1)
      BY <1>2, <2>1 DEF TagInv, Numbered
    <2>4. \A i \in 1 .. Len(Given(u)) + 1 :
            Given(u)'[i] = IF i = Len(Given(u)) + 1 THEN item ELSE Given(u)[i]
      BY <1>9, <2>1
    <2>5. item = Tag(p, owed[u] + (Len(Given(u)) + 1) - 1)
      <3>1. owed[u] + (Len(Given(u)) + 1) - 1 = tags[p]
        BY <1>9, <1>10, <2>1, <2>2
      <3>2. QED
        BY <3>1 DEF item
    <2>6. \A i \in 1 .. Len(Given(u)') : Given(u)'[i] = Tag(p, owed[u] + i - 1)
      BY <1>9, <2>1, <2>3, <2>4, <2>5
    <2>7. QED
      BY <1>1, <1>2, <2>6 DEF Numbered
  <1>13. \A v \in Viewers : up[v] => Numbered(Given(v), source[v], owed[v])'
    <2>1. TAKE v \in Viewers
    <2>2. HAVE up[v]
    <2>3. CASE v = u
      BY <1>12, <2>2, <2>3
    <2>4. CASE v # u
      BY <1>1, <1>7, <2>2, <2>4 DEF TagInv, Numbered
    <2>5. QED
      BY <2>3, <2>4
  <1>14. \A v \in Viewers : Numbered(TagsSent(v), source[v], owed[v])'
    BY <1>1, <1>6 DEF TagInv, Numbered
  <1>15. \A v \in Viewers : viewer'[v] \in {"new", "insert"} => queued'[v] = <<>>
    <2>1. viewer[u] \notin {"new", "insert"}
      BY <1>2 DEF Held, Joining
    <2>2. QED
      BY <1>1, <1>7, <2>1 DEF TagInv
  <1>16. QED
    BY <1>1, <1>11, <1>13, <1>14, <1>15 DEF TagInv

\* The walk goes past a viewer that is no longer there.
LEMMA DanglingTagStep ==
  ASSUME TypeOK, RoomsInv, TagInv, [Next]_vars, NEW p \in Pushers, AddFlvTagDangling(p)
  PROVE  TagInv'
  <1>1. /\ at[p] # 0 /\ at[p] \notin Members(p)
        /\ at' = [at EXCEPT ![p] = NextClient(p, at[p])]
        /\ UNCHANGED <<out, queued, tags, owed, clients, up, source, viewer>>
    BY DEF AddFlvTagDangling, pullVars
  <1>2. \A q \in Pushers : \A v \in Members(q)' : v \in Members(q) /\ v \in Viewers
    BY <1>1, AliveBefore, MembersAreViewers DEF Members
  <1>3. \A q \in Pushers : \A v \in Members(q) : Made(v, q)' = Made(v, q)
    BY <1>1, WalkGoesOn
  <1>4. \A v \in Viewers : TagsSent(v)' = TagsSent(v) /\ Given(v)' = Given(v)
    BY <1>1 DEF TagsSent, Given
  <1>5. Counted'
    BY <1>1, <1>2, <1>3, <1>4 DEF TagInv, Counted
  <1>6. QED
    BY <1>1, <1>4, <1>5 DEF TagInv, Numbered

\* A viewer that joins during a walk is owed the tag of that walk if the walk is
\* still to come to it, and otherwise the next one.
LEMMA JoinStep ==
  ASSUME TypeOK, RoomsInv, MapHoldsViewers, SentInv, TagInv, [Next]_vars,
         NEW u \in Viewers, AddClientConnection(u)
  PROVE  TagInv'
  <1> DEFINE r == source[u]
  <1>1. /\ viewer[u] = "insert" /\ viewer' = [viewer EXCEPT ![u] = "check"]
        /\ clients' = [clients EXCEPT ![r] = @ \cup {u}]
        /\ owed' = [owed EXCEPT ![u] = IF at[r] \in 1 .. u THEN tags[r] ELSE tags[r] + 1]
        /\ UNCHANGED <<out, queued, tags, at, up, source>>
    BY DEF AddClientConnection, Goes, pushVars
  <1>2. r \in Pushers
    BY <1>1 DEF TypeOK, Joining
  <1>3. TagsSent(u) = <<>> /\ Given(u) = <<>>
    <2>1. out[u] = <<>> /\ queued[u] = <<>>
      BY <1>1 DEF SentInv, TagInv, Joining
    <2>2. <<>> \o <<>> = <<>>
      OBVIOUS
    <2>3. QED
      BY <2>1, <2>2 DEF TagsSent, Given
  <1>4. \A v \in Viewers : TagsSent(v)' = TagsSent(v) /\ Given(v)' = Given(v)
    BY <1>1 DEF TagsSent, Given
  <1>5. \A v \in Viewers \ {u} : owed'[v] = owed[v] /\ viewer'[v] = viewer[v]
    BY <1>1 DEF TypeOK
  <1>6. \A a, b : Numbered(<<>>, a, b)
    BY DEF Numbered
  <1>7. \A v \in Viewers : /\ Numbered(TagsSent(v), source[v], owed[v])'
                           /\ up'[v] => Numbered(Given(v), source[v], owed[v])'
    <2>1. TAKE v \in Viewers
    <2>2. CASE v = u
      BY <1>3, <1>4, <1>6, <2>2 DEF Numbered
    <2>3. CASE v # u
      BY <1>1, <1>4, <1>5, <2>3 DEF TagInv, Numbered
    <2>4. QED
      BY <2>2, <2>3
  <1>8. Counted'
    <2>1. SUFFICES ASSUME NEW q \in Pushers, NEW v \in Members(q)', up[v]
                   PROVE  Len(Given(v)') = Made(v, q)' - owed'[v] + 1
      BY <1>1 DEF Counted
    <2>2. Alive(q) /\ v \in clients'[q]
      BY AliveBefore DEF Members
    <2>3. CASE v # u
      <3>1. v \in Members(q)
        BY <1>1, <2>2, <2>3 DEF TypeOK, Members
      <3>2. v \in Viewers
        BY <3>1, MembersAreViewers
      <3>3. Len(Given(v)) = Made(v, q) - owed[v] + 1
        BY <2>1, <3>1 DEF TagInv, Counted
      <3>4. Made(v, q)' = Made(v, q)
        BY <1>1 DEF Made
      <3>5. QED
        BY <1>4, <1>5, <2>3, <3>2, <3>3, <3>4
    <2>4. CASE v = u
      <3>1. q = r
        <4>1. u \notin clients[q]
          <5>1. viewer[u] \notin Held
            BY <1>1 DEF Held, Joining
          <5>2. QED
            BY <2>2, <5>1, MapMeaning DEF Watching
        <4>2. QED
          BY <1>1, <2>2, <2>4, <4>1 DEF TypeOK
      <3>2. Len(Given(u)') = 0
        BY <1>3, <1>4
      <3>3. tags[r] \in Nat
        BY <1>2, MadeType
      <3>4. owed'[u] = IF at[r] \in 1 .. u THEN tags[r] ELSE tags[r] + 1
        BY <1>1 DEF TypeOK
      <3>5. Made(u, q)' = IF at[r] \in 1 .. u THEN tags[r] - 1 ELSE tags[r]
        BY <1>1, <3>1 DEF Made
      <3> HIDE DEF r
      <3>6. QED
        BY <2>4, <3>2, <3>3, <3>4, <3>5
    <2>5. QED
      BY <2>3, <2>4
  <1>9. \A v \in Viewers : viewer'[v] \in {"new", "insert"} => queued'[v] = <<>>
    BY <1>1, <1>5 DEF TagInv, TypeOK
  <1>10. QED
    BY <1>7, <1>8, <1>9 DEF TagInv

\* What is sent moves from what waits to what was sent.
LEMMA SendStep ==
  ASSUME TypeOK, RoomsInv, SentInv, TagInv, [Next]_vars, NEW u \in Viewers,
         SendHeaderOnConnection(u) \/ SendInLoop(u)
  PROVE  TagInv'
  <1>1. /\ UNCHANGED <<tags, at, owed, clients, up, source>>
        /\ \A v \in Viewers : viewer'[v] \in {"new", "insert"} => viewer[v] \in {"new", "insert"}
        /\ viewer'[u] \notin {"new", "insert"}
        /\ \A v \in Viewers \ {u} : out'[v] = out[v] /\ queued'[v] = queued[v]
    BY DEF SendHeaderOnConnection, SendInLoop, pushVars, pullVars, Goes, TypeOK
  <1>2. /\ out[u] \in Seq(Items) /\ queued[u] \in Seq(Items) /\ TagsSent(u) \in Seq(Items)
        /\ Given(u) \in Seq(Items) /\ Len(Given(u)) \in Nat
    BY SequenceTypes
  <1>3. /\ \/ TagsSent(u)' = TagsSent(u)
           \/ /\ up[u] /\ queued[u] # <<>>
              /\ TagsSent(u)' = Append(TagsSent(u), Head(queued[u]))
        /\ up[u] => Given(u)' = Given(u)
    <2>1. CASE SendHeaderOnConnection(u)
      <3> DEFINE item == Header(header[source[u]])
      <3>1. out[u] = <<>> /\ out'[u] = Append(out[u], item) /\ queued'[u] = queued[u]
        BY <2>1 DEF SendHeaderOnConnection, SentInv, Joining, TypeOK
      <3> HIDE DEF item
      <3>2. /\ Append(<<>>, item) # <<>> /\ Tail(Append(<<>>, item)) = <<>>
        <4>1. Append(<<>>, item) = <<item>> /\ Len(<<item>>) = 1 /\ Len(<<>>) = 0
          OBVIOUS
        <4>2. Tail(<<item>>) = <<>>
          OBVIOUS
        <4>3. QED
          BY <4>1, <4>2
      <3>3. TagsSent(u)' = <<>> /\ TagsSent(u) = <<>>
        BY <3>1, <3>2 DEF TagsSent
      <3>4. QED
        BY <3>1, <3>3 DEF Given
    <2>2. CASE SendInLoop(u) /\ ~up[u]
      BY <2>2 DEF SendInLoop, TagsSent
    <2>3. CASE SendInLoop(u) /\ up[u]
      <3>1. /\ viewer[u] = "watching" /\ queued[u] # <<>> /\ out[u] # <<>>
            /\ queued'[u] = Tail(queued[u]) /\ out'[u] = Append(out[u], Head(queued[u]))
        BY <2>3 DEF SendInLoop, SentInv, TypeOK
      <3>2. Head(queued[u]) \in Items
        BY <1>2, <3>1, HeadTailProperties
      <3>3. /\ Append(out[u], Head(queued[u])) # <<>>
            /\ Tail(Append(out[u], Head(queued[u]))) = Append(Tail(out[u]), Head(queued[u]))
        BY <1>2, <3>1, <3>2, BehindHeader
      <3>4. TagsSent(u)' = Append(TagsSent(u), Head(queued[u]))
        BY <3>1, <3>3 DEF TagsSent
      <3>5. Append(TagsSent(u), Head(queued[u])) \o Tail(queued[u]) = TagsSent(u) \o queued[u]
        BY <1>2, <3>1, MoveFirst
      <3>6. Given(u)' = Given(u)
        BY <3>1, <3>4, <3>5 DEF Given
      <3>7. QED
        BY <2>3, <3>1, <3>4, <3>6
    <2>4. QED
      BY <2>1, <2>2, <2>3
  <1>4. \A v \in Viewers \ {u} : TagsSent(v)' = TagsSent(v) /\ Given(v)' = Given(v)
    BY <1>1 DEF TagsSent, Given
  <1>5. Numbered(TagsSent(u), source[u], owed[u])'
    <2>1. CASE TagsSent(u)' = TagsSent(u)
      BY <1>1, <2>1 DEF TagInv, Numbered
    <2>2. CASE up[u] /\ queued[u] # <<>> /\ TagsSent(u)' = Append(TagsSent(u), Head(queued[u]))
      <3>1. /\ Len(TagsSent(u)) \in Nat /\ Len(queued[u]) \in Nat /\ Len(queued[u]) > 0
            /\ Len(Given(u)) = Len(TagsSent(u)) + Len(queued[u])
            /\ Head(queued[u]) = queued[u][1]
        BY <1>2, <2>2, LenProperties, EmptySeq, ConcatProperties DEF Given
      <3>2. /\ Len(TagsSent(u)') = Len(TagsSent(u)) + 1
            /\ \A i \in 1 .. Len(TagsSent(u)) + 1 : TagsSent(u)'[i] = Given(u)[i]
        <4>1. Len(Append(TagsSent(u), Head(queued[u]))) = Len(TagsSent(u)) + 1
          BY <1>2, <3>1
        <4>2. \A i \in 1 .. Len(TagsSent(u)) + 1 :
                Append(TagsSent(u), Head(queued[u]))[i] =
                  IF i = Len(TagsSent(u)) + 1 THEN Head(queued[u]) ELSE TagsSent(u)[i]
          BY <1>2, <3>1
        <4>3. \A i \in 1 .. Len(TagsSent(u)) + 1 :
                (TagsSent(u) \o queued[u])[i] =
                  IF i = Len(TagsSent(u)) + 1 THEN queued[u][1] ELSE TagsSent(u)[i]
          BY <1>2, <3>1, ConcatProperties
        <4>4. QED
          BY <2>2, <3>1, <4>1, <4>2, <4>3 DEF Given
      <3>3. Numbered(Given(u), source[u], owed[u])
        BY <2>2 DEF TagInv
      <3>4. \A i \in 1 .. Len(TagsSent(u)') : TagsSent(u)'[i] = Tag(source[u], owed[u] + i - 1)
        BY <3>1, <3>2, <3>3 DEF Numbered
      <3>5. QED
        BY <1>1, <3>4 DEF Numbered
    <2>3. QED
      BY <1>3, <2>1, <2>2
  <1>6. \A v \in Viewers : /\ Numbered(TagsSent(v), source[v], owed[v])'
                           /\ up'[v] => Numbered(Given(v), source[v], owed[v])'
    <2>1. TAKE v \in Viewers
    <2>2. CASE v = u
      BY <1>1, <1>3, <1>5, <2>2 DEF TagInv, Numbered
    <2>3. CASE v # u
      BY <1>1, <1>4, <2>3 DEF TagInv, Numbered
    <2>4. QED
      BY <2>2, <2>3
  <1>7. Counted'
    <2>1. \A p \in Pushers : Members(p)' \subseteq Members(p) /\ Members(p) \subseteq Viewers
      BY <1>1, AliveBefore, MembersAreViewers DEF Members
    <2>2. \A v \in Viewers : up[v] => Given(v)' = Given(v)
      BY <1>3, <1>4
    <2>3. QED
      BY <1>1, <2>1, <2>2 DEF TagInv, Counted, Made
  <1>8. \A v \in Viewers : viewer'[v] \in {"new", "insert"} => queued'[v] = <<>>
    BY <1>1 DEF TagInv
  <1>9. QED
    BY <1>6, <1>7, <1>8 DEF TagInv

LEMMA TagStep ==
  ASSUME TypeOK, RoomsInv, MapHoldsViewers, SentInv, TagInv, [Next]_vars
  PROVE  TagInv'
  <1>1. ASSUME NEW p \in Pushers, OnNewFlvTag(p) \/ AddFlvTag(p) \/ AddFlvTagDangling(p)
        PROVE  TagInv'
    <2>1. CASE AddFlvTag(p)
      <3>1. at[p] \in Viewers
        BY <2>1 DEF AddFlvTag, TypeOK
      <3>2. QED
        BY <2>1, <3>1, AddTagStep
    <2>2. QED
      BY <1>1, <2>1, NewTagStep, DanglingTagStep
  <1>2. ASSUME NEW v \in Viewers,
               AddClientConnection(v) \/ SendHeaderOnConnection(v) \/ SendInLoop(v)
        PROVE  TagInv'
    BY <1>2, JoinStep, SendStep
  <1>3. CASE \/ DataRace \/ UNCHANGED vars
             \/ \E p \in Pushers :
                  \/ OnShakeHandSuccess(p) \/ SetNewMessageCallback(p) \/ FirstPacksWithoutAudio(p)
                  \/ OnBodyDataDangling(p) \/ OnConnection(p)
             \/ \E v \in Viewers : NoFirstPacks(v)
    <2>1. UNCHANGED <<out, queued, owed, tags, at, clients, up, source, viewer>>
      BY <1>3 DEF DataRace, vars, pullVars, pushVars, OnShakeHandSuccess, SetNewMessageCallback,
         FirstPacksWithoutAudio, OnBodyDataDangling, OnConnection, NoFirstPacks
    <2>2. QED
      BY <2>1, TagUnchanged
  <1>4. ASSUME NEW v \in Viewers,
               \/ \E path \in Paths : OnClientMessage(v, path) \/ OnClientMessageFailed(v, path)
               \/ HeaderThere(v) \/ TakeFirstPacks(v) \/ MakeFirstPart(v) \/ MakeSecondPart(v)
               \/ OnClose(v) \/ OnConnectionClose(v) \/ OnConnectionCloseDangling(v)
        PROVE  TagInv'
    <2>1. UNCHANGED <<out, queued, owed, tags, at>>
      BY <1>4 DEF OnClientMessage, OnClientMessageFailed, HeaderThere, TakeFirstPacks,
         MakeFirstPart, MakeSecondPart, OnClose, OnConnectionClose, OnConnectionCloseDangling, pushVars
    <2>2. \A p \in Pushers : clients'[p] \subseteq clients[p]
      BY <1>4 DEF OnClientMessage, OnClientMessageFailed, HeaderThere, TakeFirstPacks,
         MakeFirstPart, MakeSecondPart, OnClose, OnConnectionClose, OnConnectionCloseDangling, TypeOK
    <2>3. \A w \in Viewers : up'[w] => up[w]
      <3>1. up' = up \/ up' = [up EXCEPT ![v] = FALSE]
        BY <1>4 DEF OnClientMessage, OnClientMessageFailed, HeaderThere, TakeFirstPacks,
           MakeFirstPart, MakeSecondPart, OnClose, OnConnectionClose, OnConnectionCloseDangling
      <3>2. up \in [Viewers -> BOOLEAN]
        BY DEF TypeOK
      <3>3. QED
        BY <3>1, <3>2
    <2>4. \A w \in Viewers : source'[w] = source[w] \/ viewer[w] = "new"
      BY <1>4 DEF OnClientMessage, OnClientMessageFailed, HeaderThere, TakeFirstPacks,
         MakeFirstPart, MakeSecondPart, OnClose, OnConnectionClose, OnConnectionCloseDangling, TypeOK
    <2>5. \A w \in Viewers : viewer'[w] \in {"new", "insert"} => viewer[w] \in {"new", "insert"}
      <3>1. \E to : /\ viewer' = [viewer EXCEPT ![v] = to]
                    /\ to \in {"new", "insert"} => viewer[v] = "new"
        BY <1>4 DEF OnClientMessage, OnClientMessageFailed, HeaderThere, TakeFirstPacks,
           MakeFirstPart, MakeSecondPart, OnClose, OnConnectionClose,
           OnConnectionCloseDangling, Goes
      <3>2. QED
        BY <3>1 DEF TypeOK
    <2>6. QED
      BY <2>1, <2>2, <2>3, <2>4, <2>5, TagUnchanged
  <1>5. QED
    BY <1>1, <1>2, <1>3, <1>4 DEF Next, Input, PushStep, PullStep, Done

LEMMA InitTag == Init => TagInv
  <1> SUFFICES ASSUME Init PROVE TagInv
    OBVIOUS
  <1>1. \A v \in Viewers : TagsSent(v) = <<>> /\ Given(v) = <<>> /\ queued[v] = <<>>
    <2>1. \A v \in Viewers : out[v] = <<>> /\ queued[v] = <<>>
      BY DEF Init
    <2>2. <<>> \o <<>> = <<>>
      OBVIOUS
    <2>3. QED
      BY <2>1, <2>2 DEF TagsSent, Given
  <1>2. \A a, b : Numbered(<<>>, a, b)
    BY DEF Numbered
  <1>3. \A p \in Pushers : Members(p) = {}
    BY DEF Init, Members
  <1>4. QED
    BY <1>1, <1>2, <1>3 DEF TagInv, Counted

-----------------------------------------------------------------------------

LiveInv ==
  TypeOK /\ RoomsInv /\ MapHoldsViewers /\ OnlyReplacedDangles /\ SentInv /\ MakerInv /\ TagInv

LEMMA InitLive == Init => LiveInv
  <1> SUFFICES ASSUME Init PROVE LiveInv
    OBVIOUS
  <1>1. OnlyReplacedDangles
    BY DEF Init, None, OnlyReplacedDangles
  <1>2. QED
    BY <1>1, InitTypes, InitRooms, InitMap, InitSent, InitMaker, InitTag DEF LiveInv

LEMMA LiveStep == LiveInv /\ [Next]_vars => LiveInv'
  <1> SUFFICES ASSUME LiveInv, [Next]_vars PROVE LiveInv'
    OBVIOUS
  <1>1. /\ TypeOK /\ RoomsInv /\ MapHoldsViewers /\ OnlyReplacedDangles
        /\ SentInv /\ MakerInv /\ TagInv
    BY DEF LiveInv
  <1>2. TypeOK' /\ RoomsInv' /\ MapHoldsViewers' /\ OnlyReplacedDangles'
    BY <1>1, TypesStep, RoomsStep, MapStep, DangleStep
  <1>3. SentInv' /\ MakerInv' /\ TagInv'
    BY <1>1, SentStep, MakerStep, TagStep
  <1>4. QED
    BY <1>2, <1>3 DEF LiveInv

LEMMA LiveInvHolds == Spec => []LiveInv
  BY InitLive, LiveStep, PTL DEF Spec

\* The types of all variables, for any broadcasters, viewers and rooms.
THEOREM TypeCorrect == Spec => []TypeOK
  <1>1. LiveInv => TypeOK
    BY DEF LiveInv
  <1>2. QED
    BY <1>1, LiveInvHolds, PTL

\* The header is what every viewer is sent first, and it is sent once, although
\* another thread hands over tags before it is made.
THEOREM HeaderComesFirst == Spec => []HeaderFirst
  <1>1. LiveInv => HeaderFirst
    BY DEF LiveInv, SentInv
  <1>2. QED
    BY <1>1, LiveInvHolds, PTL

\* The map of the viewers holds those that watch, and nobody who has left.
THEOREM MapIsExact == Spec => []MapHoldsViewers
  <1>1. LiveInv => MapHoldsViewers
    BY DEF LiveInv
  <1>2. QED
    BY <1>1, LiveInvHolds, PTL

\* Only a broadcaster whose room was taken over by another leaves somebody with
\* a pointer to what is gone.
THEOREM OnlyReplaced == Spec => []OnlyReplacedDangles
  <1>1. LiveInv => OnlyReplacedDangles
    BY DEF LiveInv
  <1>2. QED
    BY <1>1, LiveInvHolds, PTL

\* A header that one viewer alone made is whole and stays as it is.
THEOREM HeaderIsWhole == Spec => []OneMakerOneHeader
  <1>1. LiveInv => OneMakerOneHeader
    BY MakerMeaning DEF LiveInv
  <1>2. QED
    BY <1>1, LiveInvHolds, PTL

\* A viewer is sent consecutive tags of the one broadcaster it joined.
THEOREM NoGap == Spec => []TagsWithoutGap
  <1>1. LiveInv => TagsWithoutGap
    <2>1. SUFFICES ASSUME LiveInv, NEW v \in Viewers, NEW i \in DOMAIN TagsSent(v)
                   PROVE  /\ TagsSent(v)[i].from = source[v]
                          /\ TagsSent(v)[i].n = TagsSent(v)[1].n + i - 1
      BY DEF TagsWithoutGap
    <2>2. /\ TagsSent(v) \in Seq(Items) /\ owed[v] \in Nat
          /\ Numbered(TagsSent(v), source[v], owed[v])
      BY <2>1, SequenceTypes DEF LiveInv, TagInv
    <2>3. Len(TagsSent(v)) \in Nat /\ i \in 1 .. Len(TagsSent(v)) /\ 1 \in 1 .. Len(TagsSent(v))
      BY <2>1, <2>2, LenProperties
    <2>4. TagsSent(v)[i] = Tag(source[v], owed[v] + i - 1) /\ TagsSent(v)[1] = Tag(source[v], owed[v] + 1 - 1)
      BY <2>2, <2>3 DEF Numbered
    <2>5. owed[v] + i - 1 = (owed[v] + 1 - 1) + i - 1
      BY <2>2, <2>3
    <2>6. QED
      BY <2>4, <2>5 DEF Tag
  <1>2. QED
    BY <1>1, LiveInvHolds, PTL

\* No viewer that stays misses a tag or is given one twice, however many come and
\* go during the walks.
THEOREM EveryTagOnce == Spec => []EveryTagGiven
  <1>1. LiveInv => EveryTagGiven
    <2>1. SUFFICES ASSUME LiveInv, NEW p \in Pushers, NEW v \in Members(p), up[v]
                   PROVE  Given(v) = [i \in 1 .. Made(v, p) - owed[v] + 1 |-> Tag(p, owed[v] + i - 1)]
      BY DEF EveryTagGiven
    <2>2. v \in Viewers /\ source[v] = p
      BY <2>1, MemberWatches DEF LiveInv
    <2>3. Given(v) \in Seq(Items) /\ Len(Given(v)) \in Nat
      BY <2>1, <2>2, SequenceTypes DEF LiveInv
    <2>4. /\ Numbered(Given(v), p, owed[v])
          /\ Len(Given(v)) = Made(v, p) - owed[v] + 1
      BY <2>1, <2>2 DEF LiveInv, TagInv, Counted
    <2>5. Given(v) = [i \in 1 .. Len(Given(v)) |-> Given(v)[i]]
      BY <2>3, LenProperties
    <2>6. \A i \in 1 .. Len(Given(v)) : Given(v)[i] = Tag(p, owed[v] + i - 1)
      BY <2>4 DEF Numbered
    <2>7. Given(v) = [i \in 1 .. Len(Given(v)) |-> Tag(p, owed[v] + i - 1)]
      BY <2>5, <2>6
    <2>8. QED
      BY <2>4, <2>7
  <1>2. QED
    BY <1>1, LiveInvHolds, PTL

=============================================================================
