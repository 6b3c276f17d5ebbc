--------------------------- MODULE LiveBroadcast ---------------------------
(***************************************************************************)
(* From broadcasters to viewers: RtmpPushServer, RtmpPushConnection,       *)
(* HttpPullServer and HttpPullConnection (live/).                          *)
(*                                                                         *)
(* Every connection is handled by the loop of its own thread: the most     *)
(* concurrency the two thread pools can give.  The rooms and the map of    *)
(* the viewers of a push connection are used from all these threads        *)
(* without a lock.  Where two threads are about to use such a thing, and   *)
(* one of them to change it, they may do so at once: DataRace.  What is    *)
(* done on a destroyed object may end the program, or have no effect.      *)
(*                                                                         *)
(* RtmpShakeHand and RtmpCodec tell what happens before OnShakeHandSuccess *)
(* and before OnNewRtmpPack, TcpConnection what Send does with the data.   *)
(***************************************************************************)
EXTENDS Integers, SequencesExt

CONSTANTS
  Pushers,   \* connections of broadcasters
  Viewers,   \* connections of viewers, numbered in the order of their names
  Paths,     \* paths of rooms
  PathOf,    \* the path each broadcaster publishes
  MaxTags    \* bound: tags of each broadcaster

None == "none"

ASSUME ViewersAssumption == Viewers \subseteq Nat \ {0} /\ IsFiniteSet(Viewers)
ASSUME PathsAssumption == PathOf \in [Pushers -> Paths]
ASSUME NoneAssumption == None \notin Pushers
ASSUME MaxTagsAssumption == MaxTags \in [Pushers -> Nat]

VARIABLES
  pusher,   \* where a push connection is
  rooms,    \* rtmp_connection_map_
  first,    \* the first packs of a broadcaster: none, without audio, or all
  tags,     \* tags a broadcaster has made
  clients,  \* client_connection_map_
  at,       \* the viewer at which the walk over clients is, or 0
  header,   \* header_buffer_, a sequence of its parts
  viewer,   \* where a pull connection is
  source,   \* the push connection a viewer's callback points to
  packs,    \* the first packs of which GetHeaderDataBuffer makes the header
  queued,   \* functions that hold data for a viewer, in its loop
  out,      \* what a viewer was sent
  up,       \* the pull connection is CONNECTED
  crashed,  \* why the program has ended
  owed      \* ghost: the first tag a viewer is to get

pushVars == <<pusher, rooms, first, tags, at>>
pullVars == <<header, viewer, source, packs, up, owed>>
vars == <<pushVars, pullVars, clients, queued, out, crashed>>

Tag(p, n) == [kind |-> "tag", from |-> p, n |-> n]
Header(parts) == [kind |-> "header", parts |-> parts]

\* Steps of AddClientConnection, during which OnClientMessage holds a pointer
\* that counts.
Joining == {"insert", "check", "first part", "second part", "send"}

\* A push connection lives as long as its message callback holds it, which is
\* until the shake hand is done, a room does, or a viewer that joins.
Alive(p) ==
  \/ pusher[p] \in {"shake hand", "bound"}
  \/ rooms[PathOf[p]] = p
  \/ \E v \in Viewers : source[v] = p /\ viewer[v] \in Joining

Members(p) == IF Alive(p) THEN clients[p] ELSE {}

\* The first viewer of p behind place n, in the order of the map, or 0.
NextClientSkips(p, n) ==
  LET behind == {v \in Members(p) : v > n + 1}
  IN  IF behind = {} THEN 0 ELSE CHOOSE v \in behind : \A w \in behind : v <= w

NextClient(p, n) ==
  LET behind == {v \in Members(p) : v > n}
  IN  IF behind = {} THEN 0 ELSE CHOOSE v \in behind : \A w \in behind : v <= w

Init ==
  /\ pusher = [p \in Pushers |-> "shake hand"]
  /\ rooms = [path \in Paths |-> None]
  /\ first = [p \in Pushers |-> "none"]
  /\ tags = [p \in Pushers |-> 0]
  /\ clients = [p \in Pushers |-> {}]
  /\ at = [p \in Pushers |-> 0]
  /\ header = [p \in Pushers |-> <<>>]
  /\ viewer = [v \in Viewers |-> "new"]
  /\ source = [v \in Viewers |-> None]
  /\ packs = [v \in Viewers |-> "none"]
  /\ queued = [v \in Viewers |-> <<>>]
  /\ out = [v \in Viewers |-> <<>>]
  /\ up = [v \in Viewers |-> TRUE]
  /\ crashed = None
  /\ owed = [v \in Viewers |-> 0]

-----------------------------------------------------------------------------
(* The loop of a broadcaster *)

Runs == crashed = None

\* The connection that had the path before loses its room.
OnShakeHandSuccess(p) ==
  /\ Runs /\ pusher[p] = "shake hand"
  /\ rooms' = [rooms EXCEPT ![PathOf[p]] = p]
  /\ pusher' = [pusher EXCEPT ![p] = "bound"]
  /\ UNCHANGED <<first, tags, at, pullVars, clients, queued, out, crashed>>

\* The new message callback holds a plain pointer.
SetNewMessageCallback(p) ==
  /\ Runs /\ pusher[p] = "bound"
  /\ pusher' = [pusher EXCEPT ![p] = "live"]
  /\ UNCHANGED <<rooms, first, tags, at, pullVars, clients, queued, out, crashed>>

\* The script and the first video are there, the audio is not.
FirstPacksWithoutAudio(p) ==
  /\ Runs /\ pusher[p] = "live" /\ at[p] = 0 /\ Alive(p)
  /\ first[p] = "none"
  /\ first' = [first EXCEPT ![p] = "no audio"]
  /\ UNCHANGED <<pusher, rooms, tags, at, pullVars, clients, queued, out, crashed>>

\* An event that completes a pack: its tag goes to one viewer after the other.
OnNewFlvTag(p) ==
  /\ Runs /\ pusher[p] = "live" /\ at[p] = 0 /\ Alive(p)
  /\ tags[p] < MaxTags[p]
  /\ first' = [first EXCEPT ![p] = "all"]
  /\ tags' = [tags EXCEPT ![p] = @ + 1]
  /\ at' = [at EXCEPT ![p] = NextClient(p, 0)]
  /\ UNCHANGED <<pusher, rooms, pullVars, clients, queued, out, crashed>>

\* Mutant: the data overtakes the queue.
AddFlvTagDirectly(p) ==
  /\ Runs /\ at[p] # 0 /\ at[p] \in Members(p)
  /\ out' = IF up[at[p]] THEN [out EXCEPT ![at[p]] = Append(@, Tag(p, tags[p]))]
                         ELSE out
  /\ at' = [at EXCEPT ![p] = NextClient(p, at[p])]
  /\ UNCHANGED <<pusher, rooms, first, tags, pullVars, clients, queued, crashed>>

\* Send from another thread hands the data to the loop of the viewer.
AddFlvTag(p) ==
  /\ Runs /\ at[p] # 0 /\ at[p] \in Members(p)
  /\ queued' = IF up[at[p]] THEN [queued EXCEPT ![at[p]] = Append(@, Tag(p, tags[p]))]
                            ELSE queued
  /\ at' = [at EXCEPT ![p] = NextClient(p, at[p])]
  /\ UNCHANGED <<pusher, rooms, first, tags, pullVars, clients, out, crashed>>

\* The viewer at which the walk is was removed, or the whole map is destroyed.
AddFlvTagDangling(p) ==
  /\ Runs /\ at[p] # 0 /\ at[p] \notin Members(p)
  /\ crashed' \in {None, IF Alive(p) THEN "race" ELSE "dangling"}
  /\ at' = [at EXCEPT ![p] = NextClient(p, at[p])]
  /\ UNCHANGED <<pusher, rooms, first, tags, pullVars, clients, queued, out>>

\* OnBodyData of a destroyed push connection, where it does not do nothing.
OnBodyDataDangling(p) ==
  /\ Runs /\ pusher[p] = "live" /\ at[p] = 0 /\ ~Alive(p)
  /\ crashed' = "dangling"
  /\ UNCHANGED <<pushVars, pullVars, clients, queued, out>>

\* Mutant: the room is found by its path.
OnConnectionByPath(p) ==
  /\ Runs /\ pusher[p] \in {"shake hand", "live"} /\ at[p] = 0
  /\ pusher' = [pusher EXCEPT ![p] = "closed"]
  /\ rooms' = IF rooms[PathOf[p]] = p THEN [rooms EXCEPT ![PathOf[p]] = None] ELSE rooms
  /\ UNCHANGED <<first, tags, at, pullVars, clients, queued, out, crashed>>

\* RemoveRtmpPushConnection erases by the name of the connection from a map
\* that is keyed by path: no room has that key.
OnConnection(p) ==
  /\ Runs /\ pusher[p] \in {"shake hand", "live"} /\ at[p] = 0
  /\ pusher' = [pusher EXCEPT ![p] = "closed"]
  /\ UNCHANGED <<rooms, first, tags, at, pullVars, clients, queued, out, crashed>>

-----------------------------------------------------------------------------
(* The loop of a viewer *)

Goes(v, to) == viewer' = [viewer EXCEPT ![v] = to]

\* No room has the path: the connection is shut down.
OnClientMessageFailed(v, path) ==
  /\ Runs /\ viewer[v] = "new"
  /\ rooms[path] = None
  /\ up' = [up EXCEPT ![v] = FALSE]
  /\ Goes(v, "gone")
  /\ UNCHANGED <<pushVars, header, source, packs, owed, clients, queued, out, crashed>>

OnClientMessage(v, path) ==
  /\ Runs /\ viewer[v] = "new"
  /\ rooms[path] # None
  /\ source' = [source EXCEPT ![v] = rooms[path]]
  /\ Goes(v, "insert")
  /\ UNCHANGED <<pushVars, header, packs, up, owed, clients, queued, out, crashed>>

\* AddClientConnection: from here on tags are handed to the loop of the viewer.
AddClientConnection(v) ==
  /\ Runs /\ viewer[v] = "insert"
  /\ clients' = [clients EXCEPT ![source[v]] = @ \cup {v}]
  /\ owed' = [owed EXCEPT ![v] =
                IF at[source[v]] \in 1 .. v THEN tags[source[v]] ELSE tags[source[v]] + 1]
  /\ Goes(v, "check")
  /\ UNCHANGED <<pushVars, header, source, packs, up, queued, out, crashed>>

\* GetHeaderDataBuffer: a buffer that is not empty is not made again.
HeaderThere(v) ==
  /\ Runs /\ viewer[v] = "check"
  /\ header[source[v]] # <<>>
  /\ Goes(v, "send")
  /\ UNCHANGED <<pushVars, header, source, packs, up, owed, clients, queued, out, crashed>>

TakeFirstPacks(v) ==
  /\ Runs /\ viewer[v] = "check"
  /\ header[source[v]] = <<>> /\ first[source[v]] # "none"
  /\ packs' = [packs EXCEPT ![v] = first[source[v]]]
  /\ Goes(v, "first part")
  /\ UNCHANGED <<pushVars, header, source, up, owed, clients, queued, out, crashed>>

\* Transform takes the packs without looking whether they are there.
NoFirstPacks(v) ==
  /\ Runs /\ viewer[v] = "check"
  /\ header[source[v]] = <<>> /\ first[source[v]] = "none"
  /\ crashed' = "no first packs"
  /\ UNCHANGED <<pushVars, pullVars, clients, queued, out>>

\* The file header and the script, then the video and the audio if there is one.
MakeFirstPart(v) ==
  /\ Runs /\ viewer[v] = "first part"
  /\ header' = [header EXCEPT ![source[v]] = Append(@, "script")]
  /\ Goes(v, "second part")
  /\ UNCHANGED <<pushVars, source, packs, up, owed, clients, queued, out, crashed>>

\* Mutant: the packs are looked up again.
MakeSecondPartLate(v) ==
  /\ Runs /\ viewer[v] = "second part"
  /\ header' = [header EXCEPT ![source[v]] =
                  @ \o IF first[source[v]] = "all" THEN <<"video", "audio">> ELSE <<"video">>]
  /\ Goes(v, "send")
  /\ UNCHANGED <<pushVars, source, packs, up, owed, clients, queued, out, crashed>>

MakeSecondPart(v) ==
  /\ Runs /\ viewer[v] = "second part"
  /\ header' = [header EXCEPT ![source[v]] =
                  @ \o IF packs[v] = "all" THEN <<"video", "audio">> ELSE <<"video">>]
  /\ Goes(v, "send")
  /\ UNCHANGED <<pushVars, source, packs, up, owed, clients, queued, out, crashed>>

\* The loop of the viewer sends at once; then the pointer that counts is gone.
SendHeaderOnConnection(v) ==
  /\ Runs /\ viewer[v] = "send"
  /\ out' = [out EXCEPT ![v] = Append(@, Header(header[source[v]]))]
  /\ Goes(v, "watching")
  /\ UNCHANGED <<pushVars, header, source, packs, up, owed, clients, queued, crashed>>

\* Mutant: the newest is sent first.
SendInLoopNewest(v) ==
  /\ Runs /\ viewer[v] \in {"watching", "gone"}
  /\ queued[v] # <<>>
  /\ queued' = [queued EXCEPT ![v] = Front(@)]
  /\ out' = IF up[v] THEN [out EXCEPT ![v] = Append(@, Last(queued[v]))] ELSE out
  /\ UNCHANGED <<pushVars, pullVars, clients, crashed>>

\* SendInLoop, which sends nothing on a closed connection.
SendInLoop(v) ==
  /\ Runs /\ viewer[v] \in {"watching", "gone"}
  /\ queued[v] # <<>>
  /\ queued' = [queued EXCEPT ![v] = Tail(@)]
  /\ out' = IF up[v] THEN [out EXCEPT ![v] = Append(@, Head(queued[v]))] ELSE out
  /\ UNCHANGED <<pushVars, pullVars, clients, crashed>>

\* OnClose of the connection, and HttpPullConnection::OnConnection.
OnClose(v) ==
  /\ Runs /\ viewer[v] = "watching"
  /\ up' = [up EXCEPT ![v] = FALSE]
  /\ Goes(v, "erase")
  /\ UNCHANGED <<pushVars, header, source, packs, owed, clients, queued, out, crashed>>

\* Mutant: erased by the name of the push connection.
OnConnectionCloseOther(v) ==
  /\ Runs /\ viewer[v] = "erase" /\ Alive(source[v])
  /\ Goes(v, "gone")
  /\ UNCHANGED <<pushVars, header, source, packs, up, owed, clients, queued, out, crashed>>

OnConnectionClose(v) ==
  /\ Runs /\ viewer[v] = "erase" /\ Alive(source[v])
  /\ clients' = [clients EXCEPT ![source[v]] = @ \ {v}]
  /\ Goes(v, "gone")
  /\ UNCHANGED <<pushVars, header, source, packs, up, owed, queued, out, crashed>>

\* The callbacks point to objects that went with the push connection.
OnConnectionCloseDangling(v) ==
  /\ Runs /\ viewer[v] = "erase" /\ ~Alive(source[v])
  /\ crashed' \in {None, "dangling"}
  /\ Goes(v, "gone")
  /\ UNCHANGED <<pushVars, header, source, packs, up, owed, clients, queued, out>>

-----------------------------------------------------------------------------
(* Two threads at once *)

Changing(p) == {v \in Viewers : source[v] = p /\ viewer[v] \in {"insert", "erase"}}
Making(p) == {v \in Viewers : source[v] = p /\ viewer[v] \in {"first part", "second part"}}
Reading(p) == {v \in Viewers : source[v] = p /\ viewer[v] \in {"check", "send"}}

\* On the map of viewers, the header buffer, the first packs, and the rooms.
Conflict ==
  \/ \E p \in Pushers : Alive(p) /\
       \/ Changing(p) # {} /\ at[p] # 0
       \/ \E v, w \in Changing(p) : v # w
       \/ \E v \in Making(p), w \in Making(p) \cup Reading(p) : v # w
       \/ first[p] # "all" /\ pusher[p] = "live" /\ \E v \in Reading(p) : viewer[v] = "check"
  \/ \E p \in Pushers : pusher[p] = "shake hand" /\
       \/ \E v \in Viewers : viewer[v] = "new"
       \/ \E q \in Pushers \ {p} : pusher[q] = "shake hand"

DataRace ==
  /\ Runs /\ Conflict
  /\ crashed' = "race"
  /\ UNCHANGED <<pushVars, pullVars, clients, queued, out>>

-----------------------------------------------------------------------------

PushStep(p) ==
  SetNewMessageCallback(p) \/ AddFlvTag(p) \/ AddFlvTagDangling(p)

PullStep(v) ==
  \/ AddClientConnection(v) \/ HeaderThere(v) \/ TakeFirstPacks(v) \/ NoFirstPacks(v)
  \/ MakeFirstPart(v) \/ MakeSecondPart(v) \/ SendHeaderOnConnection(v)
  \/ SendInLoop(v) \/ OnConnectionClose(v) \/ OnConnectionCloseDangling(v)

\* What arrives from outside: nothing has to.
Input ==
  \/ \E p \in Pushers : \/ OnShakeHandSuccess(p) \/ FirstPacksWithoutAudio(p)
                        \/ OnNewFlvTag(p) \/ OnBodyDataDangling(p) \/ OnConnection(p)
  \/ \E v \in Viewers : \/ \E path \in Paths : OnClientMessage(v, path)
                        \/ \E path \in Paths : OnClientMessageFailed(v, path)
                        \/ OnClose(v)

\* The program has ended, or everybody has left.
Done ==
  /\ \/ crashed # None
     \/ /\ \A p \in Pushers : pusher[p] = "closed"
        /\ \A v \in Viewers : viewer[v] = "gone" /\ queued[v] = <<>>
  /\ UNCHANGED vars

Next ==
  \/ Input
  \/ \E p \in Pushers : PushStep(p)
  \/ \E v \in Viewers : PullStep(v)
  \/ DataRace
  \/ Done

Spec == Init /\ [][Next]_vars

-----------------------------------------------------------------------------
(* Properties *)

Parts == {"script", "video", "audio"}
Tags == [kind : {"tag"}, from : Pushers, n : Nat]
Headers == [kind : {"header"}, parts : Seq(Parts)]

TypeOK ==
  /\ pusher \in [Pushers -> {"shake hand", "bound", "live", "closed"}]
  /\ rooms \in [Paths -> Pushers \cup {None}]
  /\ first \in [Pushers -> {"none", "no audio", "all"}]
  /\ tags \in [Pushers -> Nat] /\ \A p \in Pushers : tags[p] <= MaxTags[p]
  /\ clients \in [Pushers -> SUBSET Viewers]
  /\ at \in [Pushers -> Viewers \cup {0}]
  /\ header \in [Pushers -> Seq(Parts)]
  /\ viewer \in [Viewers -> Joining \cup {"new", "watching", "erase", "gone"}]
  /\ source \in [Viewers -> Pushers \cup {None}]
  /\ \A v \in Viewers : viewer[v] \in Joining => source[v] \in Pushers
  /\ owed \in [Viewers -> Nat]
  /\ packs \in [Viewers -> {"none", "no audio", "all"}]
  /\ queued \in [Viewers -> Seq(Tags)] /\ out \in [Viewers -> Seq(Tags \cup Headers)]
  /\ up \in [Viewers -> BOOLEAN]
  /\ crashed \in {None, "race", "dangling", "no first packs"}

\* What a viewer was sent behind the header.
TagsSent(v) == IF out[v] = <<>> THEN <<>> ELSE Tail(out[v])

\* A viewer is sent the header first and only once, although tags are handed to
\* its connection by another thread before the header is made
\* (AddClientConnection, AddFlvTag).
HeaderFirst ==
  \A v \in Viewers : \A i \in DOMAIN out[v] : out[v][i].kind = "header" <=> i = 1

\* From its first tag on a viewer is sent every tag of the one broadcaster it
\* joined, in order, whoever joins and leaves meanwhile (OnNewFlvTag).
TagsWithoutGap ==
  \A v \in Viewers : \A i \in DOMAIN TagsSent(v) :
    /\ TagsSent(v)[i].from = source[v]
    /\ TagsSent(v)[i].n = TagsSent(v)[1].n + i - 1

\* The map of the viewers of a push connection that exists holds those that
\* watch and no one that has left (AddClientConnection, OnConnectionClose).
MapHoldsViewers ==
  \A p \in Pushers : Alive(p) =>
    clients[p] = {v \in Viewers : /\ source[v] = p
                                  /\ viewer[v] \in (Joining \ {"insert"}) \cup {"watching", "erase"}}

\* Nothing but a second broadcaster on the same path destroys a push connection
\* that somebody still points to: a broadcaster that leaves does not, as its
\* room keeps the object (OnShakeHandSuccess, RemoveRtmpPushConnection).
OnlyReplacedDangles ==
  crashed = "dangling" =>
    \E p \in Pushers : /\ pusher[p] \in {"live", "closed"}
                       /\ rooms[PathOf[p]] \notin {p, None}

\* Every tag made while a viewer is in the map is sent to it or waits in its
\* loop, unless the walk has not come to it yet: none is missed by a viewer that
\* stays, and none is given twice, however other viewers come and go during the
\* walk (OnNewFlvTag, AddFlvTag).
Given(v) == TagsSent(v) \o queued[v]
Made(v, p) == IF at[p] \in 1 .. v THEN tags[p] - 1 ELSE tags[p]

EveryTagGiven ==
  \A p \in Pushers : \A v \in Members(p) : up[v] =>
    Given(v) = [i \in 1 .. Made(v, p) - owed[v] + 1 |-> Tag(p, owed[v] + i - 1)]

\* A header that one viewer alone made is whole: it has the packs that were there
\* when it was begun, whatever arrives meanwhile, and nobody appends to it later.
\* Two viewers that both find the buffer empty make more than one, and that is
\* why this says no more (GetHeaderDataBuffer).
Makers(p) == {v \in Viewers : source[v] = p /\ packs[v] # "none"}

OneMakerOneHeader ==
  \A p \in Pushers : \A v \in Makers(p) :
    Makers(p) = {v} /\ Making(p) = {} =>
      header[p] = IF packs[v] = "all" THEN <<"script", "video", "audio">>
                                      ELSE <<"script", "video">>

=============================================================================
