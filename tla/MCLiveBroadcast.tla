-------------------------- MODULE MCLiveBroadcast --------------------------
(* Two broadcasters with the same path, so that one may take the room of the *)
(* other, and two viewers.  The names of the viewers are in the order of the *)
(* map; either may join first.                                               *)
EXTENDS LiveBroadcast

MCPushers == {"p1", "p2"}
MCViewers == {1, 2}
MCPaths == {"live"}
MCPathOf == [p \in MCPushers |-> "live"]
MCMaxTags == [p \in MCPushers |-> IF p = "p1" THEN 2 ELSE 1]
=============================================================================
