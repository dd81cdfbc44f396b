------------------------------- MODULE Routing -------------------------------
(* Which handler a request is given: the locations of the configuration       *)
(* (GetLocation, src/config_parser.cc), the table of factories the server     *)
(* makes of them (src/server.cc) and the location a session picks for a       *)
(* target (match, src/session.cc).  A URL is a sequence of characters, and a  *)
(* character a number, in the order in which std::string compares them.  Of   *)
(* a location only its handler is kept, not the path it is given.             *)
EXTENDS Naturals, Sequences

Strings == INSTANCE SequencesExt

(* Handlers that need no root or data_path, and all the server makes. *)
Plain == {"EchoHandler", "HealthHandler", "SleepHandler", "MarkDownHandler"}
Known == Plain \cup {"StaticHandler", "CrudHandler"}

(* A statement "location url handler {...}"; rooted says whether its block    *)
(* has a root or data_path of two tokens.  Others are skipped by GetLocation. *)
Location(url, handler, rooted) == [url |-> url, handler |-> handler, rooted |-> rooted]

(* GetLocation: a later statement for the same URL replaces an earlier one. *)
Located(map, s) ==
  IF s.rooted \/ s.handler \in Plain
    THEN [u \in DOMAIN map \cup {s.url} |-> IF u = s.url THEN s.handler ELSE map[u]]
    ELSE map
GetLocation(config) == Strings!FoldLeft(Located, <<>>, config)

(* The key of the not-found handler; no target begins with it. *)
NotFoundHandler == <<0>>

(* The server's constructor adds the not-found handler once per location. *)
RoutesUnknown(map) ==
       {u \in DOMAIN map : map[u] \in Known}
  \cup (IF \E u \in DOMAIN map : map[u] \notin Known THEN {NotFoundHandler} ELSE {})
Routes(map) ==
       {u \in DOMAIN map : map[u] \in Known}
  \cup (IF DOMAIN map # {} THEN {NotFoundHandler} ELSE {})
-----------------------------------------------------------------------------
(* operator< of std::string. *)
Less(p, q) ==
  \/ Strings!IsPrefix(p, q) /\ p # q
  \/ \E k \in 1..Len(p) : /\ k <= Len(q) /\ p[k] < q[k]
                          /\ \A j \in 1..(k - 1) : p[j] = q[j]

(* The locations match does not skip: an echo's must be all of the target. *)
Matching(map, target) ==
  {u \in DOMAIN map : Strings!IsPrefix(u, target) /\ (map[u] = "EchoHandler" => u = target)}

(* match takes the first of them, from the end of the map, or none. *)
FirstForward(S) == CHOOSE u \in S : \A v \in S : v = u \/ Less(u, v)
First(S)        == CHOOSE u \in S : \A v \in S : v = u \/ Less(v, u)
match(map, target) ==
  IF Matching(map, target) = {} THEN NotFoundHandler ELSE First(Matching(map, target))
=============================================================================
