----------------------------- MODULE MCConnection -----------------------------
(* An instance of Connection for TLC. *)
EXTENDS Connection

CONSTANT a

MCCell == {a}
MCBody == UNION {[1..n -> MCCell] : n \in 0..3}

(* "/", "/api", "/echo", "/echos" and "/sign-up?j_username=": in the order of *)
(* characters, "/" comes before "a", "e" and "s".                             *)
MCRoot  == <<1>>
Api     == <<1, 2>>
Echo    == <<1, 3>>
Echos   == <<1, 3, 4>>
SignUp  == <<1, 5>>
MCForms == {SignUp}

MCConfigs ==
  { <<>>,
    << Location(MCRoot, "StaticHandler", TRUE), Location(Api, "CrudHandler", TRUE),
       Location(Echo, "EchoHandler", FALSE) >>,
    << Location(Api, "CrudHandler", FALSE), Location(Echo, "FastHandler", TRUE) >>,
    << Location(Api, "CrudHandler", TRUE), Location(Api, "StaticHandler", TRUE) >> }

(* A POST brings an empty or a short text, a PUT a short or a long one, for   *)
(* the first post or the directory.                                           *)
MCSent(r) ==
  CASE r.method = "POST" -> r.body \in {<<>>, <<a>>}
    [] r.method = "PUT"  -> r.id # 2 /\ r.body \in {<<a>>, <<a, a, a>>}
    [] OTHER             -> TRUE
AnyGet == CHOOSE r \in Request : r.method = "GET"
MCAsked ==
       {[target |-> Api, req |-> r] : r \in {q \in Request : MCSent(q)}}
  \cup {[target |-> t, req |-> AnyGet] : t \in {MCRoot, Echo, Echos, SignUp, Api \o SignUp}}

MCGarbage == {[i \in 1..MaxLength |-> a]}
=============================================================================
