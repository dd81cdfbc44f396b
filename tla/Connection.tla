------------------------------ MODULE Connection ------------------------------
(* One connection after another, on one thread: what send_res (session.cc)    *)
(* makes of the bytes in a session's buffer, which handler it gives the       *)
(* request to, and the CRUD handler's system calls.  A request arrives in as  *)
(* many pieces as the network likes, and a session parses each by itself; the *)
(* buffer is cleared after a request that parsed, and not after another.      *)
(*                                                                            *)
(* A cell of the buffer is some bytes: the first and the last part of a       *)
(* request's head, a part of its text, or NUL.  A peer sends its next request *)
(* when it has been answered.                                                 *)
EXTENDS CrudRefinesStore, Routing

CONSTANTS
  MaxLength, \* cells of data_
  Configs,   \* configurations, the locations of each
  Root,      \* the URL "/"
  Forms,     \* what the target of a sign-up or sign-in contains: SIGNUP, SIGNIN
  Asked,     \* what peers ask for: a target, and the request it stands for
  Garbage,   \* what an uninitialized data_ may contain
  NUL

Header == <<"line", "end">>

ASSUME BufferAssumption ==
  /\ MaxLength \in Nat /\ MaxLength > Len(Header)
  /\ NUL \notin Cell \cup {"line", "end"} /\ "line" \notin Cell /\ Garbage \subseteq [1..MaxLength -> Cell \cup {NUL}]
ASSUME AskedAssumption ==
  /\ Asked # {}
  /\ \A a \in Asked : /\ a.target \in Seq(Nat) /\ a.req \in Request
                      /\ ~Strings!IsPrefix(NotFoundHandler, a.target)
ASSUME RootAssumption == Root \in Seq(Nat) /\ ~Strings!IsPrefix(NotFoundHandler, Root)
ASSUME ConfigAssumption == \A c \in Configs : \A u \in DOMAIN GetLocation(c) : u \in Seq(Nat)

VARIABLES
  config,   \* the server's configuration
  step,     \* what the session does: "read", "serve" (the CRUD handler), "reply", or "undefined"
  sent,     \* what the peer has asked for
  wire,     \* cells of it that have not been read
  data,     \* data_
  location, \* locations[0], while a request is handled
  cleared   \* HISTORY: on this connection the last request parsed, and data_ was cleared

conn == <<config, step, sent, wire, data, location, cleared>>
connVars == <<vars, conn>>

Map     == GetLocation(config)
Wire(a) == Header \o a.req.body
Clear   == [i \in 1..MaxLength |-> NUL]

ConnInit ==
  /\ Init
  /\ config \in Configs
  /\ step = "read" /\ sent = (CHOOSE a \in Asked : TRUE) /\ wire = <<>>
  /\ data \in Garbage
  /\ location = NotFoundHandler /\ cleared = FALSE
-----------------------------------------------------------------------------
(* The peer. *)
Ask ==
  /\ step = "read" /\ wire = <<>>
  /\ \E a \in Asked :
       /\ a.req.method = "POST" => begun < MaxPosts
       /\ sent' = a /\ wire' = Wire(a)
  /\ UNCHANGED <<vars, config, step, data, location, cleared>>

(* The peer leaves, also in the middle of a request; the next one gets a new  *)
(* session, whose data_ the constructor does not initialize.                  *)
Reconnect ==
  /\ step = "read"
  /\ data' \in Garbage /\ cleared' = FALSE /\ wire' = <<>>
  /\ UNCHANGED <<vars, config, step, sent, location>>

(* async_read_some: n cells of what has been sent.  send_res runs on the same *)
(* thread, and nothing comes between (but see Server).                        *)
Read(n) ==
  /\ step = "read" /\ n <= Len(wire) /\ n <= MaxLength
  /\ data' = [i \in 1..MaxLength |-> IF i <= n THEN wire[i] ELSE data[i]]
  /\ wire' = SubSeq(wire, n + 1, Len(wire))
-----------------------------------------------------------------------------
(* send_res.  What does not begin with all of a head does not parse. *)
Parses(n) == n >= Len(Header) /\ \A i \in 1..Len(Header) : wire[i] = Header[i]

(* It is answered 400, and data_ is left as it is. *)
Refuse(n) ==
  /\ Read(n) /\ ~Parses(n)
  /\ cleared' = FALSE
  /\ UNCHANGED <<vars, config, step, sent, location>>

(* data_ + bytes_parsed as a C string: it goes on, past what has arrived, to  *)
(* the first NUL.  Behind data_ lies SIGN, which has just been set to false.  *)
InString(i) == \A j \in (Len(Header) + 1)..i : data[j] # NUL
StringEnd   == CHOOSE i \in Len(Header)..MaxLength :
                 InString(i) /\ (i < MaxLength => ~InString(i + 1))
String      == SubSeq(data, Len(Header) + 1, StringEnd)

BodyAlways(n) == String'
BodyOf(n) == IF n > Len(Header) THEN String' ELSE <<>>

(* A sign-up or a sign-in: its target contains SIGNUP or SIGNIN.  What it     *)
(* does to the users' files is module Auth's.                                 *)
Signs(target) == \E i, j \in 1..Len(target) : SubSeq(target, i, j) \in Forms

(* What is matched, and the key of the factory: handle_auth_success and       *)
(* handle_auth_fails take that of "/", whatever has matched.                  *)
Wanted  == IF Signs(sent.target) THEN Root ELSE sent.target
Factory == IF Signs(sent.target) THEN Root ELSE location

(* The request goes to the handler the factory makes; without a factory that  *)
(* is a null pointer.  One that is blocked (check_authorized_access), and one *)
(* its handler fails on, go to the not-found handler; a sign-up or sign-in is *)
(* not blocked.                                                               *)
ToCrud(w, n) ==
  /\ Factory' \in DOMAIN Map /\ Map[Factory'] = "CrudHandler"
  /\ Begin(w) /\ req'[w] = [sent.req EXCEPT !.body = BodyOf(n)]
  /\ step' = "serve"

ToOther ==
  /\ Factory' \in Routes(Map)
  /\ Factory' \in DOMAIN Map => Map[Factory'] # "CrudHandler"
  /\ step' = "reply" /\ UNCHANGED vars

ToNotFound ==
  /\ NotFoundHandler \in Routes(Map)
  /\ Signs(sent.target) => Factory' \in Routes(Map)
  /\ step' = "reply" /\ UNCHANGED vars

NoFactory ==
  /\ ~({Factory', NotFoundHandler} \subseteq Routes(Map))
  /\ step' = "undefined" /\ UNCHANGED vars

Dispatch(w, n) ==
  /\ Read(n) /\ Parses(n)
  /\ location' = match(Map, Wanted)
  /\ UNCHANGED <<config, sent, cleared>>
  /\ ToCrud(w, n) \/ ToOther \/ ToNotFound \/ NoFactory

HandleAll(w) == step = "serve" /\ Serve(w) /\ UNCHANGED conn
Handle(w)    == step = "serve" /\ pc[w] # "reply" /\ Serve(w) /\ UNCHANGED conn

(* The memset, and the end of send_res. *)
ClearedText == [i \in 1..MaxLength |-> IF i <= Len(Wire(sent)) THEN NUL ELSE data[i]]
ClearedData == Clear

Finish(w) ==
  /\ \/ step = "serve" /\ Reply(w)
     \/ step = "reply" /\ UNCHANGED vars
  /\ data' = ClearedData /\ cleared' = TRUE
  /\ step' = "read" /\ location' = NotFoundHandler
  /\ UNCHANGED <<config, sent, wire>>

ConnNext ==
  \/ Ask \/ Reconnect
  \/ \E n \in 1..MaxLength : Refuse(n) \/ \E w \in Worker : Dispatch(w, n)
  \/ \E w \in Worker : Handle(w) \/ Finish(w)

ConnSpec ==
  ConnInit /\ [][ConnNext]_connVars /\ \A w \in Worker : WF_connVars(Handle(w) \/ Finish(w))
-----------------------------------------------------------------------------
Bytes == Cell \cup {NUL, "line", "end"}

(* Every variable has its type, and a handler is at work exactly while the    *)
(* session waits for it.                                                      *)
ConnTypeOK ==
  /\ config \in Configs
  /\ step \in {"read", "serve", "reply", "undefined"}
  /\ sent \in Asked /\ wire \in Seq(Bytes) /\ data \in [1..MaxLength -> Bytes]
  /\ location \in DOMAIN Map \cup {NotFoundHandler}
  /\ cleared \in BOOLEAN
  /\ \A w \in Worker : (step = "serve") <=> (pc[w] # "idle")

(* What of the text of the request has arrived in the piece that is served.   *)
Arrived == SubSeq(sent.req.body, 1, Len(sent.req.body) - Len(wire))

(* A request on a connection whose last request parsed is served with exactly *)
(* the part of its text that has arrived in one piece with its head, whatever *)
(* requests and pieces the buffer held before: all of it, if the request is   *)
(* in one piece (the body taken from the buffer, and the memset,              *)
(* session.cc:92-97 and 171).                                                 *)
BodyIsSent ==
  \A w \in Worker : step = "serve" /\ cleared => req[w].body = Arrived

(* On every connection, also where data_ is uninitialized or left over from a *)
(* request that was refused, it is served with at least that part, and none   *)
(* of what was in data_ before is taken for a text where none has arrived     *)
(* (session.cc:92).                                                           *)
BodyBegins ==
  \A w \in Worker : step = "serve" =>
    /\ Strings!IsPrefix(Arrived, req[w].body)
    /\ Arrived = <<>> => req[w].body = <<>>

(* What is matched is given to the longest location that is not skipped,      *)
(* although the code looks for the first in reverse alphabetical order        *)
(* (match, session.cc:187).                                                   *)
LongestMatch ==
  step \in {"serve", "reply"} =>
    \A u \in Matching(Map, Wanted) :
      location # NotFoundHandler /\ Len(u) <= Len(location)

(* With a location at all and handlers the server knows, every request has    *)
(* its handler, and the not-found handler is there when that one fails        *)
(* (server.cc:22-60, session.cc:139-154), but for one: a sign-up or sign-in   *)
(* where no location is "/" (session.cc:335 and 357).                         *)
Sound == DOMAIN Map # {} /\ \A u \in DOMAIN Map : Map[u] \in Known
HandlerFound ==
  Sound /\ step = "undefined" => Signs(sent.target) /\ Root \notin DOMAIN Map
=============================================================================
