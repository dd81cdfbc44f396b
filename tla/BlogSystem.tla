------------------------------ MODULE BlogSystem ------------------------------
(* The front end with the server behind it: BlogApp's fetches are requests to *)
(* the CRUD handler, taken as the store that PostStore promises.  A request   *)
(* waits in the browser, takes effect at the server, and is answered; the     *)
(* connection may break at any time, which the server does not notice.  The   *)
(* user of this browser is the only one who changes the posts.                *)
EXTENDS BlogApp

CONSTANTS
  Stored,   \* Stored[d]: the posts of d, by id, before the page is opened
  MaxBreaks \* BOUND: connections that break

ASSUME StoredAssumption ==
  \A d \in Dir :
    /\ IsFiniteSet(DOMAIN Stored[d]) /\ DOMAIN Stored[d] \subseteq Id
    /\ \A i \in DOMAIN Stored[d] : Stored[d][i] \in Texts(d, i)

VARIABLES
  dirs, post, phase, req, out, begun, \* the store, a worker per connection
  broken,    \* connections whose request is still at the server, unheard
  breaks,    \* BOUND: connections that broke
  cleanList, \* HISTORY: since before the newest fetchPosts was sent, no create
             \* or delete has been under way
  cleanPost  \* HISTORY: since before the newest getPost was sent, no save or
             \* delete has, and nothing was typed

store     == <<dirs, post, phase, req, out, begun>>
clean     == <<cleanList, cleanPost>>
systemVars == <<vars, store, broken, breaks, clean>>

Piece == (Dir \cup {NoDir}) \X (Id \cup {0})
Store == INSTANCE PostStore
           WITH Worker <- Conn, Dir <- Dir \cup {NoDir}, Cell <- Piece,
                Body <- Seq(Piece), MaxPosts <- MaxActs

(* The method and the path of each request of BlogService. *)
Method == [list |-> "GET", get |-> "GET", create |-> "POST", save |-> "PUT",
           delete |-> "DELETE"]
Request(k) == [method |-> Method[k.kind], dir |-> k.dir, id |-> k.id, body |-> k.text]

SystemInit ==
  /\ Init
  /\ post = [d \in Dir \cup {NoDir} |-> IF d \in Dir THEN Stored[d] ELSE <<>>]
  /\ dirs = {d \in Dir : Stored[d] # <<>>}
  /\ phase = [c \in Conn |-> "idle"]
  /\ req = [c \in Conn |-> Store!NoRequest]
  /\ out = [c \in Conn |-> Store!Blank] /\ begun = 0
  /\ broken = {} /\ breaks = 0
  /\ cleanList = FALSE /\ cleanPost = FALSE

(* Is a request with one of the methods M under way, heard or not? *)
UnderWay(kinds, M) ==
  \E c \in Conn : call[c].kind \in kinds \/ (phase[c] # "idle" /\ req[c].method \in M)
Relisting == UnderWay({"create", "delete"}, {"POST", "DELETE"})
Rewriting == UnderWay({"save", "delete"}, {"PUT", "DELETE"})

WasTyped == acts' # acts /\ currentPost' # currentPost
Record ==
  /\ cleanList' = (/\ ~Relisting' /\ breaks' = breaks
                   /\ cleanList \/ lastList' \notin {lastList, NoConn})
  /\ cleanPost' = (/\ ~Rewriting' /\ ~WasTyped
                   /\ cleanPost \/ lastGet' \notin {lastGet, NoConn})
-----------------------------------------------------------------------------
(* The browser sends the request of c; one that is still at the server on the *)
(* same connection has to be given up first.                                  *)
Send(c) ==
  /\ ~Free(c) /\ Store!Call(c, Request(call[c]))
  /\ UNCHANGED <<vars, broken, breaks>>

Serve(c) == Store!Apply(c) /\ UNCHANGED <<vars, broken, breaks>>

(* What BlogService makes of a response: a status that is not ok rejects, and *)
(* so does a listing that is no JSON, the one without its opening bracket.    *)
ReceiveAny(c, ok, r) ==
  /\ \/ ListSettles(c, ok /\ r.open = "[", r.names)
     \/ GetSettles(c, TRUE, r.text)
     \/ CreateSettles(c, ok) \/ SetSettles(c) \/ DeleteSettles(c, ok)
  /\ UNCHANGED acts

Receive(c, ok, r) ==
  /\ \/ ListSettles(c, ok /\ r.open = "[", r.names)
     \/ GetSettles(c, ok, r.text)
     \/ CreateSettles(c, ok) \/ SetSettles(c) \/ DeleteSettles(c, ok)
  /\ UNCHANGED acts

Answer(c) ==
  /\ c \notin broken /\ ~Free(c)
  /\ Store!Return(c) /\ Store!Forget(c) /\ Receive(c, out[c].status = 200, out[c])
  /\ UNCHANGED <<broken, breaks>>

(* The connection breaks: the promise is rejected, the server goes on. *)
Break(c) ==
  /\ breaks < MaxBreaks /\ breaks' = breaks + 1
  /\ Receive(c, FALSE, Store!Blank)
  /\ broken' = IF phase[c] = "idle" THEN broken ELSE broken \cup {c}
  /\ UNCHANGED store

GiveUp(c) ==
  /\ c \in broken
  /\ Store!Return(c) /\ Store!Forget(c) /\ broken' = broken \ {c}
  /\ UNCHANGED <<vars, breaks>>

Progress(c) == Send(c) \/ Serve(c) \/ Answer(c) \/ GiveUp(c)

SystemNext ==
  /\ \/ (HashChange \/ Click) /\ UNCHANGED <<store, broken, breaks>>
     \/ \E c \in Conn : Progress(c) \/ Break(c)
  /\ Record

SystemSpec == SystemInit /\ [][SystemNext]_systemVars
-----------------------------------------------------------------------------
(* No post ever holds a text that was written for another, whichever saves,   *)
(* deletes and answers cross.                                                 *)
NoCrossWrite ==
  \A d \in Dir : \A i \in DOMAIN post[d] : post[d][i] \in Own(d, i)

(* At rest on the list of a directory, the list is what the server has, if    *)
(* the newest fetch was answered last and was sent when no create or delete   *)
(* was under way (fetchPosts, 26-33, and the handlers that call it).          *)
ListFresh ==
  Quiet /\ Routed(hash) /\ hash.view = "list" /\ listNewest /\ cleanList =>
    posts = DOMAIN post[hash.dir]

(* At rest on a post, the post is there and edit and preview hold its text,   *)
(* if the newest get was answered last, was sent when no save or delete was   *)
(* under way, and nothing was typed since (get, 35-53).                       *)
PostFresh ==
  /\ Quiet /\ Routed(hash) /\ hash.view # "list" /\ hash.id # 0
  /\ postNewest /\ cleanPost
  => /\ hash.id \in DOMAIN post[hash.dir]
     /\ currentPost.content = post[hash.dir][hash.id]
=============================================================================
