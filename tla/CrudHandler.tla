----------------------------- MODULE CrudHandler -----------------------------
(* The CRUD request handler (src/crud_request_handler.cc) run by the threads  *)
(* of the server's pool over one shared directory tree.  Nothing in the code  *)
(* locks that tree, so every system call of a handler is a step of its own    *)
(* and any other thread may run in between.                                   *)
(*                                                                            *)
(* A post is the file  <fs_path>/<dir>/<id>;  a directory is one user's.      *)
(* History variables (deleted, seen) are read by no guard.  A definition with *)
(* a faulty variant beside it (EmptyAny, FollowingSkip, ...) is one whose     *)
(* fault the properties below are known to notice; the specification itself   *)
(* never uses the variants.                                                   *)
EXTENDS Naturals, Sequences

CONSTANTS
  Worker,   \* threads of the pool, each serving one request at a time
  Dir,      \* entity directories: the first component under /api
  Cell,     \* what a post is written in; only lengths and equality matter
  Body,     \* request bodies a client may send
  MaxPosts, \* BOUND: number of POST requests ever begun
  IOFails   \* threads whose system calls may fail for a reason outside the
            \* model (descriptors exhausted, disk full); the others' never do

ASSUME BodyAssumption == Body \subseteq Seq(Cell) /\ <<>> \in Body
ASSUME MaxPostsAssumption == MaxPosts \in Nat
ASSUME IOFailsAssumption == IOFails \subseteq Worker

VARIABLES
  dirs,     \* directories that exist
  post,     \* post[d]: function from the ids present in d to their contents
  pc,       \* pc[w]: the next system call of w's handler
  req,      \* req[w]: the request w serves, or served last
  id,       \* id[w]: the id of the path being tried (0: the directory itself)
  fd,       \* threads whose second stream is open on the file their path names
  out,      \* out[w]: the response w has made to that request, if it has
  begun,    \* number of POST requests begun
  deleted,  \* history: the ids ever removed from d; 0 when d itself was
  seen      \* history: ids present when w's request began and not removed since

store == <<dirs, post>>
hist  == <<deleted, seen>>
vars  == <<dirs, post, pc, req, id, fd, out, begun, deleted, seen>>

Ids == 1..MaxPosts

(* The requests of the front end (blog.service.ts): a POST names a directory  *)
(* and a PUT, as any client may send it, a post or the directory itself.      *)
Request ==
       [method : {"GET", "DELETE"}, dir : Dir, id : Ids \cup {0}, body : {<<>>}]
  \cup [method : {"PUT"},  dir : Dir, id : Ids \cup {0}, body : Body]
  \cup [method : {"POST"}, dir : Dir, id : {0}, body : Body]
  \cup [method : {"PATCH"}, dir : Dir, id : {0}, body : {<<>>}]

(* A response: the id of a POST, the text of a file, or the names and the     *)
(* opening bracket of a listing.                                              *)
Out(s, i, t, names, open) ==
  [status |-> s, id |-> i, text |-> t, names |-> names, open |-> open]

Response == [status : {0, 200, 404}, id : Nat, text : Seq(Cell),
             names : SUBSET Nat, open : {"", "["}]

Blank      == Out(0, 0, <<>>, {}, "")
Ok         == Out(200, 0, <<>>, {}, "")
NotFound   == Out(404, 0, <<>>, {}, "")
Text(t)    == Out(200, 0, t, {}, "")
Created(n) == Out(200, n, <<>>, {}, "")
(* read_dir appends "name," for each entry to "[" and then drops the last     *)
(* character: of an empty directory, that character is the bracket.           *)
Listing(S) == Out(200, 0, <<>>, S, IF S = {} THEN "" ELSE "[")

(* boost::filesystem::exists of a directory or of a post. *)
ExistsNext(d, i) == IF i = 0 THEN d \in dirs ELSE i + 1 \in DOMAIN post[d]
Exists(d, i) == IF i = 0 THEN d \in dirs ELSE i \in DOMAIN post[d]

(* std::remove takes a directory only when nothing is left in it. *)
EmptyAny(d) == TRUE
Empty(d)    == DOMAIN post[d] = {}

(* The id handlePost tries after i. *)
FollowingSkip(i) == i + 2
FollowingSame(i) == i
Following(i)     == i + 1

(* f with content c at i. *)
StoreKeep(f, i, c) == [j \in DOMAIN f \cup {i} |-> IF j \in DOMAIN f THEN f[j] ELSE c]
Store(f, i, c) == [j \in DOMAIN f \cup {i} |-> IF j = i THEN c ELSE f[j]]
Unlink(f, i)   == [j \in DOMAIN f \ {i} |-> f[j]]

(* write(2) at offset 0: what lies beyond the new text is left in the file.   *)
Overlay(new, old) == new \o SubSeq(old, Len(new) + 1, Len(old))

Goto(w, l) == pc' = [pc EXCEPT ![w] = l]
Respond(w, r) == out' = [out EXCEPT ![w] = r] /\ Goto(w, "reply")

(* serve: the handler the method picks begins with this call. *)
FirstStepUnchecked == [GET |-> "opendir", POST |-> "exists", PUT |-> "open",
                       DELETE |-> "remove", PATCH |-> "other"]
FirstStep == [GET |-> "opendir", POST |-> "exists", PUT |-> "lookup",
              DELETE |-> "remove", PATCH |-> "other"]
-----------------------------------------------------------------------------
Init ==
  /\ dirs \in SUBSET Dir
  /\ post = [d \in Dir |-> <<>>]
  /\ pc = [w \in Worker |-> "idle"]
  /\ req \in [Worker -> {[method |-> "PATCH", dir |-> d, id |-> 0, body |-> <<>>] : d \in Dir}]
  /\ id = [w \in Worker |-> 0]
  /\ fd = {}
  /\ out = [w \in Worker |-> Blank]
  /\ begun = 0
  /\ deleted = [d \in Dir |-> {}]
  /\ seen = [w \in Worker |-> {}]

(* serve: the method picks the handler; handlePost starts with id = 1. *)
Begin(w) ==
  /\ pc[w] = "idle"
  /\ \E r \in Request :
       /\ r.method = "POST" => begun < MaxPosts
       /\ begun' = IF r.method = "POST" THEN begun + 1 ELSE begun
       /\ req' = [req EXCEPT ![w] = r]
       /\ id' = [id EXCEPT ![w] = IF r.method = "POST" THEN 1 ELSE r.id]
       /\ seen' = [seen EXCEPT ![w] = DOMAIN post[r.dir]]
       /\ Goto(w, FirstStep[r.method])
  /\ out' = [out EXCEPT ![w] = Blank]
  /\ UNCHANGED <<store, fd, deleted>>

(* serve: any other method leaves the empty 200 response it began with. *)
Other(w) ==
  /\ pc[w] = "other"
  /\ Respond(w, Ok)
  /\ UNCHANGED <<store, req, id, fd, begun, hist>>

(* handleGet tries the path as a directory ... *)
OpenDir(w) ==
  /\ pc[w] = "opendir"
  /\ \/ /\ id[w] = 0 /\ req[w].dir \in dirs
        /\ Respond(w, Listing(DOMAIN post[req[w].dir]))
     \/ /\ ~(id[w] = 0 /\ req[w].dir \in dirs) \/ w \in IOFails
        /\ Goto(w, "readfile")
        /\ UNCHANGED out
  /\ UNCHANGED <<store, req, id, fd, begun, hist>>

(* ... and then as a file.  A directory that has appeared meanwhile opens but *)
(* has nothing to read.                                                       *)
ReadFile(w) ==
  /\ pc[w] = "readfile"
  /\ LET d == req[w].dir IN
     \/ /\ Exists(d, id[w])
        /\ Respond(w, Text(IF id[w] = 0 THEN <<>> ELSE post[d][id[w]]))
     \/ /\ ~Exists(d, id[w]) \/ w \in IOFails
        /\ Respond(w, NotFound)
  /\ UNCHANGED <<store, req, id, fd, begun, hist>>

(* handlePost: does the directory exist? *)
CheckDir(w) ==
  /\ pc[w] = "exists"
  /\ Goto(w, IF req[w].dir \in dirs THEN "probe" ELSE "mkdir")
  /\ UNCHANGED <<store, req, id, fd, out, begun, hist>>

(* create_directory is content with a directory made meanwhile and throws on  *)
(* failure, which serve turns into an error; the post then goes to id 1.      *)
MakeDir(w) ==
  /\ pc[w] = "mkdir"
  /\ \/ /\ dirs' = dirs \cup {req[w].dir}
        /\ Goto(w, "open")
        /\ UNCHANGED out
     \/ /\ w \in IOFails
        /\ Respond(w, NotFound)
        /\ UNCHANGED dirs
  /\ UNCHANGED <<post, req, id, fd, begun, hist>>

(* handlePost: the first id whose file does not exist. *)
Probe(w) ==
  /\ pc[w] = "probe"
  /\ \/ /\ Exists(req[w].dir, id[w])
        /\ id' = [id EXCEPT ![w] = Following(@)]
        /\ UNCHANGED pc
     \/ /\ ~Exists(req[w].dir, id[w])
        /\ Goto(w, "open")
        /\ UNCHANGED id
  /\ UNCHANGED <<store, req, fd, out, begun, hist>>

(* handlePut: only a path that exists is written. *)
Lookup(w) ==
  /\ pc[w] = "lookup"
  /\ IF Exists(req[w].dir, id[w])
       THEN Goto(w, "open") /\ UNCHANGED out
       ELSE Respond(w, NotFound)
  /\ UNCHANGED <<store, req, id, fd, begun, hist>>

(* Opening for output creates or truncates the file; it fails, and nobody     *)
(* looks, on a directory or where the directory is gone.                      *)
Creat(w, opened) ==
  LET d == req[w].dir IN
  \/ /\ opened /\ d \in dirs /\ id[w] # 0
     /\ post' = [post EXCEPT ![d] = Store(post[d], id[w], <<>>)]
  \/ /\ ~opened /\ (d \notin dirs \/ id[w] = 0 \/ w \in IOFails)
     /\ UNCHANGED post

(* write_file: the OFStream, never written to nor closed ... *)
OpenFile(w) ==
  /\ pc[w] = "open"
  /\ \E opened \in BOOLEAN : Creat(w, opened)
  /\ Goto(w, "reopen")
  /\ UNCHANGED <<dirs, req, id, fd, out, begun, hist>>

(* ... then a second stream on the same path ... *)
ReopenFile(w) ==
  /\ pc[w] = "reopen"
  /\ \E opened \in BOOLEAN :
       Creat(w, opened) /\ fd' = IF opened THEN fd \cup {w} ELSE fd
  /\ Goto(w, "write")
  /\ UNCHANGED <<dirs, req, id, out, begun, hist>>

(* The response of handlePost and of handlePut. *)
PromiseNext(w) == IF req[w].method = "POST" THEN Created(id[w] + 1) ELSE Text(req[w].body)
Promise(w) == IF req[w].method = "POST" THEN Created(id[w]) ELSE Text(req[w].body)

(* ... whose buffer reaches the file when it is closed, if nothing fails.     *)
(* The response says success whether or not there was a file to write, and    *)
(* whether or not writing it failed.  (A failing write that is cut short      *)
(* counts as one that writes nothing: what it leaves is told apart nowhere.)  *)
WriteFile(w) ==
  /\ pc[w] = "write"
  /\ \/ /\ w \in fd
        /\ LET d == req[w].dir IN post' = [post EXCEPT ![d][id[w]] = Overlay(req[w].body, @)]
     \/ (w \notin fd \/ w \in IOFails) /\ UNCHANGED post
  /\ fd' = fd \ {w}
  /\ Respond(w, Promise(w))
  /\ UNCHANGED <<dirs, req, id, begun, hist>>

(* handleDelete: std::remove unlinks a file, or removes an empty directory.   *)
(* A stream still open on an unlinked file no longer leads to a post.         *)
Remove(w) ==
  LET d == req[w].dir  i == id[w] IN
  /\ pc[w] = "remove"
  /\ \/ /\ i # 0 /\ Exists(d, i)
        /\ post' = [post EXCEPT ![d] = Unlink(post[d], i)]
        /\ fd' = {v \in fd : ~(req[v].dir = d /\ id[v] = i)}
        /\ deleted' = [deleted EXCEPT ![d] = @ \cup {i}]
        /\ seen' = [v \in Worker |-> IF req[v].dir = d THEN seen[v] \ {i} ELSE seen[v]]
        /\ Respond(w, Ok)
        /\ UNCHANGED dirs
     \/ /\ i = 0 /\ d \in dirs /\ Empty(d)
        /\ dirs' = dirs \ {d}
        /\ deleted' = [deleted EXCEPT ![d] = @ \cup {0}]
        /\ Respond(w, Ok)
        /\ UNCHANGED <<post, fd, seen>>
     \/ /\ ~Exists(d, i) \/ (i = 0 /\ ~Empty(d)) \/ w \in IOFails
        /\ Respond(w, NotFound)
        /\ UNCHANGED <<store, fd, hist>>
  /\ UNCHANGED <<req, id, begun>>

(* The session sends the response (session.cc) and the worker is free. *)
Reply(w) ==
  /\ pc[w] = "reply"
  /\ Goto(w, "idle")
  /\ seen' = [seen EXCEPT ![w] = {}]
  /\ UNCHANGED <<store, req, id, fd, out, begun, deleted>>

(* The steps of a request once it has been read: a thread never gives up one. *)
Serve(w) ==
  \/ Other(w) \/ OpenDir(w) \/ ReadFile(w) \/ CheckDir(w) \/ MakeDir(w)
  \/ Probe(w) \/ Lookup(w) \/ OpenFile(w) \/ ReopenFile(w) \/ WriteFile(w)
  \/ Remove(w) \/ Reply(w)

Next == \E w \in Worker : Begin(w) \/ Serve(w)

Spec == Init /\ [][Next]_vars /\ \A w \in Worker : WF_vars(Serve(w))
-----------------------------------------------------------------------------
Writing == {"open", "reopen", "write"}

(* Types of the state, with the one structural fact the file system itself    *)
(* guarantees: a post lies in a directory that exists.                        *)
TreeOK ==
  /\ dirs \subseteq Dir
  /\ DOMAIN post = Dir
  /\ \A d \in Dir : /\ DOMAIN post[d] \subseteq Nat \ {0}
                    /\ \A i \in DOMAIN post[d] : post[d][i] \in Seq(Cell)
                    /\ DOMAIN post[d] # {} => d \in dirs

TypeOK ==
  /\ TreeOK
  /\ pc \in [Worker -> {"idle", "opendir", "readfile", "exists", "mkdir", "probe",
                        "lookup", "remove", "other", "reply"} \cup Writing]
  /\ req \in [Worker -> Request]
  /\ id \in [Worker -> Nat]
  /\ fd \subseteq Worker
  /\ out \in [Worker -> Response]
  /\ begun \in 0..MaxPosts
  /\ deleted \in [Dir -> SUBSET Nat]
  /\ seen \in [Worker -> SUBSET Nat]

(* Ids are handed out from 1 without gaps: an id below a post's is a post, or *)
(* was one until a DELETE took it (the probe loop of handlePost).             *)
PrefixIds ==
  \A d \in Dir : \A n \in DOMAIN post[d] : \A m \in 1..n :
    m \in DOMAIN post[d] \cup deleted[d]

(* The probe loop of handlePost is bounded: however the threads race, no id   *)
(* tried or taken exceeds the number of POSTs begun since there was no post.  *)
IdsBounded ==
  /\ \A d \in Dir : DOMAIN post[d] \subseteq 1..begun
  /\ \A w \in Worker : req[w].method = "POST" => id[w] <= begun

(* handlePost never opens, and so never truncates, a post that was there when *)
(* its request began and has not been removed since, however the other        *)
(* threads run between its probe and its two opens.                           *)
PostNeverClobbers ==
  \A w \in Worker :
    req[w].method = "POST" /\ pc[w] \in Writing => id[w] \notin seen[w]

(* The id a POST answers with names a post from then on, until that post or   *)
(* its directory is removed, if none of its own system calls failed, whatever *)
(* becomes of those of the others (handlePost, 191-225).                      *)
AckedPostExists ==
  \A w \in Worker \ IOFails :
    LET d == req[w].dir  i == out[w].id IN
    pc[w] \in {"reply", "idle"} /\ req[w].method = "POST" /\ out[w].status = 200
      => i \in DOMAIN post[d] \/ i \in deleted[d] \/ 0 \in deleted[d]

(* Every request is answered: the probe loop of handlePost ends although the  *)
(* other threads create posts in front of it.                                 *)
Answered == \A w \in Worker : pc[w] # "idle" ~> pc[w] = "idle"

(* The strengthening that makes the three invariants above inductive. *)

(* Ids that are taken in d, or were once; no step ever shrinks this set. *)
Used(d) == DOMAIN post[d] \cup deleted[d]

(* Which handler is at which step, and which ids it can be trying. *)
HandlerInv ==
  \A w \in Worker :
    /\ pc[w] \in {"exists", "mkdir", "probe"} => req[w].method = "POST"
    /\ pc[w] \in {"opendir", "readfile", "lookup", "remove", "other"} => req[w].method # "POST"
    /\ pc[w] \in {"exists", "mkdir"} => id[w] = 1
    /\ pc[w] \in {"probe"} \cup Writing /\ req[w].method = "POST" => id[w] # 0
    /\ w \in fd => pc[w] = "write" /\ id[w] \in DOMAIN post[req[w].dir]

(* Every id below the one a handler tries or writes has been used.  It must   *)
(* hold while the handler sleeps between two calls, so it says "used" where   *)
(* the probe loop saw "exists".                                               *)
ProbeInv ==
  \A w \in Worker : pc[w] \in {"probe"} \cup Writing =>
    \A m \in 1..id[w] - 1 : m \in Used(req[w].dir)

SeenInv ==
  \A w \in Worker :
    /\ seen[w] \subseteq DOMAIN post[req[w].dir]
    /\ pc[w] = "mkdir" => seen[w] = {}

(* Where no system call fails, a POST past its probe has a directory to      *)
(* write in, and past its first open a post, unless a DELETE took them.       *)
AckInv ==
  \A w \in Worker \ IOFails : req[w].method = "POST" =>
    LET d == req[w].dir IN
    /\ pc[w] \in {"probe"} \cup Writing => d \in dirs \/ 0 \in deleted[d]
    /\ pc[w] \in {"reopen", "write"} => id[w] \in Used(d) \/ 0 \in deleted[d]

CrudInv == HandlerInv /\ ProbeInv /\ SeenInv /\ PrefixIds /\ PostNeverClobbers

(* What every step of every thread preserves. *)
IInv == CrudInv /\ AckInv /\ AckedPostExists

(* w has answered a POST with an id. *)
Acked(w) == pc[w] \in {"reply", "idle"} /\ req[w].method = "POST" /\ out[w].status = 200

(* Two POSTs of which no system call fails never answer with the same id of   *)
(* the same directory, unless one of the posts was removed in between ("find  *)
(* next id number").                                                          *)
DistinctIds ==
  \A v, w \in Worker \ IOFails :
    /\ v # w /\ Acked(v) /\ Acked(w)
    /\ req[v].dir = req[w].dir /\ deleted[req[v].dir] = {}
    => out[v].id # out[w].id
=============================================================================
