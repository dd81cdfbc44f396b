------------------------------ MODULE PostStore ------------------------------
(* What the CRUD handler promises one client at a time: a store of posts on   *)
(* which each request takes effect at one instant between its beginning and   *)
(* its response.  src/crud_request_handler.cc is shown to implement it.       *)
EXTENDS Naturals, Sequences

CONSTANTS Worker, Dir, Cell, Body, MaxPosts

VARIABLES dirs, post, phase, req, out, begun

vars == <<dirs, post, phase, req, out, begun>>

Ids == 1..MaxPosts

Request ==
       [method : {"GET", "DELETE"}, dir : Dir, id : Ids \cup {0}, body : {<<>>}]
  \cup [method : {"PUT"},  dir : Dir, id : Ids \cup {0}, body : Body]
  \cup [method : {"POST"}, dir : Dir, id : {0}, body : Body]
  \cup [method : {"PATCH"}, dir : Dir, id : {0}, body : {<<>>}]

NoRequest == [method |-> "PATCH", dir |-> CHOOSE d \in Dir : TRUE, id |-> 0, body |-> <<>>]
Blank == [status |-> 0, id |-> 0, text |-> <<>>, names |-> {}, open |-> ""]
Ok(r) == [r EXCEPT !.status = 200]

Init ==
  /\ dirs \in SUBSET Dir
  /\ post = [d \in Dir |-> <<>>]
  /\ phase = [w \in Worker |-> "idle"]
  /\ req \in [Worker -> {[method |-> "PATCH", dir |-> d, id |-> 0, body |-> <<>>] : d \in Dir}]
  /\ out = [w \in Worker |-> Blank]
  /\ begun = 0

(* The request r is made. *)
Call(w, r) ==
  /\ phase[w] = "idle"
  /\ r.method = "POST" => begun < MaxPosts
  /\ begun' = begun + (IF r.method = "POST" THEN 1 ELSE 0)
  /\ req' = [req EXCEPT ![w] = r]
  /\ phase' = [phase EXCEPT ![w] = "pending"]
  /\ out' = [out EXCEPT ![w] = Blank]
  /\ UNCHANGED <<dirs, post>>

Invoke(w) == \E r \in Request : Call(w, r)

(* The least free id: the first, or one behind a post. *)
FreshId(d) == CHOOSE n \in {1} \cup {m + 1 : m \in DOMAIN post[d]} :
  n \notin DOMAIN post[d] /\ \A m \in 1..n - 1 : m \in DOMAIN post[d]

Exists(d, i) == i \in DOMAIN post[d] \/ (i = 0 /\ d \in dirs)

Put(d, i, c) ==
  post' = [post EXCEPT ![d] = [j \in DOMAIN post[d] \cup {i} |->
                                 IF j = i THEN c ELSE post[d][j]]]

Answer(w, r) == out' = [out EXCEPT ![w] = r]
Fail(w) == Answer(w, [Blank EXCEPT !.status = 404]) /\ UNCHANGED <<dirs, post>>

(* A listing names the posts; it has its opening bracket unless it is empty,  *)
(* as in the code.                                                            *)
Get(w, d, i) ==
  \/ /\ i = 0 /\ d \in dirs
     /\ Answer(w, Ok([Blank EXCEPT !.names = DOMAIN post[d],
                                    !.open = IF DOMAIN post[d] = {} THEN "" ELSE "["]))
     /\ UNCHANGED <<dirs, post>>
  \/ /\ i \in DOMAIN post[d]
     /\ Answer(w, Ok([Blank EXCEPT !.text = post[d][i]]))
     /\ UNCHANGED <<dirs, post>>
  \/ ~Exists(d, i) /\ Fail(w)

(* A POST creates the directory if need be and the post of lowest free id. *)
Post(w, d, c) ==
  /\ dirs' = dirs \cup {d}
  /\ Put(d, FreshId(d), c)
  /\ Answer(w, Ok([Blank EXCEPT !.id = FreshId(d)]))

(* A PUT replaces a post whole; of a directory it changes nothing. *)
Update(w, d, i, c) ==
  \/ /\ i \in DOMAIN post[d]
     /\ Put(d, i, c) /\ UNCHANGED dirs
     /\ Answer(w, Ok([Blank EXCEPT !.text = c]))
  \/ /\ i = 0 /\ d \in dirs
     /\ Answer(w, Ok([Blank EXCEPT !.text = c]))
     /\ UNCHANGED <<dirs, post>>
  \/ ~Exists(d, i) /\ Fail(w)

Delete(w, d, i) ==
  \/ /\ i \in DOMAIN post[d]
     /\ post' = [post EXCEPT ![d] = [j \in DOMAIN post[d] \ {i} |-> post[d][j]]]
     /\ Answer(w, Ok(Blank)) /\ UNCHANGED dirs
  \/ /\ i = 0 /\ d \in dirs /\ DOMAIN post[d] = {}
     /\ dirs' = dirs \ {d}
     /\ Answer(w, Ok(Blank)) /\ UNCHANGED post
  \/ /\ i \notin DOMAIN post[d]
     /\ ~(i = 0 /\ d \in dirs /\ DOMAIN post[d] = {})
     /\ Fail(w)

Apply(w) ==
  /\ phase[w] = "pending"
  /\ phase' = [phase EXCEPT ![w] = "done"]
  /\ LET r == req[w] IN
     \/ r.method = "GET" /\ Get(w, r.dir, r.id)
     \/ r.method = "POST" /\ Post(w, r.dir, r.body)
     \/ r.method = "PUT" /\ Update(w, r.dir, r.id, r.body)
     \/ r.method = "DELETE" /\ Delete(w, r.dir, r.id)
     \/ r.method = "PATCH" /\ Answer(w, Ok(Blank)) /\ UNCHANGED <<dirs, post>>
  /\ UNCHANGED <<req, begun>>

(* The worker may keep the exchange it has finished, or forget it. *)
Forget(w) ==
  /\ req' = [req EXCEPT ![w] = NoRequest]
  /\ out' = [out EXCEPT ![w] = Blank]

Return(w) ==
  /\ phase[w] = "done"
  /\ phase' = [phase EXCEPT ![w] = "idle"]
  /\ UNCHANGED <<req, out>> \/ Forget(w)
  /\ UNCHANGED <<dirs, post, begun>>

Next == \E w \in Worker : Invoke(w) \/ Apply(w) \/ Return(w)

Spec == Init /\ [][Next]_vars /\ \A w \in Worker : WF_vars(Apply(w) \/ Return(w))
=============================================================================
