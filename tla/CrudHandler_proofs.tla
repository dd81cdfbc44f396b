-------------------------- MODULE CrudHandler_proofs --------------------------
(* Proofs about CrudHandler for every set of threads, directories and bodies. *)
EXTENDS CrudHandler, SequenceTheorems, FiniteSetTheorems, TLAPS

LEMMA OverlayType ==
  ASSUME NEW S, NEW new \in Seq(S), NEW old \in Seq(S)
  PROVE  Overlay(new, old) \in Seq(S)
<1>1. SubSeq(old, Len(new) + 1, Len(old)) \in Seq(S)
  OBVIOUS
<1> QED
  BY <1>1 DEF Overlay

(* Every request of the set Begin draws from has the types the handlers use. *)
LEMMA RequestType ==
  ASSUME NEW r \in Request
  PROVE  /\ r.dir \in Dir /\ r.id \in Nat /\ r.body \in Seq(Cell)
         /\ r.method \in {"GET", "DELETE", "PUT", "POST", "PATCH"}
  BY BodyAssumption, MaxPostsAssumption DEF Request, Ids

LEMMA ResponseType ==
  ASSUME NEW n \in Nat, NEW t \in Seq(Cell), NEW S \in SUBSET Nat
  PROVE  /\ Blank \in Response /\ Ok \in Response /\ NotFound \in Response
         /\ Text(t) \in Response /\ Created(n) \in Response /\ Listing(S) \in Response
  BY DEF Response, Out, Blank, Ok, NotFound, Text, Created, Listing

-----------------------------------------------------------------------------
(* Type correctness. *)

LEMMA InitType == Init => TypeOK
<1> SUFFICES ASSUME Init PROVE TypeOK
  OBVIOUS
<1>1. req \in [Worker -> Request]
  BY DEF Init, Request
<1>2. out \in [Worker -> Response]
  BY ResponseType, EmptySeq DEF Init
<1> QED
  BY <1>1, <1>2, MaxPostsAssumption DEF Init, TypeOK, TreeOK

(* The two opens of write_file keep the directory tree well typed. *)
LEMMA CreatType ==
  ASSUME TypeOK, NEW w \in Worker, NEW opened, Creat(w, opened), UNCHANGED dirs
  PROVE  TreeOK'
<1>1. req[w].dir \in Dir /\ id[w] \in Nat
  BY RequestType DEF TypeOK
<1>2. <<>> \in Seq(Cell)
  OBVIOUS
<1>3. CASE UNCHANGED post
  BY <1>3 DEF TypeOK, TreeOK
<1>4. CASE /\ req[w].dir \in dirs /\ id[w] # 0
           /\ post' = [post EXCEPT ![req[w].dir] = Store(post[req[w].dir], id[w], <<>>)]
  <2>1. /\ DOMAIN post' = Dir
        /\ post'[req[w].dir] = Store(post[req[w].dir], id[w], <<>>)
        /\ \A d \in Dir \ {req[w].dir} : post'[d] = post[d]
    BY <1>1, <1>4 DEF TypeOK, TreeOK
  <2>2. LET f == Store(post[req[w].dir], id[w], <<>>)
        IN  /\ DOMAIN f = DOMAIN post[req[w].dir] \cup {id[w]}
            /\ \A i \in DOMAIN f : f[i] \in Seq(Cell)
    BY <1>1, <1>2 DEF TypeOK, TreeOK, Store
  <2> QED
    BY <1>1, <1>4, <2>1, <2>2 DEF TypeOK, TreeOK
<1> QED
  BY <1>3, <1>4 DEF Creat

LEMMA NextType == TypeOK /\ [Next]_vars => TypeOK'
<1> SUFFICES ASSUME TypeOK, [Next]_vars PROVE TypeOK'
  OBVIOUS
<1> USE DEF TypeOK, TreeOK, Writing
<1>0. CASE UNCHANGED vars
  BY <1>0 DEF vars
<1> SUFFICES ASSUME NEW w \in Worker, Begin(w) \/ Serve(w) PROVE TypeOK'
  BY <1>0 DEF Next
<1>r. /\ req[w].dir \in Dir /\ req[w].id \in Nat /\ req[w].body \in Seq(Cell)
      /\ id[w] \in Nat
  BY RequestType
<1>s. Blank \in Response /\ Ok \in Response /\ NotFound \in Response
  BY ResponseType, EmptySeq
<1>1. CASE Begin(w)
  <2> PICK r \in Request :
         /\ r.method = "POST" => begun < MaxPosts
         /\ begun' = IF r.method = "POST" THEN begun + 1 ELSE begun
         /\ req' = [req EXCEPT ![w] = r]
         /\ id' = [id EXCEPT ![w] = IF r.method = "POST" THEN 1 ELSE r.id]
         /\ seen' = [seen EXCEPT ![w] = DOMAIN post[r.dir]]
         /\ Goto(w, FirstStep[r.method])
    BY <1>1 DEF Begin
  <2>1. /\ r.dir \in Dir /\ r.id \in Nat
        /\ r.method \in {"GET", "DELETE", "PUT", "POST", "PATCH"}
    BY RequestType
  <2>2. FirstStep[r.method] \in {"opendir", "exists", "lookup", "remove", "other"}
    BY <2>1 DEF FirstStep
  <2>3. begun' \in 0..MaxPosts
    BY MaxPostsAssumption
  <2>4. /\ req' \in [Worker -> Request] /\ id' \in [Worker -> Nat]
        /\ seen' \in [Worker -> SUBSET Nat]
    BY <2>1
  <2> QED
    BY <1>1, <1>s, <2>2, <2>3, <2>4 DEF Begin, Goto, store
<1>2. CASE Other(w)
  BY <1>2, <1>s DEF Other, Respond, Goto, store, hist
<1>3. CASE OpenDir(w)
  <2>1. Listing(DOMAIN post[req[w].dir]) \in Response
    BY <1>r, ResponseType, EmptySeq
  <2>2. UNCHANGED <<dirs, post, req, id, fd, begun, deleted, seen>>
    BY <1>3 DEF OpenDir, Respond, store, hist
  <2>3. \E o \in Response, p \in {"readfile", "reply"} :
          (out' = out \/ out' = [out EXCEPT ![w] = o]) /\ pc' = [pc EXCEPT ![w] = p]
    BY <1>3, <1>s, <2>1 DEF OpenDir, Respond, Goto
  <2> QED
    BY <2>2, <2>3
<1>4. CASE ReadFile(w)
  <2>1. Exists(req[w].dir, id[w]) =>
          Text(IF id[w] = 0 THEN <<>> ELSE post[req[w].dir][id[w]]) \in Response
    BY <1>r, ResponseType, EmptySeq DEF Exists
  <2>2. UNCHANGED <<dirs, post, req, id, fd, begun, deleted, seen>>
    BY <1>4 DEF ReadFile, store, hist
  <2>3. pc' = [pc EXCEPT ![w] = "reply"]
    BY <1>4 DEF ReadFile, Respond, Goto
  <2>4. out' \in [Worker -> Response]
    BY <1>4, <1>s, <2>1 DEF ReadFile, Respond
  <2> QED
    BY <2>2, <2>3, <2>4
<1>5. CASE CheckDir(w)
  BY <1>5 DEF CheckDir, Goto, store, hist
<1>6. CASE MakeDir(w)
  <2>1. UNCHANGED <<post, req, id, fd, begun, deleted, seen>>
    BY <1>6 DEF MakeDir, hist
  <2>2. dirs \subseteq dirs' /\ dirs' \subseteq Dir
    BY <1>6, <1>r DEF MakeDir
  <2>3. pc' = [pc EXCEPT ![w] = "reply"] \/ pc' = [pc EXCEPT ![w] = "open"]
    BY <1>6 DEF MakeDir, Respond, Goto
  <2>4. out' \in [Worker -> Response]
    BY <1>6, <1>s DEF MakeDir, Respond
  <2> QED
    BY <2>1, <2>2, <2>3, <2>4
<1>7. CASE Probe(w)
  <2>1. UNCHANGED <<dirs, post, req, fd, out, begun, deleted, seen>>
    BY <1>7 DEF Probe, store, hist
  <2>2. id' \in [Worker -> Nat]
    <3>1. id[w] + 1 \in Nat
      BY <1>r
    <3>2. id' = id \/ id' = [id EXCEPT ![w] = id[w] + 1]
      BY <1>7 DEF Probe, Following
    <3> QED
      BY <3>1, <3>2
  <2>3. pc' = pc \/ pc' = [pc EXCEPT ![w] = "open"]
    BY <1>7 DEF Probe, Goto
  <2> QED
    BY <2>1, <2>2, <2>3
<1>8. CASE Lookup(w)
  BY <1>8, <1>s DEF Lookup, Respond, Goto, store, hist
<1>9. CASE OpenFile(w)
  <2> PICK opened \in BOOLEAN : Creat(w, opened)
    BY <1>9 DEF OpenFile
  <2> QED
    BY <1>9, CreatType DEF OpenFile, Goto, hist
<1>10. CASE ReopenFile(w)
  <2> PICK opened \in BOOLEAN : Creat(w, opened) /\ fd' = IF opened THEN fd \cup {w} ELSE fd
    BY <1>10 DEF ReopenFile
  <2> QED
    BY <1>10, CreatType DEF ReopenFile, Goto, hist
<1>11. CASE WriteFile(w)
  <2>1. Promise(w) \in Response
    BY <1>r, ResponseType, EmptySeq DEF Promise
  <2>2. /\ DOMAIN post' = Dir
        /\ \A d \in Dir : /\ DOMAIN post'[d] = DOMAIN post[d]
                          /\ \A i \in DOMAIN post[d] : post'[d][i] \in Seq(Cell)
    <3>1. CASE UNCHANGED post
      BY <1>r, <3>1
    <3>2. CASE post' = [post EXCEPT ![req[w].dir][id[w]] = Overlay(req[w].body, @)]
      BY <1>r, <3>2, OverlayType
    <3> QED
      BY <1>11, <3>1, <3>2 DEF WriteFile
  <2> QED
    BY <1>11, <2>1, <2>2 DEF WriteFile, Respond, Goto, hist
<1>12. CASE Remove(w)
  <2> DEFINE d == req[w].dir  i == id[w]
  <2>1. UNCHANGED <<req, id, begun>> /\ pc' = [pc EXCEPT ![w] = "reply"]
    BY <1>12 DEF Remove, Respond, Goto
  <2>2. out' \in [Worker -> Response]
    BY <1>12, <1>s DEF Remove, Respond
  <2>3. CASE /\ i # 0 /\ Exists(d, i)
             /\ post' = [post EXCEPT ![d] = Unlink(post[d], i)]
             /\ fd' = {v \in fd : ~(req[v].dir = d /\ id[v] = i)}
             /\ deleted' = [deleted EXCEPT ![d] = @ \cup {i}]
             /\ seen' = [v \in Worker |-> IF req[v].dir = d THEN seen[v] \ {i} ELSE seen[v]]
             /\ UNCHANGED dirs
    <3>1. TreeOK'
      BY <1>r, <2>3 DEF Unlink
    <3>2. deleted' \in [Dir -> SUBSET Nat] /\ seen' \in [Worker -> SUBSET Nat]
      BY <1>r, <2>3
    <3> QED
      BY <2>1, <2>2, <2>3, <3>1, <3>2
  <2>4. CASE /\ dirs' = dirs \ {d} /\ DOMAIN post[d] = {}
             /\ deleted' = [deleted EXCEPT ![d] = @ \cup {0}]
             /\ UNCHANGED <<post, fd, seen>>
    <3>1. deleted' \in [Dir -> SUBSET Nat]
      <4>1. deleted[d] \cup {0} \in SUBSET Nat
        BY <1>r
      <4> QED
        BY <2>4, <4>1
    <3> QED
      BY <1>r, <2>1, <2>2, <2>4, <3>1
  <2>5. CASE UNCHANGED <<store, fd, hist>>
    BY <2>1, <2>2, <2>5 DEF store, hist
  <2> QED
    BY <1>12, <2>3, <2>4, <2>5 DEF Remove, Empty
<1>13. CASE Reply(w)
  BY <1>13 DEF Reply, Goto, store
<1> QED
  BY <1>1, <1>2, <1>3, <1>4, <1>5, <1>6, <1>7, <1>8, <1>9, <1>10, <1>11, <1>12, <1>13
  DEF Serve

(* The state keeps its types, and a post always lies in a directory that      *)
(* exists, whatever the threads interleave.                                   *)
THEOREM TypeCorrect == Spec => []TypeOK
<1> QED
  BY InitType, NextType, PTL DEF Spec
-----------------------------------------------------------------------------
(* What a step of one thread does to the others and to the ids in use. *)

(* An open adds at most the path's id to its directory, and does add it when  *)
(* it succeeds.                                                               *)
LEMMA CreatAdds ==
  ASSUME TypeOK, NEW w \in Worker, NEW opened \in BOOLEAN, Creat(w, opened)
  PROVE  /\ \A d \in Dir : DOMAIN post[d] \subseteq DOMAIN post'[d]
         /\ \A d \in Dir : \A i \in DOMAIN post'[d] :
              i \in DOMAIN post[d] \/ (d = req[w].dir /\ i = id[w])
         /\ opened => id[w] \in DOMAIN post'[req[w].dir]
<1>r. req[w].dir \in Dir /\ DOMAIN post = Dir
  BY RequestType DEF TypeOK, TreeOK
<1>1. CASE /\ opened
           /\ post' = [post EXCEPT ![req[w].dir] = Store(post[req[w].dir], id[w], <<>>)]
  BY <1>1, <1>r DEF Store
<1>2. CASE ~opened /\ UNCHANGED post
  BY <1>2
<1> QED
  BY <1>1, <1>2 DEF Creat

LEMMA UsedGrows ==
  ASSUME TypeOK, NEW w \in Worker, Begin(w) \/ Serve(w)
  PROVE  \A d \in Dir : Used(d) \subseteq Used(d)' /\ deleted[d] \subseteq deleted'[d]
<1> USE DEF TypeOK, TreeOK, Used
<1>r. req[w].dir \in Dir /\ id[w] \in Nat
  BY RequestType
<1>1. CASE UNCHANGED <<post, deleted>>
  BY <1>1
<1>2. CASE OpenFile(w) \/ ReopenFile(w)
  <2>1. UNCHANGED deleted /\ \E opened \in BOOLEAN : Creat(w, opened)
    BY <1>2 DEF OpenFile, ReopenFile, hist
  <2> QED
    BY <1>r, <2>1 DEF Creat, Store
<1>3. CASE WriteFile(w)
  BY <1>r, <1>3 DEF WriteFile, hist
<1>4. CASE Remove(w)
  <2>1. CASE UNCHANGED post /\ deleted' = [deleted EXCEPT ![req[w].dir] = @ \cup {0}]
    BY <1>r, <2>1
  <2>2. CASE /\ post' = [post EXCEPT ![req[w].dir] = Unlink(post[req[w].dir], id[w])]
             /\ deleted' = [deleted EXCEPT ![req[w].dir] = @ \cup {id[w]}]
    BY <1>r, <2>2 DEF Unlink
  <2> QED
    BY <1>1, <1>4, <2>1, <2>2 DEF Remove, store, hist
<1> QED
  BY <1>1, <1>2, <1>3, <1>4
  DEF Serve, Begin, Other, OpenDir, ReadFile, CheckDir, MakeDir, Probe, Lookup, Reply,
      store, hist

LEMMA OthersKeep ==
  ASSUME TypeOK, NEW w \in Worker, Begin(w) \/ Serve(w),
         NEW v \in Worker, v # w
  PROVE  /\ pc'[v] = pc[v] /\ req'[v] = req[v] /\ id'[v] = id[v] /\ out'[v] = out[v]
         /\ seen'[v] \subseteq seen[v]
<1> USE DEF TypeOK
<1>1. CASE Begin(w)
  BY <1>1 DEF Begin, Goto
<1>2. CASE Remove(w)
  BY <1>2 DEF Remove, Respond, Goto, hist
<1>3. CASE Serve(w) /\ ~Remove(w)
  BY <1>3
  DEF Serve, Other, OpenDir, ReadFile, CheckDir, MakeDir, Probe, Lookup, OpenFile,
      ReopenFile, WriteFile, Reply, Respond, Goto, store, hist
<1> QED
  BY <1>1, <1>2, <1>3

-----------------------------------------------------------------------------
(* The parts of CrudInv, one lemma each. *)

(* A step leaves a post to every stream of another thread that is open on one *)
(* (only Remove unlinks, and it withdraws those streams from fd).             *)
LEMMA StreamsKept ==
  ASSUME TypeOK, HandlerInv, NEW w \in Worker, Begin(w) \/ Serve(w),
         NEW v \in Worker, v \in fd', v # w
  PROVE  v \in fd /\ id[v] \in DOMAIN post'[req[v].dir]
<1> USE DEF TypeOK, TreeOK, HandlerInv
<1>r. req[w].dir \in Dir /\ id[w] \in Nat /\ req[v].dir \in Dir
  BY RequestType
<1>1. CASE Begin(w)
  BY <1>1 DEF Begin, store
<1>2. CASE OpenFile(w) \/ ReopenFile(w)
  <2>1. fd' \subseteq fd \cup {w} /\ \E opened \in BOOLEAN : Creat(w, opened)
    BY <1>2 DEF OpenFile, ReopenFile
  <2>2. v \in fd /\ id[v] \in DOMAIN post[req[v].dir]
    BY <2>1
  <2> QED
    BY <1>r, <2>1, <2>2, CreatAdds
<1>3. CASE WriteFile(w)
  BY <1>r, <1>3 DEF WriteFile
<1>4. CASE Remove(w)
  <2>1. CASE UNCHANGED post /\ fd' = fd
    BY <2>1
  <2>2. CASE /\ post' = [post EXCEPT ![req[w].dir] = Unlink(post[req[w].dir], id[w])]
             /\ fd' = {u \in fd : ~(req[u].dir = req[w].dir /\ id[u] = id[w])}
    <3>1. v \in fd /\ ~(req[v].dir = req[w].dir /\ id[v] = id[w])
      BY <2>2
    <3>2. id[v] \in DOMAIN post[req[v].dir]
      BY <3>1
    <3> QED
      BY <1>r, <2>2, <3>1, <3>2 DEF Unlink
  <2> QED
    BY <1>4, <2>1, <2>2 DEF Remove, store
<1> QED
  BY <1>1, <1>2, <1>3, <1>4
  DEF Serve, Other, OpenDir, ReadFile, CheckDir, MakeDir, Probe, Lookup, Reply, store

LEMMA HandlerStep ==
  ASSUME TypeOK, HandlerInv, NEW w \in Worker, Begin(w) \/ Serve(w)
  PROVE  HandlerInv'
<1> USE DEF TypeOK
<1> DEFINE H(v) ==
      /\ pc[v] \in {"exists", "mkdir", "probe"} => req[v].method = "POST"
      /\ pc[v] \in {"opendir", "readfile", "lookup", "remove", "other"} => req[v].method # "POST"
      /\ pc[v] \in {"exists", "mkdir"} => id[v] = 1
      /\ pc[v] \in {"probe"} \cup Writing /\ req[v].method = "POST" => id[v] # 0
      /\ v \in fd => pc[v] = "write" /\ id[v] \in DOMAIN post[req[v].dir]
<1>0. \A v \in Worker : H(v)
  BY DEF HandlerInv
<1>r. req[w].dir \in Dir /\ id[w] \in Nat
  BY RequestType
<1>1. \A v \in Worker \ {w} : H(v)'
  <2> SUFFICES ASSUME NEW v \in Worker \ {w} PROVE H(v)'
    OBVIOUS
  <2>1. H(v)
    BY <1>0
  <2> QED
    BY <2>1, OthersKeep, StreamsKept
<1>2. H(w)'
  <2>1. CASE Begin(w)
    <3> PICK r \in Request :
           /\ req' = [req EXCEPT ![w] = r]
           /\ id' = [id EXCEPT ![w] = IF r.method = "POST" THEN 1 ELSE r.id]
           /\ Goto(w, FirstStep[r.method])
      BY <2>1 DEF Begin
    <3>1. r.method \in {"GET", "DELETE", "PUT", "POST", "PATCH"}
      BY RequestType
    <3>2. /\ pc'[w] = FirstStep[r.method] /\ req'[w] = r
          /\ r.method = "POST" => id'[w] = 1
      BY DEF Goto
    <3>3. w \notin fd'
      BY <1>0, <2>1 DEF Begin
    <3> QED
      BY <3>1, <3>2, <3>3 DEF FirstStep, Writing
  <2>2. CASE OpenFile(w) \/ ReopenFile(w)
    <3>1. /\ UNCHANGED <<req, id>>
          /\ \/ pc'[w] = "reopen" /\ fd' = fd
             \/ /\ pc'[w] = "write"
                /\ \E opened \in BOOLEAN :
                     Creat(w, opened) /\ fd' = IF opened THEN fd \cup {w} ELSE fd
      BY <2>2 DEF OpenFile, ReopenFile, Goto
    <3>2. pc[w] \in {"open", "reopen"}
      BY <2>2 DEF OpenFile, ReopenFile
    <3>3. w \in fd' => pc'[w] = "write" /\ id[w] \in DOMAIN post'[req[w].dir]
      BY <1>0, <3>1, <3>2, CreatAdds
    <3> QED
      BY <1>0, <3>1, <3>2, <3>3 DEF Writing
  <2>3. CASE Other(w) \/ OpenDir(w) \/ ReadFile(w) \/ WriteFile(w) \/ Remove(w) \/ Reply(w)
    <3>1. pc'[w] \in {"readfile", "reply", "idle"} /\ UNCHANGED req
      BY <2>3 DEF Other, OpenDir, ReadFile, WriteFile, Remove, Reply, Respond, Goto
    <3>2. w \notin fd'
      BY <1>0, <2>3 DEF Other, OpenDir, ReadFile, WriteFile, Remove, Reply
    <3>3. pc'[w] = "readfile" => pc[w] = "opendir"
      BY <2>3 DEF Other, OpenDir, ReadFile, WriteFile, Remove, Reply, Respond, Goto
    <3> QED
      BY <1>0, <3>1, <3>2, <3>3 DEF Writing
  <2>4. CASE CheckDir(w) \/ MakeDir(w) \/ Lookup(w)
    <3>1. /\ UNCHANGED <<req, id, fd>> /\ w \notin fd
          /\ pc[w] \in {"exists", "mkdir", "lookup"}
          /\ pc'[w] \in {"probe", "mkdir", "open", "reply"}
          /\ pc[w] = "lookup" => pc'[w] \in {"open", "reply"}
      BY <1>0, <2>4 DEF CheckDir, MakeDir, Lookup, Respond, Goto
    <3> QED
      BY <1>0, <3>1 DEF Writing
  <2>5. CASE Probe(w)
    <3>1. /\ UNCHANGED <<req, fd>> /\ w \notin fd /\ pc[w] = "probe"
          /\ \/ pc' = pc /\ id'[w] = id[w] + 1
             \/ pc'[w] = "open" /\ id' = id
      BY <1>0, <2>5 DEF Probe, Following, Goto
    <3>2. id[w] + 1 # 0
      BY <1>r
    <3> QED
      BY <1>0, <3>1, <3>2 DEF Writing
  <2> QED
    BY <2>1, <2>2, <2>3, <2>4, <2>5 DEF Serve
<1> QED
  BY <1>1, <1>2 DEF HandlerInv

LEMMA ProbeStep ==
  ASSUME TypeOK, HandlerInv, ProbeInv, PrefixIds, NEW w \in Worker, Begin(w) \/ Serve(w)
  PROVE  ProbeInv'
<1> USE DEF TypeOK
<1>r. \A v \in Worker : req[v].dir \in Dir /\ id[v] \in Nat
  BY RequestType
<1>1. ASSUME NEW v \in Worker, v # w, pc'[v] \in {"probe"} \cup Writing,
             NEW m \in 1..id'[v] - 1
      PROVE  m \in Used(req[v].dir)'
  <2>1. pc[v] \in {"probe"} \cup Writing /\ m \in 1..id[v] - 1 /\ req'[v] = req[v]
    BY <1>1, OthersKeep
  <2>2. m \in Used(req[v].dir)
    BY <2>1 DEF ProbeInv
  <2> QED
    BY <1>r, <2>1, <2>2, UsedGrows DEF Used
<1>2. ASSUME pc'[w] \in {"probe"} \cup Writing, NEW m \in 1..id'[w] - 1
      PROVE  m \in Used(req[w].dir)'
  <2>1. CASE Begin(w)
    <3> PICK r \in Request : Goto(w, FirstStep[r.method])
      BY <2>1 DEF Begin
    <3> QED
      BY <1>2, RequestType DEF Goto, FirstStep, Writing
  <2>2. CASE CheckDir(w) \/ MakeDir(w)
    <3>1. id' = id /\ pc[w] \in {"exists", "mkdir"}
      BY <2>2 DEF CheckDir, MakeDir
    <3> QED
      BY <1>2, <3>1 DEF HandlerInv
  <2>3. CASE Probe(w)
    <3>1. UNCHANGED <<req, post, deleted>> /\ pc[w] = "probe" /\ id[w] # 0
      BY <2>3 DEF Probe, store, hist, HandlerInv
    <3>2. id' = id \/ (id'[w] = id[w] + 1 /\ id[w] \in Used(req[w].dir))
      BY <2>3, <3>1 DEF Probe, Following, Exists, Used
    <3>3. m \in 1..id[w] - 1 \/ (m = id[w] /\ id[w] \in Used(req[w].dir))
      BY <1>2, <1>r, <3>2
    <3> QED
      BY <3>1, <3>3 DEF ProbeInv, Used
  <2>4. CASE Lookup(w)
    <3>1. UNCHANGED <<req, id, post, deleted>>
      BY <2>4 DEF Lookup, store, hist
    <3>2. id[w] # 0 /\ id[w] \in DOMAIN post[req[w].dir]
      BY <1>2, <1>r, <2>4, <3>1 DEF Lookup, Exists, Respond, Goto, Writing
    <3>3. m \in 1..id[w]
      BY <1>2, <1>r, <3>1
    <3> QED
      BY <1>r, <3>1, <3>2, <3>3 DEF PrefixIds, Used
  <2>5. CASE OpenFile(w) \/ ReopenFile(w)
    <3>1. UNCHANGED <<req, id>> /\ pc[w] \in Writing
      BY <2>5 DEF OpenFile, ReopenFile, Writing
    <3>2. m \in Used(req[w].dir)
      BY <1>2, <3>1 DEF ProbeInv
    <3> QED
      BY <1>r, <3>1, <3>2, UsedGrows DEF Used
  <2>6. CASE Other(w) \/ OpenDir(w) \/ ReadFile(w) \/ WriteFile(w) \/ Remove(w) \/ Reply(w)
    <3>1. pc'[w] \in {"readfile", "reply", "idle"}
      BY <2>6 DEF Other, OpenDir, ReadFile, WriteFile, Remove, Reply, Respond, Goto
    <3> QED
      BY <1>2, <3>1 DEF Writing
  <2> QED
    BY <2>1, <2>2, <2>3, <2>4, <2>5, <2>6 DEF Serve
<1> QED
  BY <1>1, <1>2 DEF ProbeInv

LEMMA PrefixStep ==
  ASSUME TypeOK, HandlerInv, ProbeInv, PrefixIds, NEW w \in Worker, Begin(w) \/ Serve(w)
  PROVE  PrefixIds'
<1> USE DEF TypeOK
<1>r. req[w].dir \in Dir /\ id[w] \in Nat
  BY RequestType
<1> SUFFICES ASSUME NEW d \in Dir, NEW n \in DOMAIN post'[d], NEW m \in 1..n
             PROVE  m \in Used(d)'
  BY DEF PrefixIds, Used
<1>1. CASE n \in DOMAIN post[d]
  <2>1. m \in Used(d)
    BY <1>1 DEF PrefixIds, Used
  <2> QED
    BY <2>1, UsedGrows DEF Used
<1>2. CASE n \notin DOMAIN post[d]
  <2>1. OpenFile(w) \/ ReopenFile(w)
    <3>1. CASE UNCHANGED post
      BY <1>2, <3>1
    <3>2. CASE WriteFile(w)
      BY <1>r, <1>2, <3>2 DEF WriteFile, TreeOK
    <3>3. CASE Remove(w)
      <4>1. CASE post' = [post EXCEPT ![req[w].dir] = Unlink(post[req[w].dir], id[w])]
        BY <1>r, <1>2, <4>1 DEF Unlink, TreeOK
      <4> QED
        BY <3>1, <3>3, <4>1 DEF Remove, store
    <3> QED
      BY <3>1, <3>2, <3>3
      DEF Serve, Begin, Other, OpenDir, ReadFile, CheckDir, MakeDir, Probe, Lookup, Reply, store
  <2>2. d = req[w].dir /\ n = id[w]
    BY <1>2, <2>1, CreatAdds DEF OpenFile, ReopenFile
  <2>3. pc[w] \in Writing
    BY <2>1 DEF OpenFile, ReopenFile, Writing
  <2>4. CASE m = n
    BY <2>4 DEF Used
  <2>5. CASE m # n
    <3>1. m \in 1..id[w] - 1
      BY <1>r, <2>2, <2>5
    <3>2. m \in Used(d)
      BY <2>2, <2>3, <3>1 DEF ProbeInv
    <3> QED
      BY <3>2, UsedGrows DEF Used
  <2> QED
    BY <2>4, <2>5
<1> QED
  BY <1>1, <1>2

(* Only Remove takes ids out of a directory, one at a time, and then out of   *)
(* every seen set over that directory too.                                    *)
LEMMA SeenKept ==
  ASSUME TypeOK, NEW w \in Worker, Serve(w), NEW v \in Worker,
         seen[v] \subseteq DOMAIN post[req[v].dir]
  PROVE  seen'[v] \subseteq DOMAIN post'[req[v].dir]
<1> USE DEF TypeOK, TreeOK
<1>r. req[w].dir \in Dir /\ id[w] \in Nat /\ req[v].dir \in Dir
  BY RequestType
<1>1. CASE UNCHANGED <<post, seen>>
  BY <1>1
<1>2. CASE OpenFile(w) \/ ReopenFile(w)
  BY <1>r, <1>2, CreatAdds DEF OpenFile, ReopenFile, hist
<1>3. CASE WriteFile(w)
  BY <1>r, <1>3 DEF WriteFile, hist
<1>4. CASE Remove(w)
  <2>1. CASE /\ post' = [post EXCEPT ![req[w].dir] = Unlink(post[req[w].dir], id[w])]
             /\ seen' = [u \in Worker |-> IF req[u].dir = req[w].dir
                                            THEN seen[u] \ {id[w]} ELSE seen[u]]
    BY <1>r, <2>1 DEF Unlink
  <2> QED
    BY <1>1, <1>4, <2>1 DEF Remove, store, hist
<1>5. CASE Reply(w)
  BY <1>5 DEF Reply, store
<1> QED
  BY <1>1, <1>2, <1>3, <1>4, <1>5
  DEF Serve, Other, OpenDir, ReadFile, CheckDir, MakeDir, Probe, Lookup, store, hist

LEMMA SeenStep ==
  ASSUME TypeOK, HandlerInv, SeenInv, NEW w \in Worker, Begin(w) \/ Serve(w)
  PROVE  SeenInv'
<1> USE DEF TypeOK
<1>1. CASE Begin(w)
  <2> PICK r \in Request : /\ req' = [req EXCEPT ![w] = r]
                           /\ seen' = [seen EXCEPT ![w] = DOMAIN post[r.dir]]
                           /\ Goto(w, FirstStep[r.method])
    BY <1>1 DEF Begin
  <2>1. post' = post
    BY <1>1 DEF Begin, store
  <2>2. pc'[w] # "mkdir"
    BY RequestType DEF Goto, FirstStep
  <2> QED
    BY <2>1, <2>2 DEF SeenInv, Goto
<1>2. CASE Serve(w)
  <2>1. req' = req
    BY <1>2
    DEF Serve, Other, OpenDir, ReadFile, CheckDir, MakeDir, Probe, Lookup, OpenFile,
        ReopenFile, WriteFile, Remove, Reply
  <2>2. \A v \in Worker : seen'[v] \subseteq DOMAIN post'[req[v].dir]
    BY <1>2, SeenKept DEF SeenInv
  <2>3. \A v \in Worker \ {w} : pc'[v] = "mkdir" => seen'[v] = {}
    BY <1>2, OthersKeep DEF SeenInv
  <2>4. pc'[w] = "mkdir" => seen'[w] = {}
    <3> SUFFICES ASSUME pc'[w] = "mkdir" PROVE seen'[w] = {}
      OBVIOUS
    <3>1. CheckDir(w)
      BY <1>2
      DEF Serve, Other, OpenDir, ReadFile, CheckDir, MakeDir, Probe, Lookup, OpenFile,
          ReopenFile, WriteFile, Remove, Reply, Respond, Goto
    <3>2. req[w].dir \in Dir \ dirs /\ seen' = seen
      BY <3>1, RequestType DEF CheckDir, Goto, hist
    <3>3. DOMAIN post[req[w].dir] = {}
      BY <3>2 DEF TreeOK
    <3> QED
      BY <3>2, <3>3 DEF SeenInv
  <2> QED
    BY <2>1, <2>2, <2>3, <2>4 DEF SeenInv
<1> QED
  BY <1>1, <1>2

LEMMA ClobberStep ==
  ASSUME TypeOK, HandlerInv, SeenInv, PostNeverClobbers,
         NEW w \in Worker, Begin(w) \/ Serve(w)
  PROVE  PostNeverClobbers'
<1> USE DEF TypeOK
<1>1. \A v \in Worker \ {w} : req'[v].method = "POST" /\ pc'[v] \in Writing => id'[v] \notin seen'[v]
  BY OthersKeep DEF PostNeverClobbers
<1>2. ASSUME req'[w].method = "POST", pc'[w] \in Writing
      PROVE  id'[w] \notin seen'[w]
  <2>1. CASE Begin(w)
    <3> PICK r \in Request : Goto(w, FirstStep[r.method])
      BY <2>1 DEF Begin
    <3> QED
      BY <1>2, RequestType DEF Goto, FirstStep, Writing
  <2>2. CASE Serve(w)
    <3>1. MakeDir(w) \/ Probe(w) \/ Lookup(w) \/ OpenFile(w) \/ ReopenFile(w)
      BY <1>2, <2>2
      DEF Serve, Other, OpenDir, ReadFile, CheckDir, WriteFile, Remove, Reply, Respond,
          Goto, Writing
    <3>2. UNCHANGED <<req, seen>>
      BY <3>1 DEF MakeDir, Probe, Lookup, OpenFile, ReopenFile, hist
    <3>3. CASE MakeDir(w)
      BY <3>2, <3>3 DEF MakeDir, SeenInv
    <3>4. CASE Probe(w)
      <4>1. /\ id' = id /\ pc[w] = "probe" /\ ~Exists(req[w].dir, id[w])
        BY <1>2, <3>4 DEF Probe, Writing
      <4>2. id[w] \notin DOMAIN post[req[w].dir]
        BY <1>2, <3>2, <4>1 DEF Exists, HandlerInv
      <4> QED
        BY <3>2, <4>1, <4>2 DEF SeenInv
    <3>5. CASE Lookup(w)
      BY <1>2, <3>2, <3>5 DEF Lookup, HandlerInv
    <3>6. CASE OpenFile(w) \/ ReopenFile(w)
      BY <1>2, <3>2, <3>6 DEF OpenFile, ReopenFile, PostNeverClobbers, Writing
    <3> QED
      BY <3>1, <3>3, <3>4, <3>5, <3>6
  <2> QED
    BY <2>1, <2>2
<1> QED
  BY <1>1, <1>2 DEF PostNeverClobbers

-----------------------------------------------------------------------------
(* Acknowledged posts, of threads whose system calls do not fail. *)

(* A directory goes only by a DELETE that leaves its mark. *)
LEMMA DirsKept ==
  ASSUME TypeOK, NEW w \in Worker, Begin(w) \/ Serve(w), NEW d \in Dir,
         d \in dirs \/ 0 \in deleted[d]
  PROVE  d \in dirs' \/ 0 \in deleted'[d]
<1>1. CASE dirs \subseteq dirs'
  BY <1>1, UsedGrows
<1>2. CASE /\ dirs' = dirs \ {req[w].dir}
           /\ deleted' = [deleted EXCEPT ![req[w].dir] = @ \cup {0}]
  BY <1>2 DEF TypeOK
<1> QED
  BY <1>1, <1>2
  DEF Serve, Begin, Other, OpenDir, ReadFile, CheckDir, MakeDir, Probe, Lookup, OpenFile,
      ReopenFile, WriteFile, Remove, Reply, store, hist

LEMMA AckStep ==
  ASSUME TypeOK, HandlerInv, AckInv, NEW w \in Worker, Begin(w) \/ Serve(w)
  PROVE  AckInv'
<1> USE DEF TypeOK
<1> DEFINE DirThere(v) == req[v].dir \in dirs \/ 0 \in deleted[req[v].dir]
           PostThere(v) == id[v] \in Used(req[v].dir) \/ 0 \in deleted[req[v].dir]
<1>r. \A v \in Worker : req[v].dir \in Dir /\ id[v] \in Nat
  BY RequestType
<1>k. ASSUME NEW v \in Worker, req'[v] = req[v], id'[v] = id[v]
      PROVE  (DirThere(v) => DirThere(v)') /\ (PostThere(v) => PostThere(v)')
  <2>1. DirThere(v) => DirThere(v)'
    BY <1>k, <1>r, DirsKept
  <2>2. PostThere(v) => PostThere(v)'
    BY <1>k, <1>r, UsedGrows
  <2> QED
    BY <2>1, <2>2
<1>1. ASSUME NEW v \in Worker \ IOFails, v # w, req'[v].method = "POST"
      PROVE  /\ pc'[v] \in {"probe"} \cup Writing => DirThere(v)'
             /\ pc'[v] \in {"reopen", "write"} => PostThere(v)'
  BY <1>1, <1>k, OthersKeep DEF AckInv
<1>2. ASSUME w \notin IOFails, req'[w].method = "POST", pc'[w] \in {"probe"} \cup Writing
      PROVE  DirThere(w)'
  <2>1. CheckDir(w) \/ MakeDir(w) \/ Probe(w) \/ Lookup(w) \/ OpenFile(w) \/ ReopenFile(w)
    <3>1. CASE Begin(w)
      <4> PICK r \in Request : Goto(w, FirstStep[r.method])
        BY <3>1 DEF Begin
      <4> QED
        BY <1>2, RequestType DEF Goto, FirstStep, Writing
    <3> QED
      BY <1>2, <3>1
      DEF Serve, Other, OpenDir, ReadFile, WriteFile, Remove, Reply, Respond, Goto, Writing
  <2>2. req' = req /\ ~Lookup(w)
    BY <1>2, <2>1 DEF CheckDir, MakeDir, Probe, Lookup, OpenFile, ReopenFile, HandlerInv
  <2>3. CASE CheckDir(w)
    BY <1>2, <2>2, <2>3 DEF CheckDir, Goto, store, Writing
  <2>4. CASE MakeDir(w)
    BY <1>2, <2>2, <2>4 DEF MakeDir, Respond, Goto, Writing
  <2>5. CASE Probe(w) \/ OpenFile(w) \/ ReopenFile(w)
    <3>1. DirThere(w)
      BY <1>2, <2>2, <2>5 DEF Probe, OpenFile, ReopenFile, AckInv, Writing
    <3> QED
      BY <1>r, <2>2, <3>1, DirsKept
  <2> QED
    BY <2>1, <2>2, <2>3, <2>4, <2>5
<1>3. ASSUME w \notin IOFails, req'[w].method = "POST", pc'[w] \in {"reopen", "write"}
      PROVE  PostThere(w)'
  <2>1. OpenFile(w) \/ ReopenFile(w)
    <3>1. CASE Begin(w)
      <4> PICK r \in Request : Goto(w, FirstStep[r.method])
        BY <3>1 DEF Begin
      <4> QED
        BY <1>3, RequestType DEF Goto, FirstStep
    <3> QED
      BY <1>3, <3>1
      DEF Serve, Other, OpenDir, ReadFile, CheckDir, MakeDir, Probe, Lookup, WriteFile,
          Remove, Reply, Respond, Goto
  <2>2. /\ UNCHANGED <<dirs, req, id, deleted>> /\ pc[w] \in Writing
        /\ \E opened \in BOOLEAN : Creat(w, opened)
    BY <2>1 DEF OpenFile, ReopenFile, hist, Writing
  <2> PICK opened \in BOOLEAN : Creat(w, opened)
    BY <2>2
  <2>3. CASE opened
    BY <2>2, <2>3, CreatAdds DEF Used
  <2>4. CASE ~opened
    <3>1. id[w] # 0
      BY <1>3, <2>2 DEF HandlerInv
    <3>2. req[w].dir \notin dirs
      BY <1>3, <2>4, <3>1 DEF Creat
    <3> QED
      BY <1>3, <2>2, <3>2 DEF AckInv
  <2> QED
    BY <2>3, <2>4
<1> QED
  BY <1>1, <1>2, <1>3 DEF AckInv

LEMMA AckedStep ==
  ASSUME TypeOK, HandlerInv, AckInv, AckedPostExists,
         NEW w \in Worker, Begin(w) \/ Serve(w)
  PROVE  AckedPostExists'
<1> USE DEF TypeOK
<1>r. \A v \in Worker : req[v].dir \in Dir
  BY RequestType
<1>u. \A d \in Dir : Used(d) \subseteq Used(d)' /\ deleted[d] \subseteq deleted'[d]
  BY UsedGrows
<1>1. ASSUME NEW v \in Worker \ IOFails, v # w, pc'[v] \in {"reply", "idle"},
             req'[v].method = "POST", out'[v].status = 200
      PROVE  out'[v].id \in Used(req[v].dir)' \/ 0 \in deleted'[req'[v].dir]
  <2>1. req'[v] = req[v] /\ out'[v] = out[v] /\ pc'[v] = pc[v]
    BY <1>1, OthersKeep
  <2>2. out[v].id \in Used(req[v].dir) \/ 0 \in deleted[req[v].dir]
    BY <1>1, <2>1 DEF AckedPostExists, Used
  <2> QED
    BY <1>r, <1>u, <2>1, <2>2 DEF Used
<1>2. ASSUME w \notin IOFails, pc'[w] \in {"reply", "idle"}, req'[w].method = "POST", out'[w].status = 200
      PROVE  out'[w].id \in Used(req[w].dir)' \/ 0 \in deleted'[req'[w].dir]
  <2>1. ~Begin(w)
    <3> SUFFICES ASSUME Begin(w) PROVE FALSE
      OBVIOUS
    <3> PICK r \in Request : Goto(w, FirstStep[r.method])
      BY DEF Begin
    <3> QED
      BY <1>2, RequestType DEF Goto, FirstStep
  <2>2. req' = req
    BY <2>1
    DEF Serve, Other, OpenDir, ReadFile, CheckDir, MakeDir, Probe, Lookup, OpenFile,
        ReopenFile, WriteFile, Remove, Reply
  <2>3. WriteFile(w) \/ Reply(w)
    BY <1>2, <2>1, <2>2
    DEF Serve, Other, OpenDir, ReadFile, CheckDir, MakeDir, Probe, Lookup, OpenFile,
        ReopenFile, Remove, Goto, HandlerInv
  <2>4. out'[w].id \in Used(req[w].dir) \/ 0 \in deleted[req[w].dir]
    <3>1. CASE WriteFile(w)
      <4>1. out'[w].id = id[w]
        <5>1. out'[w] = Promise(w)
          BY <3>1 DEF WriteFile, Respond
        <5>2. Promise(w) = Created(id[w])
          BY <1>2, <2>2 DEF Promise
        <5>3. \A n : Created(n).id = n
          BY Zenon DEF Created, Out
        <5> QED
          BY <5>1, <5>2, <5>3
      <4>2. pc[w] = "write"
        BY <3>1 DEF WriteFile
      <4> QED
        BY <1>2, <2>2, <4>1, <4>2 DEF AckInv
    <3>2. CASE Reply(w)
      BY <1>2, <2>2, <3>2 DEF Reply, AckedPostExists, Used
    <3> QED
      BY <2>3, <3>1, <3>2
  <2> QED
    BY <1>r, <1>u, <2>2, <2>4 DEF Used
<1> QED
  BY <1>1, <1>2 DEF AckedPostExists, Used

-----------------------------------------------------------------------------
(* The theorems. *)

LEMMA InitInv == Init => CrudInv /\ AckInv /\ AckedPostExists
<1> SUFFICES ASSUME Init PROVE CrudInv /\ AckInv /\ AckedPostExists
  OBVIOUS
<1>1. fd = {} /\ \A w \in Worker : pc[w] = "idle" /\ seen[w] = {}
  BY DEF Init
<1>2. \A w \in Worker : out[w].status = 0
  BY DEF Init, Blank, Out
<1>3. \A d \in Dir : DOMAIN post[d] = {}
  <2>1. DOMAIN <<>> = {}
    BY EmptySeq
  <2> QED
    BY <2>1, Zenon DEF Init
<1> QED
  BY <1>1, <1>2, <1>3
  DEF CrudInv, HandlerInv, ProbeInv, SeenInv, PrefixIds, PostNeverClobbers, AckInv,
      AckedPostExists, Writing

LEMMA NextInv == TypeOK /\ CrudInv /\ [Next]_vars => CrudInv'
<1> SUFFICES ASSUME TypeOK, CrudInv, [Next]_vars PROVE CrudInv'
  OBVIOUS
<1> USE DEF CrudInv
<1>1. CASE UNCHANGED vars
  BY <1>1
  DEF vars, HandlerInv, ProbeInv, SeenInv, PrefixIds, PostNeverClobbers, Used
<1>2. ASSUME NEW w \in Worker, Begin(w) \/ Serve(w) PROVE CrudInv'
  BY <1>2, HandlerStep, ProbeStep, SeenStep, PrefixStep, ClobberStep
<1> QED
  BY <1>1, <1>2 DEF Next

LEMMA NextAck ==
  TypeOK /\ CrudInv /\ AckInv /\ AckedPostExists /\ [Next]_vars
    => AckInv' /\ AckedPostExists'
<1> SUFFICES ASSUME TypeOK, CrudInv, AckInv, AckedPostExists, [Next]_vars
             PROVE  AckInv' /\ AckedPostExists'
  OBVIOUS
<1>1. CASE UNCHANGED vars
  BY <1>1 DEF vars, AckInv, AckedPostExists, Used
<1>2. ASSUME NEW w \in Worker, Begin(w) \/ Serve(w) PROVE AckInv' /\ AckedPostExists'
  BY <1>2, AckStep, AckedStep DEF CrudInv
<1> QED
  BY <1>1, <1>2 DEF Next

(* The inductive invariant holds in every reachable state. *)
THEOREM CrudInvariant == Spec => [](TypeOK /\ CrudInv)
<1>1. Init => CrudInv
  BY InitInv
<1> QED
  BY <1>1, InitType, NextType, NextInv, PTL DEF Spec

(* Ids are handed out from 1 without gaps, whatever the number of threads:    *)
(* handlePost's probe loop.                                                   *)
THEOREM PrefixIdsHolds == Spec => []PrefixIds
<1>1. CrudInv => PrefixIds
  BY DEF CrudInv
<1> QED
  BY <1>1, CrudInvariant, PTL

(* A POST never truncates a post that existed when it began: handlePost and   *)
(* the two opens of write_file.                                               *)
THEOREM PostNeverClobbersHolds == Spec => []PostNeverClobbers
<1>1. CrudInv => PostNeverClobbers
  BY DEF CrudInv
<1> QED
  BY <1>1, CrudInvariant, PTL

(* The id a POST answers with names a post until it, or its directory, is     *)
(* deleted, if no system call of its own thread failed.                       *)
THEOREM AckedPostExistsHolds == Spec => []AckedPostExists
<1>1. Init => AckInv /\ AckedPostExists
  BY InitInv
<1>2. TypeOK /\ CrudInv /\ AckInv /\ AckedPostExists /\ [Next]_vars
        => AckInv' /\ AckedPostExists'
  BY NextAck
<1> QED
  BY <1>1, <1>2, CrudInvariant, PTL DEF Spec

(* IInv, which the runs check as well, is what every step of every thread     *)
(* preserves.                                                                 *)
THEOREM IInvHolds == Spec => []IInv
<1>1. Init => IInv
  BY InitInv DEF IInv
<1>2. TypeOK /\ IInv /\ [Next]_vars => IInv'
  BY NextInv, NextAck DEF IInv
<1> QED
  BY <1>1, <1>2, TypeCorrect, PTL DEF Spec
-----------------------------------------------------------------------------
(* The probe loop is bounded.  Each POST takes one id at most, so the ids     *)
(* used in a directory, or settled on, and the POSTs that still look for one  *)
(* are no more than the POSTs begun.                                          *)

Trying == {w \in Worker : pc[w] \in {"exists", "mkdir", "probe"}}

Claims(w, d) == pc[w] \in Writing /\ req[w].method = "POST" /\ req[w].dir = d

Taken(d) == (Used(d) \ {0}) \cup {id[w] : w \in {v \in Worker : Claims(v, d)}}

(* A PUT writes where there was a post when it looked. *)
PutInv ==
  \A w \in Worker :
    pc[w] \in Writing /\ req[w].method # "POST" => id[w] \in Used(req[w].dir) \cup {0}

CountInv ==
  /\ IsFiniteSet(Trying)
  /\ \A d \in Dir : IsFiniteSet(Taken(d)) /\ Cardinality(Taken(d)) + Cardinality(Trying) <= begun

TriedInv == \A w \in Worker : req[w].method = "POST" => id[w] <= begun

BoundInv == PutInv /\ CountInv /\ TriedInv

LEMMA PutStep ==
  ASSUME TypeOK, HandlerInv, PutInv, NEW w \in Worker, Begin(w) \/ Serve(w)
  PROVE  PutInv'
<1> SUFFICES ASSUME NEW v \in Worker, pc'[v] \in Writing, req'[v].method # "POST"
             PROVE  (id[v] \in Used(req[v].dir) \cup {0})'
  BY DEF PutInv
<1>1. \A d \in Dir : Used(d) \subseteq Used(d)'
  BY UsedGrows
<1>2. req[v].dir \in Dir
  BY RequestType DEF TypeOK
<1>3. CASE pc[v] \in Writing /\ req'[v] = req[v] /\ id'[v] = id[v]
  BY <1>1, <1>2, <1>3 DEF PutInv, Used
<1>4. CASE v # w
  BY <1>3, <1>4, OthersKeep
<1>5. CASE v = w
  <2>1. CASE Begin(w)
    <3>1. PICK r \in Request : pc' = [pc EXCEPT ![w] = FirstStep[r.method]]
      BY <2>1 DEF Begin, Goto
    <3> QED
      BY <1>5, <3>1, RequestType DEF TypeOK, FirstStep, Writing
  <2>2. CASE Lookup(w)
    <3>1. /\ req'[v] = req[v] /\ id'[v] = id[v] /\ UNCHANGED <<post, deleted>>
          /\ pc'[v] = "open" => Exists(req[v].dir, id[v])
          /\ pc'[v] \in {"open", "reply"}
      BY <1>5, <2>2 DEF Lookup, Goto, Respond, TypeOK, store, hist
    <3>2. id[v] = 0 \/ id[v] \in DOMAIN post[req[v].dir]
      BY <3>1 DEF Exists, Writing
    <3> QED
      BY <3>1, <3>2 DEF Used
  <2>3. CASE Serve(w) /\ ~Lookup(w)
    <3>1. req'[w] = req[w]
      BY <2>3
      DEF Serve, Other, OpenDir, ReadFile, CheckDir, MakeDir, Probe, OpenFile, ReopenFile,
          WriteFile, Remove, Reply
    <3>2. CASE CheckDir(w) \/ MakeDir(w) \/ Probe(w)
      BY <1>5, <3>1, <3>2 DEF CheckDir, MakeDir, Probe, HandlerInv
    <3>3. CASE OpenFile(w) \/ ReopenFile(w)
      <4>1. pc[v] \in Writing /\ id'[v] = id[v]
        BY <1>5, <3>3 DEF OpenFile, ReopenFile, Writing
      <4> QED
        BY <1>3, <1>5, <3>1, <4>1
    <3>4. CASE Other(w) \/ OpenDir(w) \/ ReadFile(w) \/ WriteFile(w) \/ Remove(w) \/ Reply(w)
      <4>1. pc'[w] \in {"reply", "readfile", "idle"}
        BY <3>4
        DEF Other, OpenDir, ReadFile, WriteFile, Remove, Reply, Respond, Goto, TypeOK
      <4> QED
        BY <1>5, <4>1 DEF Writing
    <3> QED
      BY <2>3, <3>2, <3>3, <3>4 DEF Serve
  <2> QED
    BY <2>1, <2>2, <2>3
<1> QED
  BY <1>4, <1>5

(* Only the opens use an id that was not used before. *)
LEMMA UsedAdds ==
  ASSUME TypeOK, NEW w \in Worker, Begin(w) \/ Serve(w), NEW d \in Dir, NEW i \in Used(d)'
  PROVE  i \in Used(d) \/ i = 0 \/ (pc[w] \in Writing /\ d = req[w].dir /\ i = id[w])
<1> USE DEF TypeOK, TreeOK, Used
<1>r. req[w].dir \in Dir /\ id[w] \in Nat
  BY RequestType
<1>1. CASE UNCHANGED <<post, deleted>>
  BY <1>1
<1>2. CASE OpenFile(w) \/ ReopenFile(w)
  <2>1. UNCHANGED deleted /\ pc[w] \in Writing /\ \E opened \in BOOLEAN : Creat(w, opened)
    BY <1>2 DEF OpenFile, ReopenFile, hist, Writing
  <2> QED
    BY <2>1, CreatAdds
<1>3. CASE WriteFile(w)
  BY <1>r, <1>3 DEF WriteFile, hist
<1>4. CASE Remove(w)
  <2>1. CASE UNCHANGED post /\ deleted' = [deleted EXCEPT ![req[w].dir] = @ \cup {0}]
    BY <1>r, <2>1
  <2>2. CASE /\ id[w] # 0 /\ Exists(req[w].dir, id[w])
             /\ post' = [post EXCEPT ![req[w].dir] = Unlink(post[req[w].dir], id[w])]
             /\ deleted' = [deleted EXCEPT ![req[w].dir] = @ \cup {id[w]}]
    BY <1>r, <2>2 DEF Unlink, Exists
  <2> QED
    BY <1>1, <1>4, <2>1, <2>2 DEF Remove, store, hist
<1> QED
  BY <1>1, <1>2, <1>3, <1>4
  DEF Serve, Begin, Other, OpenDir, ReadFile, CheckDir, MakeDir, Probe, Lookup, Reply,
      store, hist

(* A POST ends its search by settling on an id, or by failing. *)
Settles(w) == w \in Trying /\ pc'[w] = "open" /\ id' = id /\ req' = req

LEMMA TryingStep ==
  ASSUME TypeOK, HandlerInv, NEW w \in Worker, Begin(w) \/ Serve(w)
  PROVE  \/ Trying' = Trying /\ begun' = begun
         \/ w \notin Trying /\ Trying' = Trying \cup {w} /\ begun' = begun + 1
         \/ w \in Trying /\ Trying' = Trying \ {w} /\ begun' = begun
<1>1. \A v \in Worker : v # w => (v \in Trying' <=> v \in Trying)
  BY OthersKeep DEF Trying
<1>2. Trying \subseteq Worker /\ Trying' \subseteq Worker
  BY DEF Trying
<1>3. CASE Begin(w)
  <2>1. PICK r \in Request : /\ pc' = [pc EXCEPT ![w] = FirstStep[r.method]]
                             /\ begun' = IF r.method = "POST" THEN begun + 1 ELSE begun
    BY <1>3 DEF Begin, Goto
  <2>2. w \notin Trying /\ (w \in Trying' <=> r.method = "POST")
    BY <1>3, <2>1, RequestType DEF Begin, FirstStep, Trying, TypeOK
  <2> QED
    BY <1>1, <1>2, <2>1, <2>2
<1>4. CASE Serve(w)
  <2>1. begun' = begun
    BY <1>4
    DEF Serve, Other, OpenDir, ReadFile, CheckDir, MakeDir, Probe, Lookup, OpenFile, ReopenFile,
        WriteFile, Remove, Reply
  <2>2. w \in Trying' => w \in Trying
    BY <1>4
    DEF Trying, Serve, Other, OpenDir, ReadFile, CheckDir, MakeDir, Probe, Lookup, OpenFile,
        ReopenFile, WriteFile, Remove, Reply, Goto, Respond, TypeOK
  <2> QED
    BY <1>1, <1>2, <2>1, <2>2
<1> QED
  BY <1>3, <1>4

LEMMA TakenStep ==
  ASSUME TypeOK, HandlerInv, PutInv, NEW w \in Worker, Begin(w) \/ Serve(w),
         NEW d \in Dir, NEW i \in Taken(d)'
  PROVE  i \in Taken(d) \/ (Settles(w) /\ w \notin Trying' /\ i = id[w])
<1>1. CASE i \in Used(d)' /\ i # 0
  <2>1. CASE i \in Used(d)
    BY <1>1, <2>1 DEF Taken
  <2>2. CASE pc[w] \in Writing /\ d = req[w].dir /\ i = id[w]
    <3>1. CASE req[w].method = "POST"
      BY <2>2, <3>1 DEF Taken, Claims
    <3>2. CASE req[w].method # "POST"
      BY <1>1, <2>2, <3>2 DEF Taken, PutInv
    <3> QED
      BY <3>1, <3>2
  <2> QED
    BY <1>1, <2>1, <2>2, UsedAdds
<1>2. ASSUME NEW v \in Worker, Claims(v, d)', i = id'[v]
      PROVE  i \in Taken(d) \/ (Settles(w) /\ w \notin Trying' /\ i = id[w])
  <2>1. CASE Claims(v, d) /\ id'[v] = id[v]
    BY <1>2, <2>1 DEF Taken
  <2>2. CASE v # w
    BY <1>2, <2>1, <2>2, OthersKeep DEF Claims
  <2>3. CASE v = w
    <3>1. pc'[w] \in Writing /\ req'[w].method = "POST" /\ req'[w].dir = d
      BY <1>2, <2>3 DEF Claims
    <3>2. CASE OpenFile(w) \/ ReopenFile(w)
      <4>1. pc[w] \in Writing /\ req' = req /\ id' = id
        BY <3>2 DEF OpenFile, ReopenFile, Writing
      <4> QED
        BY <2>1, <2>3, <3>1, <4>1 DEF Claims
    <3>3. CASE MakeDir(w) \/ Probe(w)
      <4>1. req' = req /\ w \in Trying /\ w \notin Trying' /\ pc'[w] = "open" /\ id' = id
        BY <3>1, <3>3 DEF MakeDir, Probe, Goto, Respond, Trying, Writing, TypeOK
      <4> QED
        BY <1>2, <2>3, <4>1 DEF Settles
    <3>4. CASE Begin(w)
      <4>1. PICK r \in Request : pc' = [pc EXCEPT ![w] = FirstStep[r.method]]
        BY <3>4 DEF Begin, Goto
      <4> QED
        BY <3>1, <4>1, RequestType DEF TypeOK, FirstStep, Writing
    <3>5. CASE Lookup(w)
      BY <3>1, <3>5 DEF Lookup, HandlerInv
    <3>6. CASE Other(w) \/ OpenDir(w) \/ ReadFile(w) \/ CheckDir(w) \/ WriteFile(w) \/ Remove(w)
               \/ Reply(w)
      <4>1. pc'[w] \in {"reply", "readfile", "idle", "probe", "mkdir"}
        BY <3>6
        DEF Other, OpenDir, ReadFile, CheckDir, WriteFile, Remove, Reply, Respond, Goto, TypeOK
      <4> QED
        BY <3>1, <4>1 DEF Writing
    <3> QED
      BY <3>2, <3>3, <3>4, <3>5, <3>6 DEF Serve
  <2> QED
    BY <2>2, <2>3
<1> QED
  BY <1>1, <1>2 DEF Taken

LEMMA CountStep ==
  ASSUME TypeOK, HandlerInv, PutInv, CountInv, NEW w \in Worker, Begin(w) \/ Serve(w)
  PROVE  CountInv'
<1>1. begun \in Nat /\ Cardinality(Trying) \in Nat
  BY MaxPostsAssumption, FS_CardinalityType DEF TypeOK, CountInv
<1>2. IsFiniteSet(Trying)'
  <2>1. IsFiniteSet(Trying \cup {w}) /\ IsFiniteSet(Trying \ {w})
    BY FS_AddElement, FS_RemoveElement DEF CountInv
  <2> QED
    BY <2>1, TryingStep DEF CountInv
<1>3. ASSUME NEW d \in Dir
      PROVE  IsFiniteSet(Taken(d)') /\ Cardinality(Taken(d)') + Cardinality(Trying') <= begun'
  <2> DEFINE T == Taken(d)
  <2>1. IsFiniteSet(T) /\ Cardinality(T) \in Nat /\ Cardinality(T) + Cardinality(Trying) <= begun
    BY FS_CardinalityType DEF CountInv
  <2>2. CASE Settles(w) /\ w \notin Trying'
    <3>1. Taken(d)' \subseteq T \cup {id[w]}
      BY TakenStep
    <3>2. /\ IsFiniteSet(T \cup {id[w]}) /\ Cardinality(T \cup {id[w]}) <= Cardinality(T) + 1
          /\ Cardinality(T \cup {id[w]}) \in Nat
      BY <2>1, FS_AddElement
    <3>3. IsFiniteSet(Taken(d)') /\ Cardinality(Taken(d)') <= Cardinality(T \cup {id[w]})
      BY <3>1, <3>2, FS_Subset
    <3>4. Cardinality(Taken(d)') \in Nat
      BY <3>3, FS_CardinalityType
    <3>5. Trying' = Trying \ {w} /\ begun' = begun /\ w \in Trying
      BY <1>1, <2>2, TryingStep DEF Settles
    <3>6. Cardinality(Trying') = Cardinality(Trying) - 1
      BY <3>5, FS_RemoveElement DEF CountInv
    <3> HIDE DEF T
    <3> QED
      BY <1>1, <2>1, <3>2, <3>3, <3>4, <3>5, <3>6
  <2>3. CASE ~(Settles(w) /\ w \notin Trying')
    <3>1. Taken(d)' \subseteq T
      BY <2>3, TakenStep
    <3>2. IsFiniteSet(Taken(d)') /\ Cardinality(Taken(d)') <= Cardinality(T)
      BY <2>1, <3>1, FS_Subset
    <3>3. Cardinality(Taken(d)') \in Nat
      BY <3>2, FS_CardinalityType
    <3>4. /\ Cardinality(Trying \ {w}) <= Cardinality(Trying) /\ Cardinality(Trying \ {w}) \in Nat
          /\ w \notin Trying => Cardinality(Trying \cup {w}) = Cardinality(Trying) + 1
      BY <1>1, FS_AddElement, FS_Subset, FS_CardinalityType DEF CountInv
    <3>5. /\ Cardinality(Trying') \in Nat
          /\ \/ Cardinality(Trying') <= Cardinality(Trying) /\ begun' = begun
             \/ Cardinality(Trying') = Cardinality(Trying) + 1 /\ begun' = begun + 1
      <4>1. \/ Trying' = Trying /\ begun' = begun
            \/ w \notin Trying /\ Trying' = Trying \cup {w} /\ begun' = begun + 1
            \/ Trying' = Trying \ {w} /\ begun' = begun
        BY TryingStep
      <4> HIDE DEF T
      <4>2. CASE Trying' = Trying /\ begun' = begun
        BY <1>1, <4>2
      <4>3. CASE w \notin Trying /\ Trying' = Trying \cup {w} /\ begun' = begun + 1
        BY <1>1, <3>4, <4>3
      <4>4. CASE Trying' = Trying \ {w} /\ begun' = begun
        BY <3>4, <4>4
      <4> QED
        BY <4>1, <4>2, <4>3, <4>4
    <3> HIDE DEF T
    <3> QED
      BY <1>1, <2>1, <3>2, <3>3, <3>5
  <2> QED
    BY <2>2, <2>3
<1> QED
  BY <1>2, <1>3 DEF CountInv

(* As many ids as are below one are used, if all of them are. *)
LEMMA Below ==
  ASSUME NEW S, IsFiniteSet(S), NEW n \in Nat, 1..n \subseteq S
  PROVE  n <= Cardinality(S)
<1>1. Cardinality(1..n) = n
  BY FS_Interval
<1> QED
  BY <1>1, FS_Subset

LEMMA UsedBelow ==
  ASSUME TypeOK, CountInv, PrefixIds, NEW d \in Dir, NEW n \in DOMAIN post[d]
  PROVE  n \in 1..begun /\ n + Cardinality(Trying) <= begun
<1>1. n \in Nat \ {0} /\ begun \in Nat
  BY MaxPostsAssumption DEF TypeOK, TreeOK
<1>2. 1..n \subseteq Taken(d)
  BY DEF PrefixIds, Taken, Used
<1>3. /\ IsFiniteSet(Taken(d)) /\ Cardinality(Taken(d)) \in Nat /\ Cardinality(Trying) \in Nat
      /\ Cardinality(Taken(d)) + Cardinality(Trying) <= begun
  BY FS_CardinalityType DEF CountInv
<1>4. n <= Cardinality(Taken(d))
  BY <1>1, <1>2, <1>3, Below
<1> QED
  BY <1>1, <1>3, <1>4

LEMMA TriedStep ==
  ASSUME TypeOK, HandlerInv, PrefixIds, CountInv, TriedInv, NEW w \in Worker, Begin(w) \/ Serve(w)
  PROVE  TriedInv'
<1> SUFFICES ASSUME NEW v \in Worker, req'[v].method = "POST"
             PROVE  id'[v] <= begun'
  BY DEF TriedInv
<1>1. begun \in Nat /\ id[v] \in Nat /\ begun' \in {begun, begun + 1}
  BY MaxPostsAssumption, TryingStep DEF TypeOK
<1>2. CASE req'[v] = req[v] /\ id'[v] = id[v]
  BY <1>1, <1>2 DEF TriedInv
<1>3. CASE v # w
  BY <1>2, <1>3, OthersKeep
<1>4. CASE Begin(v) /\ v = w
  <2>1. PICK r \in Request : /\ begun' = IF r.method = "POST" THEN begun + 1 ELSE begun
                             /\ req' = [req EXCEPT ![v] = r]
                             /\ id' = [id EXCEPT ![v] = IF r.method = "POST" THEN 1 ELSE r.id]
    BY <1>4 DEF Begin
  <2>2. r.method = "POST"
    BY <2>1 DEF TypeOK
  <2>3. id'[v] = 1 /\ begun' = begun + 1
    BY <2>1, <2>2 DEF TypeOK
  <2> QED
    BY <1>1, <2>3
<1>5. CASE Probe(v) /\ v = w /\ id' # id
  <2>1. Exists(req[v].dir, id[v]) /\ id' = [id EXCEPT ![v] = id[v] + 1] /\ begun' = begun
    BY <1>5 DEF Probe, Following
  <2>2. req[v].dir \in Dir /\ id[v] # 0 /\ v \in Trying
    BY <1>5, RequestType DEF Probe, HandlerInv, TypeOK, Trying
  <2>3. id[v] + Cardinality(Trying) <= begun
    BY <2>1, <2>2, UsedBelow DEF Exists
  <2>4. Cardinality(Trying) \in Nat /\ Cardinality(Trying) # 0
    BY <2>2, FS_CardinalityType, FS_EmptySet DEF CountInv
  <2>5. id'[v] = id[v] + 1
    BY <2>1 DEF TypeOK
  <2> QED
    BY <1>1, <2>1, <2>3, <2>4, <2>5
<1>6. CASE Serve(v) /\ v = w /\ id' = id
  <2>1. req' = req
    BY <1>6
    DEF Serve, Other, OpenDir, ReadFile, CheckDir, MakeDir, Probe, Lookup, OpenFile, ReopenFile,
        WriteFile, Remove, Reply
  <2> QED
    BY <1>2, <1>6, <2>1
<1>7. Serve(w) => Probe(w) \/ id' = id
  BY DEF Serve, Other, OpenDir, ReadFile, CheckDir, MakeDir, Lookup, OpenFile, ReopenFile,
         WriteFile, Remove, Reply
<1> QED
  BY <1>3, <1>4, <1>5, <1>6, <1>7 DEF Serve

LEMMA BoundInit == Init => BoundInv
<1> SUFFICES ASSUME Init PROVE BoundInv
  OBVIOUS
<1>1. ASSUME NEW w \in Worker PROVE pc[w] = "idle" /\ req[w].method # "POST"
  <2>1. req[w] \in {[method |-> "PATCH", dir |-> d, id |-> 0, body |-> <<>>] : d \in Dir}
    BY DEF Init
  <2>2. req[w].method = "PATCH"
    BY <2>1
  <2> QED
    BY <2>2 DEF Init
<1>2. Trying = {}
  BY <1>1 DEF Trying
<1>3. ASSUME NEW d \in Dir PROVE Taken(d) = {}
  <2>1. DOMAIN post[d] = {}
    <3>1. DOMAIN <<>> = {}
      BY EmptySeq
    <3> QED
      BY <3>1, Zenon DEF Init
  <2>2. Used(d) = {}
    BY <2>1 DEF Used, Init
  <2>3. \A w \in Worker : ~Claims(w, d)
    BY <1>1 DEF Claims, Writing
  <2> QED
    BY <2>2, <2>3 DEF Taken
<1>4. IsFiniteSet({}) /\ Cardinality({}) = 0 /\ begun = 0
  BY FS_EmptySet DEF Init
<1>5. CountInv
  BY <1>2, <1>3, <1>4 DEF CountInv
<1> QED
  BY <1>1, <1>5 DEF BoundInv, PutInv, TriedInv, Writing

LEMMA BoundNext == TypeOK /\ CrudInv /\ BoundInv /\ [Next]_vars => BoundInv'
<1> SUFFICES ASSUME TypeOK, CrudInv, BoundInv, [Next]_vars PROVE BoundInv'
  OBVIOUS
<1>1. CASE UNCHANGED vars
  BY <1>1 DEF vars, BoundInv, PutInv, CountInv, TriedInv, Trying, Taken, Claims, Used
<1>2. ASSUME NEW w \in Worker, Begin(w) \/ Serve(w) PROVE BoundInv'
  BY <1>2, PutStep, CountStep, TriedStep DEF BoundInv, CrudInv
<1> QED
  BY <1>1, <1>2 DEF Next

(* The probe loop of handlePost makes no more rounds than POSTs were begun:   *)
(* the others may create posts in front of it, but each creates one.          *)
THEOREM IdsBoundedHolds == Spec => []IdsBounded
<1>1. TypeOK /\ CrudInv /\ BoundInv => IdsBounded
  <2> SUFFICES ASSUME TypeOK, CrudInv, BoundInv PROVE IdsBounded
    OBVIOUS
  <2>1. \A d \in Dir : DOMAIN post[d] \subseteq 1..begun
    BY UsedBelow DEF BoundInv, CrudInv
  <2> QED
    BY <2>1 DEF IdsBounded, BoundInv, TriedInv
<1> QED
  BY <1>1, BoundInit, BoundNext, CrudInvariant, PTL DEF Spec
-----------------------------------------------------------------------------
(* Two POSTs at once are the only way to one id: where the directories' POSTs *)
(* come one after another, the others' GETs, PUTs and DELETEs do no harm.     *)

Posting(w) == req[w].method = "POST" /\ pc[w] \in {"exists", "mkdir", "probe"} \cup Writing

(* No two POSTs are at work in one directory. *)
SerialPosts ==
  \A v, w \in Worker : Posting(v) /\ Posting(w) /\ req[v].dir = req[w].dir => v = w

(* A POST at work knows of every post acknowledged before it. *)
KnownInv ==
  \A v \in Worker \ IOFails, w \in Worker :
    Acked(v) /\ Posting(w) /\ req[v].dir = req[w].dir /\ deleted[req[v].dir] = {}
      => out[v].id \in seen[w]

LEMMA CreatedId == NotFound.status # 200 /\ \A n : Created(n).id = n
  BY DEF Created, NotFound, Out

(* How a POST is answered: by the write, or it was before. *)
LEMMA AckedFrom ==
  ASSUME TypeOK, HandlerInv, NEW w \in Worker, Begin(w) \/ Serve(w), Acked(w)'
  PROVE  /\ req' = req /\ deleted' = deleted /\ \A v \in Worker \ {w} : seen'[v] = seen[v]
         /\ \/ Acked(w) /\ out' = out
            \/ /\ pc[w] = "write" /\ req[w].method = "POST" /\ out'[w].id = id[w]
<1> USE DEF TypeOK
<1>1. ~Begin(w)
  <2> SUFFICES ASSUME Begin(w) PROVE FALSE
    OBVIOUS
  <2>1. PICK r \in Request : req' = [req EXCEPT ![w] = r] /\ Goto(w, FirstStep[r.method])
    BY DEF Begin
  <2>2. pc'[w] \notin {"reply", "idle"}
    BY <2>1, RequestType DEF Goto, FirstStep
  <2> QED
    BY <2>2 DEF Acked
<1>2. Serve(w)
  BY <1>1
<1>3. req' = req
  BY <1>2
  DEF Serve, Other, OpenDir, ReadFile, CheckDir, MakeDir, Probe, Lookup, OpenFile,
      ReopenFile, WriteFile, Remove, Reply
<1>4. req[w].method = "POST"
  BY <1>3 DEF Acked
<1>5. CASE WriteFile(w)
  <2>1. req[w].method = "POST"
    BY <1>3, <1>4
  <2>2. out'[w] = Created(id[w])
    BY <1>5, <2>1 DEF WriteFile, Respond, Promise
  <2>3. out'[w].id = id[w]
    BY <2>2, CreatedId
  <2>4. pc[w] = "write" /\ seen' = seen /\ deleted' = deleted
    BY <1>5 DEF WriteFile, hist
  <2> QED
    BY <1>3, <2>1, <2>3, <2>4
<1>6. CASE Reply(w)
  <2>1. Acked(w)
    BY <1>3, <1>6 DEF Reply, Goto, Acked
  <2>2. out' = out /\ deleted' = deleted /\ \A v \in Worker \ {w} : seen'[v] = seen[v]
    BY <1>6 DEF Reply
  <2> QED
    BY <1>3, <2>1, <2>2
<1>7. CASE MakeDir(w)
  <2>1. pc'[w] # "open" /\ out'[w] # NotFound
    BY CreatedId DEF Acked
  <2> QED
    BY <1>7, <2>1 DEF MakeDir, Respond, Goto
<1>8. CASE CheckDir(w) \/ Probe(w) \/ OpenFile(w) \/ ReopenFile(w)
  BY <1>8 DEF CheckDir, Probe, OpenFile, ReopenFile, Goto, Acked
<1>9. ~(Other(w) \/ OpenDir(w) \/ ReadFile(w) \/ Lookup(w) \/ Remove(w))
  BY <1>4 DEF HandlerInv, Other, OpenDir, ReadFile, Lookup, Remove
<1> QED
  BY <1>2, <1>5, <1>6, <1>7, <1>8, <1>9, Zenon DEF Serve

LEMMA SeenHeld ==
  ASSUME TypeOK, NEW x \in Worker, Begin(x) \/ Serve(x), NEW w \in Worker, w # x,
         deleted'[req[w].dir] = {}
  PROVE  seen'[w] = seen[w]
<1> USE DEF TypeOK
<1>1. CASE Begin(x)
  BY <1>1 DEF Begin
<1>2. CASE Reply(x)
  BY <1>2 DEF Reply
<1>3. CASE Remove(x)
  <2>1. CASE /\ deleted' = [deleted EXCEPT ![req[x].dir] = @ \cup {id[x]}]
             /\ seen' = [v \in Worker |-> IF req[v].dir = req[x].dir
                                            THEN seen[v] \ {id[x]} ELSE seen[v]]
    <3>1. req[w].dir # req[x].dir
      <4>1. req[x].dir \in Dir
        BY RequestType
      <4> QED
        BY <2>1, <4>1
    <3> QED
      BY <2>1, <3>1
  <2> QED
    BY <1>3, <2>1 DEF Remove, hist
<1> QED
  BY <1>1, <1>2, <1>3
  DEF Serve, Other, OpenDir, ReadFile, CheckDir, MakeDir, Probe, Lookup, OpenFile,
      ReopenFile, WriteFile, hist

LEMMA PostingFrom ==
  ASSUME TypeOK, HandlerInv, NEW x \in Worker, Serve(x), Posting(x)'
  PROVE  Posting(x) /\ seen' = seen /\ req' = req
<1> USE DEF TypeOK
<1>1. req' = req
  BY DEF Serve, Other, OpenDir, ReadFile, CheckDir, MakeDir, Probe, Lookup, OpenFile,
         ReopenFile, WriteFile, Remove, Reply
<1>2. req[x].method = "POST" /\ pc'[x] \notin {"reply", "idle", "readfile"}
  BY <1>1 DEF Posting, Writing
<1>3. ~(Other(x) \/ OpenDir(x) \/ ReadFile(x) \/ Lookup(x) \/ Remove(x))
  BY <1>2 DEF HandlerInv, Other, OpenDir, ReadFile, Lookup, Remove
<1>4. ~(WriteFile(x) \/ Reply(x))
  BY <1>2 DEF WriteFile, Reply, Respond, Goto
<1>5. CASE CheckDir(x) \/ MakeDir(x) \/ Probe(x) \/ OpenFile(x) \/ ReopenFile(x)
  BY <1>1, <1>2, <1>5
  DEF CheckDir, MakeDir, Probe, OpenFile, ReopenFile, Posting, Writing, hist
<1> QED
  BY <1>3, <1>4, <1>5 DEF Serve

LEMMA SerialStep ==
  ASSUME TypeOK, CrudInv, AckedPostExists, SerialPosts, KnownInv, DistinctIds,
         NEW x \in Worker, Begin(x) \/ Serve(x)
  PROVE  KnownInv' /\ DistinctIds'
<1> USE DEF TypeOK
<1>h. HandlerInv
  BY DEF CrudInv
<1>o. ASSUME NEW u \in Worker, u # x
      PROVE  /\ pc'[u] = pc[u] /\ req'[u] = req[u] /\ out'[u] = out[u]
             /\ Acked(u)' <=> Acked(u)
             /\ Posting(u)' <=> Posting(u)
  BY <1>o, OthersKeep DEF Acked, Posting
<1>1. ASSUME NEW v \in Worker \ IOFails, NEW w \in Worker, Acked(v)', Posting(w)',
             req'[v].dir = req'[w].dir, deleted'[req'[v].dir] = {}
      PROVE  out'[v].id \in seen'[w]
  <2>1. req'[v].dir \in Dir
    <3>1. req'[v] \in Request
      BY NextType DEF Next
    <3> QED
      BY <3>1, RequestType
  <2>2. deleted[req'[v].dir] = {}
    BY <1>1, <2>1, UsedGrows
  <2>3. CASE v = x
    <3>1. w # x /\ Posting(w) /\ req'[w] = req[w]
      <4>1. ~Posting(v)'
        BY <1>1 DEF Acked, Posting, Writing
      <4>2. w # x
        BY <1>1, <2>3, <4>1
      <4> QED
        BY <1>1, <4>2, <1>o
    <3>2. req' = req /\ seen'[w] = seen[w] /\ ((Acked(x) /\ out' = out) \/ Posting(x))
      BY <1>h, <1>1, <2>3, <3>1, AckedFrom DEF Posting, Writing
    <3>3. ~Posting(x)
      BY <1>1, <2>3, <3>1, <3>2 DEF SerialPosts
    <3> QED
      BY <1>1, <2>2, <2>3, <3>1, <3>2, <3>3 DEF KnownInv
  <2>4. CASE v # x
    <3>1. /\ Acked(v) /\ pc[v] \in {"reply", "idle"} /\ req[v].method = "POST"
          /\ out[v].status = 200 /\ out'[v] = out[v] /\ req'[v] = req[v]
      BY <1>1, <2>4, <1>o DEF Acked
    <3>2. out[v].id \in DOMAIN post[req[v].dir]
      BY <2>2, <3>1 DEF AckedPostExists
    <3>3. CASE w = x /\ Begin(x)
      <4> PICK r \in Request : /\ req' = [req EXCEPT ![x] = r]
                               /\ seen' = [seen EXCEPT ![x] = DOMAIN post[r.dir]]
        BY <3>3 DEF Begin
      <4> QED
        BY <1>1, <3>1, <3>2, <3>3
    <3>4. CASE w = x /\ Serve(x)
      <4>1. Posting(x) /\ seen' = seen /\ req' = req
        BY <1>h, <1>1, <3>4, PostingFrom
      <4> QED
        BY <1>1, <2>2, <3>1, <3>4, <4>1 DEF KnownInv
    <3>5. CASE w # x
      <4>1. out[v].id \in seen[w]
        BY <1>1, <1>o, <2>2, <3>1, <3>5 DEF KnownInv
      <4>2. req'[w] = req[w] /\ deleted'[req[w].dir] = {}
        BY <1>1, <1>o, <3>1, <3>5
      <4>3. seen'[w] = seen[w]
        BY <3>5, <4>2, SeenHeld
      <4> QED
        BY <3>1, <4>1, <4>3
    <3> QED
      BY <3>3, <3>4, <3>5
  <2> QED
    BY <2>3, <2>4
<1>2. ASSUME NEW v \in Worker \ IOFails, NEW w \in Worker \ IOFails, v # w, v # x,
             Acked(v)', Acked(w)', req'[v].dir = req'[w].dir, deleted'[req'[v].dir] = {}
      PROVE  out'[v].id # out'[w].id
  <2>1. Acked(v) /\ out'[v] = out[v] /\ req'[v] = req[v]
    BY <1>2, <1>o
  <2>2. req'[v].dir \in Dir
    BY <2>1, RequestType
  <2>3. deleted[req'[v].dir] = {}
    BY <1>2, <2>2, UsedGrows
  <2>4. CASE w # x
    <3>1. Acked(w) /\ out'[w] = out[w] /\ req'[w] = req[w]
      BY <1>2, <2>4, <1>o
    <3> QED
      BY <1>2, <2>1, <2>3, <3>1 DEF DistinctIds
  <2>5. CASE w = x
    <3>1. req' = req
      BY <1>h, <1>2, <2>5, AckedFrom
    <3>2. CASE Acked(w) /\ out' = out
      BY <1>2, <2>1, <2>3, <3>1, <3>2 DEF DistinctIds
    <3>3. CASE pc[w] = "write" /\ req[w].method = "POST" /\ out'[w].id = id[w]
      <4>1. out[v].id \in seen[w]
        BY <1>2, <2>1, <2>3, <3>1, <3>3 DEF KnownInv, Posting, Writing
      <4>2. id[w] \notin seen[w]
        BY <3>3 DEF CrudInv, PostNeverClobbers, Writing
      <4> QED
        BY <2>1, <3>3, <4>1, <4>2
    <3> QED
      BY <1>h, <1>2, <2>5, <3>2, <3>3, AckedFrom
  <2> QED
    BY <2>4, <2>5
<1>3. KnownInv'
  BY <1>1 DEF KnownInv
<1>4. DistinctIds'
  <2> SUFFICES ASSUME NEW v \in Worker \ IOFails, NEW w \in Worker \ IOFails, v # w,
                      Acked(v)', Acked(w)', req'[v].dir = req'[w].dir,
                      deleted'[req'[v].dir] = {}
               PROVE  out'[v].id # out'[w].id
    BY DEF DistinctIds
  <2>1. CASE v # x
    BY <1>2, <2>1
  <2>2. CASE w # x
    <3>1. out'[w].id # out'[v].id
      BY <1>2, <2>2
    <3> QED
      BY <3>1
  <2> QED
    BY <2>1, <2>2
<1> QED
  BY <1>3, <1>4

(* Where no two POSTs are at work in one directory at once, no id is answered *)
(* twice, whatever GETs, PUTs, DELETEs and failing calls of others run in     *)
(* between: handlePost's probe and open are the whole cause of the answers    *)
(* that share an id (191-218).                                                *)
THEOREM SerialPostsDistinct == Spec /\ []SerialPosts => []DistinctIds
<1>1. Init => KnownInv /\ DistinctIds
  <2> SUFFICES ASSUME Init PROVE \A w \in Worker : ~Acked(w)
    BY DEF KnownInv, DistinctIds
  <2>1. \A w \in Worker : out[w] = Blank
    BY DEF Init
  <2>2. Blank.status # 200
    BY DEF Blank, Out
  <2> QED
    BY <2>1, <2>2 DEF Acked
<1>2. TypeOK /\ IInv /\ SerialPosts /\ KnownInv /\ DistinctIds /\ [Next]_vars
      => KnownInv' /\ DistinctIds'
  <2> SUFFICES ASSUME TypeOK, IInv, SerialPosts, KnownInv, DistinctIds, [Next]_vars
               PROVE  KnownInv' /\ DistinctIds'
    OBVIOUS
  <2>1. CASE UNCHANGED vars
    BY <2>1 DEF vars, KnownInv, DistinctIds, Acked, Posting
  <2>2. ASSUME NEW x \in Worker, Begin(x) \/ Serve(x) PROVE KnownInv' /\ DistinctIds'
    BY <2>2, SerialStep DEF IInv
  <2> QED
    BY <2>1, <2>2 DEF Next
<1> QED
  BY <1>1, <1>2, TypeCorrect, IInvHolds, PTL DEF Spec
-----------------------------------------------------------------------------
(* The safety half of Answered: how many steps of its own a request still     *)
(* needs at most.  Other threads' steps leave the number alone, although they *)
(* create posts in front of handlePost's loop, for it counts the ids that can *)
(* ever be taken.                                                             *)

Left(w) ==
  CASE pc[w] = "idle" -> 0
    [] pc[w] = "reply" -> 1
    [] pc[w] \in {"write", "remove", "other", "readfile"} -> 2
    [] pc[w] \in {"reopen", "opendir"} -> 3
    [] pc[w] = "open" -> 4
    [] pc[w] \in {"lookup", "mkdir"} -> 5
    [] pc[w] = "probe" -> 5 + MaxPosts - id[w]
    [] pc[w] = "exists" -> 6 + MaxPosts

LEMMA LeftRange ==
  ASSUME TypeOK, HandlerInv, IdsBounded, NEW w \in Worker
  PROVE  Left(w) \in 0..MaxPosts + 6 /\ (Left(w) = 0 <=> pc[w] = "idle")
<1>t. /\ pc[w] \in {"idle", "opendir", "readfile", "exists", "mkdir", "probe",
                    "lookup", "remove", "other", "reply", "open", "reopen", "write"}
      /\ id[w] \in Nat /\ begun \in 0..MaxPosts /\ MaxPosts \in Nat
  BY MaxPostsAssumption DEF TypeOK, Writing
<1>1. pc[w] = "probe" => id[w] \in 1..MaxPosts
  BY <1>t DEF HandlerInv, IdsBounded
<1> QED
  BY <1>t, <1>1 DEF Left

LEMMA ServeMoves ==
  ASSUME TypeOK, NEW w \in Worker, Serve(w)
  PROVE  \/ pc[w] \in {"other", "readfile", "write", "remove"} /\ pc'[w] = "reply"
         \/ pc[w] = "opendir" /\ pc'[w] \in {"readfile", "reply"}
         \/ pc[w] = "exists" /\ pc'[w] \in {"probe", "mkdir"} /\ id'[w] = id[w]
         \/ pc[w] \in {"mkdir", "lookup"} /\ pc'[w] \in {"open", "reply"}
         \/ pc[w] = "probe" /\ pc'[w] = "probe" /\ id'[w] = id[w] + 1
         \/ pc[w] = "probe" /\ pc'[w] = "open" /\ id'[w] = id[w]
         \/ pc[w] = "open" /\ pc'[w] = "reopen"
         \/ pc[w] = "reopen" /\ pc'[w] = "write"
         \/ pc[w] = "reply" /\ pc'[w] = "idle"
<1>t. DOMAIN pc = Worker /\ DOMAIN id = Worker
  BY DEF TypeOK
<1>g. \A l : Goto(w, l) => pc'[w] = l
  BY <1>t DEF Goto
<1>1. CASE Other(w) \/ ReadFile(w) \/ WriteFile(w) \/ Remove(w)
  BY <1>1, <1>g DEF Other, ReadFile, WriteFile, Remove, Respond
<1>2. CASE OpenDir(w)
  BY <1>2, <1>g DEF OpenDir, Respond
<1>3. CASE CheckDir(w)
  BY <1>3, <1>g DEF CheckDir
<1>4. CASE MakeDir(w) \/ Lookup(w)
  BY <1>4, <1>g DEF MakeDir, Lookup, Respond
<1>5. CASE Probe(w)
  <2>1. CASE id' = [id EXCEPT ![w] = Following(@)] /\ UNCHANGED pc
    BY <1>5, <1>t, <2>1 DEF Probe, Following
  <2>2. CASE Goto(w, "open") /\ UNCHANGED id
    BY <1>5, <1>g, <2>2 DEF Probe
  <2> QED
    BY <1>5, <2>1, <2>2 DEF Probe
<1>6. CASE OpenFile(w) \/ ReopenFile(w) \/ Reply(w)
  BY <1>6, <1>g DEF OpenFile, ReopenFile, Reply
<1> QED
  BY <1>1, <1>2, <1>3, <1>4, <1>5, <1>6 DEF Serve

LEMMA LeftStep ==
  ASSUME TypeOK, HandlerInv, HandlerInv', TypeOK', IdsBounded, IdsBounded', NEW w \in Worker
  PROVE  /\ Serve(w) => Left(w)' < Left(w)
         /\ Begin(w) \/ Serve(w) => \A v \in Worker \ {w} : Left(v)' = Left(v)
<1>1. ASSUME Serve(w) PROVE Left(w)' < Left(w)
  <2>t. id[w] \in Nat /\ MaxPosts \in Nat /\ begun \in 0..MaxPosts /\ begun' \in 0..MaxPosts
    BY MaxPostsAssumption DEF TypeOK
  <2>1. pc[w] = "probe" => id[w] \in 1..MaxPosts
    BY <2>t DEF HandlerInv, IdsBounded
  <2>2. pc'[w] = "probe" => id'[w] \in 1..MaxPosts
    BY <2>t DEF HandlerInv, IdsBounded, TypeOK
  <2>3. pc[w] = "exists" => id[w] = 1
    BY DEF HandlerInv
  <2> QED
    BY <1>1, <2>t, <2>1, <2>2, <2>3, ServeMoves DEF Left
<1>2. ASSUME Begin(w) \/ Serve(w), NEW v \in Worker \ {w} PROVE Left(v)' = Left(v)
  BY <1>2, OthersKeep DEF Left
<1> QED
  BY <1>1, <1>2

(* A request ends within MaxPosts + 6 steps of its own thread, whatever the   *)
(* other threads do meanwhile: what remains of Answered is that its thread    *)
(* runs.                                                                      *)
THEOREM ServedInBound ==
  Spec => /\ [](\A w \in Worker : Left(w) \in 0..MaxPosts + 6 /\ (Left(w) = 0 <=> pc[w] = "idle"))
          /\ [][\A w \in Worker :
                 /\ Serve(w) => Left(w)' < Left(w)
                 /\ Begin(w) \/ Serve(w) => \A v \in Worker \ {w} : Left(v)' = Left(v)]_vars
<1> DEFINE InRange == \A w \in Worker : Left(w) \in 0..MaxPosts + 6 /\ (Left(w) = 0 <=> pc[w] = "idle")
           Sinks   == \A w \in Worker :
                 /\ Serve(w) => Left(w)' < Left(w)
                 /\ Begin(w) \/ Serve(w) => \A v \in Worker \ {w} : Left(v)' = Left(v)
           K       == TypeOK /\ CrudInv /\ IdsBounded
<1>1. K => InRange
  BY LeftRange DEF CrudInv
<1>2. K /\ K' => Sinks
  BY LeftStep DEF CrudInv
<1>3. Spec => []K
  BY CrudInvariant, IdsBoundedHolds, PTL
<1> HIDE DEF InRange, Sinks, K
<1>4. Spec => []InRange /\ [][Sinks]_vars
  BY <1>1, <1>2, <1>3, PTL
<1> QED
  BY <1>4 DEF InRange, Sinks
=============================================================================
