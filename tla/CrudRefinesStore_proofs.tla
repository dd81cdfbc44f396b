------------------------ MODULE CrudRefinesStore_proofs ------------------------
(* Threads that keep out of each other's directories, none of their system    *)
(* calls failing, implement the atomic store, for every set of directories    *)
(* and bodies and any number of threads and requests.                         *)
EXTENDS CrudRefinesStore, CrudHandler_proofs

OneThread == (\A v, w \in Worker : v = w) /\ IOFails = {}

(* Two threads are at work in one directory only if both of them read.  The   *)
(* code does not see to it: it holds of a deployment where each user, who has *)
(* a directory of his own, waits for an answer before the next request.       *)
Busy(w) == pc[w] # "idle"
Reading(w) == req[w].method \in {"GET", "PATCH"}

Apart ==
  \A v, w \in Worker :
    Busy(v) /\ Busy(w) /\ req[v].dir = req[w].dir => v = w \/ (Reading(v) /\ Reading(w))

(* The tree is made of functions. *)
TreeInv ==
  /\ post = [d \in Dir |-> post[d]]
  /\ \A d \in Dir : post[d] = [i \in DOMAIN post[d] |-> post[d][i]]

(* Which handler is at which step, and what it can rely on because nobody     *)
(* else has touched the tree since it looked.                                 *)
MethodInv(w) ==
  /\ pc[w] \in {"opendir", "readfile"} => req[w].method = "GET"
  /\ pc[w] = "lookup" => req[w].method = "PUT"
  /\ pc[w] = "remove" => req[w].method = "DELETE"
  /\ pc[w] = "other" => req[w].method = "PATCH"
  /\ pc[w] \in {"exists", "mkdir", "probe"} => req[w].method = "POST"
  /\ pc[w] \in Writing => req[w].method \in {"POST", "PUT"}
  /\ pc[w] # "idle" /\ req[w].method # "POST" => id[w] = req[w].id

LookInv(w) ==
  LET d == req[w].dir IN
  /\ pc[w] = "readfile" => ~(id[w] = 0 /\ d \in dirs)
  /\ pc[w] \in {"exists", "mkdir"} => id[w] = 1
  /\ pc[w] = "mkdir" => d \notin dirs
  /\ pc[w] = "probe" => /\ d \in dirs /\ id[w] # 0
                        /\ \A m \in 1..(id[w] - 1) : m \in DOMAIN post[d]
  /\ pc[w] \in Writing => d \in dirs

StreamInv(w) ==
  LET d == req[w].dir IN
  /\ w \in fd => pc[w] = "write" /\ id[w] # 0
  /\ pc[w] = "write" /\ id[w] # 0 =>
       w \in fd /\ id[w] \in DOMAIN post[d] /\ post[d][id[w]] = <<>>

AloneInv == TreeInv /\ \A w \in Worker : MethodInv(w) /\ LookInv(w) /\ StreamInv(w)
-----------------------------------------------------------------------------
(* The tree. *)

LEMMA StoreTwice ==
  ASSUME NEW f, NEW i, NEW x, NEW y
  PROVE  Store(Store(f, i, x), i, y) = Store(f, i, y)
  BY DEF Store

LEMMA OverlayEmpty ==
  ASSUME NEW S, NEW t \in Seq(S)
  PROVE  Overlay(t, <<>>) = t
<1>1. SubSeq(<<>>, Len(t) + 1, Len(<<>>)) = <<>>
  OBVIOUS
<1> QED
  BY <1>1 DEF Overlay

LEMMA CreatAlone ==
  ASSUME IOFails = {}, TypeOK, NEW w \in Worker, req[w].dir \in dirs,
         NEW opened \in BOOLEAN, Creat(w, opened)
  PROVE  IF id[w] = 0 THEN ~opened /\ post' = post
         ELSE opened /\ post' = [post EXCEPT ![req[w].dir] = Store(post[req[w].dir], id[w], <<>>)]
  BY DEF Creat

LEMMA TreeStep ==
  ASSUME TreeInv, NEW d \in Dir, NEW f, f = [i \in DOMAIN f |-> f[i]],
         post' = [post EXCEPT ![d] = f]
  PROVE  TreeInv'
<1>1. post' = [e \in Dir |-> IF e = d THEN f ELSE post[e]]
  BY DEF TreeInv
<1> QED
  BY <1>1 DEF TreeInv

LEMMA TreeNext ==
  ASSUME TypeOK, TreeInv, [Next]_vars
  PROVE  TreeInv'
<1>0. CASE post' = post
  BY <1>0 DEF TreeInv
<1>1. ASSUME NEW w \in Worker, NEW opened, Creat(w, opened)
      PROVE  TreeInv'
  <2>1. req[w].dir \in Dir
    BY RequestType DEF TypeOK
  <2> QED
    BY <1>0, <1>1, <2>1, TreeStep DEF Creat, Store
<1>2. ASSUME NEW w \in Worker, WriteFile(w)
      PROVE  TreeInv'
  <2> DEFINE d == req[w].dir
             g == [post[d] EXCEPT ![id[w]] = Overlay(req[w].body, @)]
  <2>1. d \in Dir
    BY RequestType DEF TypeOK
  <2>2. post' = post \/ post' = [post EXCEPT ![d] = g]
    BY <1>2 DEF WriteFile
  <2>3. g = [i \in DOMAIN g |-> g[i]]
    OBVIOUS
  <2> HIDE DEF g
  <2> QED
    BY <1>0, <2>1, <2>2, <2>3, TreeStep
<1>3. ASSUME NEW w \in Worker, Remove(w)
      PROVE  TreeInv'
  <2>1. req[w].dir \in Dir
    BY RequestType DEF TypeOK
  <2>2. post' = post \/ post' = [post EXCEPT ![req[w].dir] = Unlink(post[req[w].dir], id[w])]
    BY <1>3 DEF Remove, store
  <2> QED
    BY <1>0, <2>1, <2>2, TreeStep DEF Unlink
<1>4. ASSUME NEW w \in Worker, Begin(w) \/ Serve(w)
      PROVE  TreeInv'
  BY <1>0, <1>1, <1>2, <1>3, <1>4
  DEF Serve, Begin, Other, OpenDir, ReadFile, CheckDir, MakeDir, Probe, Lookup, OpenFile,
      ReopenFile, Reply, store
<1> QED
  BY <1>0, <1>4 DEF Next, vars
-----------------------------------------------------------------------------
(* A thread's own steps keep what it relies on. *)

LEMMA BeginNext ==
  ASSUME TypeOK, NEW w \in Worker, AloneInv, Begin(w)
  PROVE  MethodInv(w)' /\ LookInv(w)' /\ StreamInv(w)'
<1>1. PICK r \in Request : /\ req' = [req EXCEPT ![w] = r]
                           /\ id' = [id EXCEPT ![w] = IF r.method = "POST" THEN 1 ELSE r.id]
                           /\ pc' = [pc EXCEPT ![w] = FirstStep[r.method]]
  BY DEF Begin, Goto
<1>2. r.method \in {"GET", "DELETE", "PUT", "POST", "PATCH"}
  BY RequestType
<1>3. /\ req'[w] = r /\ pc'[w] = FirstStep[r.method] /\ fd' = fd
      /\ id'[w] = IF r.method = "POST" THEN 1 ELSE r.id
  BY <1>1 DEF TypeOK, Begin
<1>4. w \notin fd
  BY DEF AloneInv, StreamInv, Begin
<1>5. MethodInv(w)' /\ LookInv(w)'
  BY <1>2, <1>3 DEF FirstStep, MethodInv, LookInv, Writing
<1>6. StreamInv(w)'
  BY <1>2, <1>3, <1>4 DEF FirstStep, StreamInv
<1> QED
  BY <1>5, <1>6

LEMMA ServeNext ==
  ASSUME IOFails = {}, TypeOK, NEW w \in Worker, AloneInv, Serve(w)
  PROVE  MethodInv(w)' /\ LookInv(w)' /\ StreamInv(w)'
<1>r. req[w].dir \in Dir /\ id[w] \in Nat
  BY RequestType DEF TypeOK
<1>t. /\ pc \in [Worker -> {"idle", "opendir", "readfile", "exists", "mkdir", "probe",
                           "lookup", "remove", "other", "reply"} \cup Writing]
      /\ id \in [Worker -> Nat]
  BY DEF TypeOK
<1>d. \A d \in Dir : \A i \in DOMAIN post[d] : i # 0 /\ d \in dirs
  BY DEF TypeOK, TreeOK
<1>i. MethodInv(w) /\ LookInv(w) /\ StreamInv(w)
  BY DEF AloneInv
<1>f. w \in fd => pc[w] = "write"
  BY <1>i DEF StreamInv
<1> USE DEF MethodInv, LookInv, StreamInv, Writing
<1>1. CASE Other(w) \/ ReadFile(w) \/ Reply(w)
  <2>1. req' = req /\ id' = id /\ fd' = fd /\ pc'[w] \in {"reply", "idle"} /\ w \notin fd
    BY <1>1, <1>t, <1>f DEF Other, ReadFile, Reply, Goto, Respond
  <2> QED
    BY <1>1, <1>i, <2>1 DEF Other, ReadFile, Reply
<1>2. CASE OpenDir(w)
  <2>1. /\ req' = req /\ id' = id /\ fd' = fd /\ dirs' = dirs /\ w \notin fd
        /\ pc'[w] = "reply" \/ (pc'[w] = "readfile" /\ ~(id[w] = 0 /\ req[w].dir \in dirs))
    BY <1>2, <1>t, <1>f DEF OpenDir, Goto, Respond, store
  <2> QED
    BY <1>2, <1>i, <2>1 DEF OpenDir
<1>3. CASE CheckDir(w)
  <2>1. /\ req' = req /\ id' = id /\ fd' = fd /\ dirs' = dirs /\ w \notin fd
        /\ pc'[w] = IF req[w].dir \in dirs THEN "probe" ELSE "mkdir"
    BY <1>3, <1>t, <1>f DEF CheckDir, Goto, store
  <2>2. id[w] = 1 /\ req[w].method = "POST"
    BY <1>3, <1>i DEF CheckDir
  <2> QED
    BY <2>1, <2>2
<1>4. CASE MakeDir(w)
  <2>1. /\ req' = req /\ id' = id /\ fd' = fd /\ req[w].dir \in dirs' /\ w \notin fd
        /\ pc'[w] = "open"
    BY <1>4, <1>t, <1>f DEF MakeDir, Goto
  <2>2. req[w].method = "POST"
    BY <1>4, <1>i DEF MakeDir
  <2> QED
    BY <2>1, <2>2
<1>5. CASE Probe(w)
  <2>1. /\ req' = req /\ fd' = fd /\ dirs' = dirs /\ post' = post /\ w \notin fd
        /\ req[w].method = "POST" /\ req[w].dir \in dirs /\ id[w] # 0
        /\ \A m \in 1..(id[w] - 1) : m \in DOMAIN post[req[w].dir]
    BY <1>5, <1>i, <1>f DEF Probe, store
  <2>2. \/ pc'[w] = "open"
        \/ pc'[w] = "probe" /\ id'[w] = id[w] + 1 /\ id[w] \in DOMAIN post[req[w].dir]
    BY <1>5, <1>t, <2>1 DEF Probe, Goto, Exists, Following
  <2>3. CASE pc'[w] = "open"
    BY <2>1, <2>3
  <2>4. CASE pc'[w] = "probe" /\ id'[w] = id[w] + 1 /\ id[w] \in DOMAIN post[req[w].dir]
    <3>1. \A m \in 1..(id'[w] - 1) : m \in 1..(id[w] - 1) \/ m = id[w]
      BY <1>r, <2>4
    <3>2. id'[w] # 0
      BY <1>r, <2>4
    <3> QED
      BY <2>1, <2>4, <3>1, <3>2
  <2> QED
    BY <2>2, <2>3, <2>4
<1>6. CASE Lookup(w)
  <2>1. /\ req' = req /\ id' = id /\ fd' = fd /\ dirs' = dirs /\ w \notin fd
        /\ pc'[w] = "reply" \/ (pc'[w] = "open" /\ Exists(req[w].dir, id[w]))
    BY <1>6, <1>t, <1>f DEF Lookup, Goto, Respond, store
  <2>2. req[w].method = "PUT" /\ id[w] = req[w].id
    BY <1>6, <1>i DEF Lookup
  <2>3. Exists(req[w].dir, id[w]) => req[w].dir \in dirs
    BY <1>r, <1>d DEF Exists
  <2> QED
    BY <2>1, <2>2, <2>3
<1>7. CASE OpenFile(w)
  <2>1. req' = req /\ id' = id /\ fd' = fd /\ dirs' = dirs /\ w \notin fd /\ pc'[w] = "reopen"
    BY <1>7, <1>t, <1>f DEF OpenFile, Goto
  <2> QED
    BY <1>7, <1>i, <2>1 DEF OpenFile
<1>8. CASE ReopenFile(w)
  <2>1. req' = req /\ id' = id /\ dirs' = dirs /\ w \notin fd /\ pc'[w] = "write"
    BY <1>8, <1>t, <1>f DEF ReopenFile, Goto
  <2>2. PICK opened \in BOOLEAN : Creat(w, opened) /\ fd' = IF opened THEN fd \cup {w} ELSE fd
    BY <1>8 DEF ReopenFile
  <2>3. req[w].dir \in dirs
    BY <1>8, <1>i DEF ReopenFile
  <2>4. CASE id[w] = 0
    <3>1. w \notin fd'
      BY <2>1, <2>2, <2>3, <2>4, CreatAlone
    <3> QED
      BY <1>8, <1>i, <2>1, <2>3, <2>4, <3>1 DEF ReopenFile
  <2>5. CASE id[w] # 0
    <3>1. /\ w \in fd'
          /\ post' = [post EXCEPT ![req[w].dir] = Store(post[req[w].dir], id[w], <<>>)]
      BY <2>2, <2>3, <2>5, CreatAlone
    <3>2. post'[req[w].dir] = Store(post[req[w].dir], id[w], <<>>)
      BY <1>r, <3>1 DEF TypeOK, TreeOK
    <3>3. id[w] \in DOMAIN post'[req[w].dir] /\ post'[req[w].dir][id[w]] = <<>>
      BY <3>2 DEF Store
    <3> QED
      BY <1>8, <1>i, <2>1, <2>3, <2>5, <3>1, <3>3 DEF ReopenFile
  <2> QED
    BY <2>4, <2>5
<1>9. CASE WriteFile(w)
  <2>1. req' = req /\ id' = id /\ w \notin fd' /\ pc'[w] = "reply"
    BY <1>9, <1>t DEF WriteFile, Goto, Respond
  <2> QED
    BY <1>9, <1>i, <2>1 DEF WriteFile
<1>10. CASE Remove(w)
  <2>1. req' = req /\ id' = id /\ w \notin fd' /\ pc'[w] = "reply"
    BY <1>10, <1>t, <1>f DEF Remove, Goto, Respond
  <2> QED
    BY <1>10, <1>i, <2>1 DEF Remove
<1> QED
  BY <1>1, <1>2, <1>3, <1>4, <1>5, <1>6, <1>7, <1>8, <1>9, <1>10 DEF Serve

LEMMA AloneInit == Init => AloneInv
<1> SUFFICES ASSUME Init PROVE AloneInv
  OBVIOUS
<1>1. TreeInv
  BY DEF Init, TreeInv
<1>2. \A w \in Worker : pc[w] = "idle" /\ w \notin fd
  BY DEF Init
<1>3. ASSUME NEW w \in Worker
      PROVE  MethodInv(w) /\ LookInv(w) /\ StreamInv(w)
  BY <1>2, <1>3 DEF MethodInv, LookInv, StreamInv, Writing
<1> QED
  BY <1>1, <1>3 DEF AloneInv

(* What a step of one thread leaves to the others. *)

LEMMA Mine ==
  ASSUME TypeOK, NEW w \in Worker, Begin(w) \/ Serve(w), NEW v \in Worker, v # w
  PROVE  /\ pc'[v] = pc[v] /\ req'[v] = req[v] /\ id'[v] = id[v] /\ out'[v] = out[v]
         /\ v \in fd' => v \in fd
         /\ v \in fd => v \in fd' \/ (Remove(w) /\ req[v].dir = req[w].dir)
<1>1. CASE Begin(w)
  BY <1>1 DEF Begin, Goto, TypeOK
<1>2. CASE Other(w) \/ OpenDir(w) \/ ReadFile(w) \/ CheckDir(w) \/ MakeDir(w) \/ Probe(w)
           \/ Lookup(w) \/ OpenFile(w) \/ Reply(w)
  BY <1>2
  DEF Other, OpenDir, ReadFile, CheckDir, MakeDir, Probe, Lookup, OpenFile, Reply,
      Goto, Respond, TypeOK
<1>3. CASE ReopenFile(w) \/ WriteFile(w)
  BY <1>3 DEF ReopenFile, WriteFile, Goto, Respond, TypeOK
<1>4. CASE Remove(w)
  BY <1>4 DEF Remove, Goto, Respond, TypeOK
<1> QED
  BY <1>1, <1>2, <1>3, <1>4 DEF Serve

LEMMA Elsewhere ==
  ASSUME TypeOK, NEW w \in Worker, Begin(w) \/ Serve(w), NEW d \in Dir, d # req[w].dir
  PROVE  post'[d] = post[d] /\ (d \in dirs' <=> d \in dirs)
<1>1. CASE Begin(w) \/ Other(w) \/ OpenDir(w) \/ ReadFile(w) \/ CheckDir(w) \/ Probe(w)
           \/ Lookup(w) \/ Reply(w)
  BY <1>1 DEF Begin, Other, OpenDir, ReadFile, CheckDir, Probe, Lookup, Reply, store
<1>2. CASE MakeDir(w)
  BY <1>2 DEF MakeDir
<1>3. ASSUME NEW opened, Creat(w, opened) PROVE post'[d] = post[d]
  BY <1>3 DEF Creat, TypeOK, TreeOK
<1>4. CASE OpenFile(w) \/ ReopenFile(w)
  BY <1>3, <1>4 DEF OpenFile, ReopenFile
<1>5. CASE WriteFile(w) \/ Remove(w)
  BY <1>5 DEF WriteFile, Remove, store, TypeOK, TreeOK
<1> QED
  BY <1>1, <1>2, <1>4, <1>5 DEF Serve

LEMMA Reads ==
  ASSUME NEW w \in Worker, MethodInv(w), Reading(w), Serve(w)
  PROVE  dirs' = dirs /\ post' = post /\ fd' = fd
<1>1. Other(w) \/ OpenDir(w) \/ ReadFile(w) \/ Reply(w)
  BY DEF Serve, MethodInv, Reading, Writing, CheckDir, MakeDir, Probe, Lookup, OpenFile,
         ReopenFile, WriteFile, Remove
<1> QED
  BY <1>1 DEF Other, OpenDir, ReadFile, Reply, store

LEMMA OthersNext ==
  ASSUME Apart, TypeOK, AloneInv, NEW w \in Worker, Begin(w) \/ Serve(w), NEW v \in Worker, v # w
  PROVE  MethodInv(v)' /\ LookInv(v)' /\ StreamInv(v)'
<1> DEFINE d == req[v].dir
<1>1. /\ pc'[v] = pc[v] /\ req'[v] = req[v] /\ id'[v] = id[v]
      /\ v \in fd' => v \in fd
      /\ v \in fd => v \in fd' \/ (Remove(w) /\ d = req[w].dir)
  BY Mine
<1>i. MethodInv(v) /\ LookInv(v) /\ StreamInv(v) /\ MethodInv(w)
  BY DEF AloneInv
<1>2. MethodInv(v)'
  BY <1>1, <1>i DEF MethodInv
<1>3. CASE pc[v] = "idle"
  BY <1>1, <1>2, <1>3, <1>i DEF LookInv, StreamInv, Writing
<1>4. CASE pc[v] # "idle"
  <2>1. post'[d] = post[d] /\ (d \in dirs' <=> d \in dirs) /\ (v \in fd' <=> v \in fd)
    <3>1. CASE d # req[w].dir
      <4>1. d \in Dir
        BY RequestType DEF TypeOK
      <4> QED
        BY <1>1, <3>1, <4>1, Elsewhere
    <3>2. CASE d = req[w].dir /\ Begin(w)
      BY <3>2 DEF Begin, store
    <3>3. CASE d = req[w].dir /\ Serve(w)
      <4>1. Busy(w)
        BY <3>3
        DEF Busy, Serve, Other, OpenDir, ReadFile, CheckDir, MakeDir, Probe, Lookup, OpenFile,
            ReopenFile, WriteFile, Remove, Reply
      <4>2. Reading(w)
        BY <1>4, <3>3, <4>1 DEF Apart, Busy
      <4> QED
        BY <1>i, <3>3, <4>2, Reads
    <3> QED
      BY <3>1, <3>2, <3>3
  <2>2. LookInv(v)'
    BY <1>1, <1>i, <2>1 DEF LookInv
  <2>3. StreamInv(v)'
    BY <1>1, <1>i, <2>1 DEF StreamInv
  <2> QED
    BY <1>2, <2>2, <2>3
<1> QED
  BY <1>3, <1>4

LEMMA AloneNext ==
  IOFails = {} /\ Apart /\ TypeOK /\ AloneInv /\ [Next]_vars => AloneInv'
<1> SUFFICES ASSUME IOFails = {}, Apart, TypeOK, AloneInv, [Next]_vars PROVE AloneInv'
  OBVIOUS
<1>1. TreeInv'
  BY TreeNext DEF AloneInv
<1>2. ASSUME NEW v \in Worker
      PROVE  MethodInv(v)' /\ LookInv(v)' /\ StreamInv(v)'
  <2>1. CASE UNCHANGED vars
    BY <2>1 DEF vars, AloneInv, MethodInv, LookInv, StreamInv
  <2>2. ASSUME NEW w \in Worker, Begin(w) \/ Serve(w)
        PROVE  MethodInv(v)' /\ LookInv(v)' /\ StreamInv(v)'
    <3>1. CASE v = w
      BY <2>2, <3>1, BeginNext, ServeNext
    <3>2. CASE v # w
      BY <2>2, <3>2, OthersNext
    <3> QED
      BY <3>1, <3>2
  <2> QED
    BY <2>1, <2>2 DEF Next
<1> QED
  BY <1>1, <1>2 DEF AloneInv

LEMMA OneIsApart ==
  ASSUME OneThread
  PROVE  IOFails = {} /\ Apart
  BY DEF OneThread, Apart
-----------------------------------------------------------------------------
(* The mapping. *)

Phase(l) == IF l = "idle" THEN "idle"
            ELSE IF l = "reply" \/ l \in Writing THEN "done" ELSE "pending"

(* The posts of w's directory with the text on its way, and the response that *)
(* goes with it.                                                              *)
Written(w) ==
  IF pc[w] \in Writing /\ id[w] # 0
    THEN Store(post[req[w].dir], id[w], req[w].body)
    ELSE post[req[w].dir]

Answering(w) == IF pc[w] \in Writing THEN Promise(w) ELSE out[w]

AllMapped ==
  /\ PostBar = [d \in Dir |-> PostBar[d]]
  /\ \A w \in Worker : Busy(w) => PostBar[req[w].dir] = Written(w)
  /\ \A d \in Dir : (\A w \in Worker : ~LandsOn(w, d)) => PostBar[d] = post[d]
  /\ PhaseBar = [w \in Worker |-> Phase(pc[w])]
  /\ OutBar = [w \in Worker |-> Answering(w)]

LEMMA NoneLands ==
  ASSUME TreeInv, NEW d \in Dir, \A w \in Worker : ~LandsOn(w, d)
  PROVE  PostBar[d] = post[d]
<1>1. {id[w] : w \in {v \in Worker : LandsOn(v, d)}} = {}
  OBVIOUS
<1>2. PostBar[d] = [i \in DOMAIN post[d] |-> post[d][i]]
  BY <1>1 DEF PostBar
<1> QED
  BY <1>2 DEF TreeInv

LEMMA OneLands ==
  ASSUME Apart, AloneInv, NEW w \in Worker, req[w].dir \in Dir, LandsOn(w, req[w].dir)
  PROVE  PostBar[req[w].dir] = Store(post[req[w].dir], id[w], req[w].body)
<1> DEFINE d == req[w].dir
<1>1. ASSUME NEW v \in Worker, LandsOn(v, d)
      PROVE  v = w
  <2>1. pc[v] \in Writing /\ pc[w] \in Writing /\ req[v].dir = d
    BY <1>1 DEF LandsOn, InFlight
  <2>2. Busy(v) /\ Busy(w) /\ ~Reading(v)
    BY <2>1 DEF Busy, Reading, Writing, AloneInv, MethodInv
  <2> QED
    BY <2>1, <2>2 DEF Apart
<1> DEFINE S == {id[v] : v \in {u \in Worker : LandsOn(u, d)}}
           G(i) == IF \E v \in Worker : LandsOn(v, d) /\ id[v] = i
                     THEN req[CHOOSE v \in Worker : LandsOn(v, d) /\ id[v] = i].body
                     ELSE post[d][i]
<1>2. S = {id[w]}
  BY <1>1
<1>3. ASSUME NEW i
      PROVE  G(i) = IF i = id[w] THEN req[w].body ELSE post[d][i]
  <2>1. (\E v \in Worker : LandsOn(v, d) /\ id[v] = i) <=> i = id[w]
    BY <1>1
  <2>2. (CHOOSE v \in Worker : LandsOn(v, d) /\ id[v] = id[w]) = w
    BY <1>1
  <2> QED
    BY <2>1, <2>2
<1>4. PostBar[d] = [i \in DOMAIN post[d] \cup S |-> G(i)]
  BY DEF PostBar
<1> HIDE DEF S, G, d
<1>5. PostBar[d] = [i \in DOMAIN post[d] \cup {id[w]} |->
                     IF i = id[w] THEN req[w].body ELSE post[d][i]]
  BY <1>2, <1>3, <1>4
<1>6. PostBar[d] = Store(post[d], id[w], req[w].body)
  BY <1>5 DEF Store
<1> QED
  BY <1>6 DEF d

LEMMA MappedNow ==
  Apart /\ TypeOK /\ AloneInv => AllMapped
<1> SUFFICES ASSUME Apart, TypeOK, AloneInv PROVE AllMapped
  OBVIOUS
<1>1. PostBar = [d \in Dir |-> PostBar[d]]
  BY DEF PostBar
<1>2. \A d \in Dir : (\A w \in Worker : ~LandsOn(w, d)) => PostBar[d] = post[d]
  BY NoneLands DEF AloneInv
<1>3. ASSUME NEW w \in Worker, Busy(w)
      PROVE  PostBar[req[w].dir] = Written(w)
  <2>1. req[w].dir \in Dir
    BY RequestType DEF TypeOK
  <2>2. CASE LandsOn(w, req[w].dir)
    BY <2>1, <2>2, OneLands DEF Written, LandsOn, InFlight
  <2>3. CASE ~LandsOn(w, req[w].dir) /\ \E v \in Worker : LandsOn(v, req[w].dir)
    <3>1. PICK v \in Worker : LandsOn(v, req[w].dir)
      BY <2>3
    <3>2. req[v].dir = req[w].dir /\ id[v] # 0 /\ Busy(v) /\ ~Reading(v)
      BY <3>1 DEF LandsOn, InFlight, Busy, Reading, Writing, AloneInv, MethodInv
    <3>3. v = w
      BY <1>3, <3>2 DEF Apart
    <3> QED
      BY <2>3, <3>1, <3>3
  <2>4. CASE \A v \in Worker : ~LandsOn(v, req[w].dir)
    BY <1>2, <2>1, <2>4 DEF Written, LandsOn, InFlight
  <2> QED
    BY <2>2, <2>3, <2>4
<1>4. PhaseBar = [w \in Worker |-> Phase(pc[w])]
  BY DEF PhaseBar, InFlight, Phase, Writing
<1>5. OutBar = [w \in Worker |-> Answering(w)]
  BY DEF OutBar, InFlight, Answering
<1> QED
  BY <1>1, <1>2, <1>3, <1>4, <1>5 DEF AllMapped

(* A step of one thread is seen in its directory and in its exchange only. *)
Local(w) ==
  /\ PostBar' = [PostBar EXCEPT ![req'[w].dir] = PostBar'[req'[w].dir]]
  /\ PhaseBar' = [PhaseBar EXCEPT ![w] = Phase(pc'[w])]
  /\ OutBar' = [OutBar EXCEPT ![w] = Answering(w)']

LEMMA BarElsewhere ==
  ASSUME Apart, Apart', TypeOK, AloneInv, AloneInv', NEW w \in Worker, Begin(w) \/ Serve(w),
         AllMapped, AllMapped', NEW d \in Dir, d = req'[w].dir => Begin(w)
  PROVE  PostBar'[d] = PostBar[d]
<1>1. post'[d] = post[d]
  <2>1. CASE Begin(w)
    BY <2>1 DEF Begin, store
  <2>2. CASE Serve(w) /\ d # req'[w].dir
    <3>1. req' = req
      BY <2>2
      DEF Serve, Other, OpenDir, ReadFile, CheckDir, MakeDir, Probe, Lookup, OpenFile,
          ReopenFile, WriteFile, Remove, Reply
    <3> QED
      BY <2>2, <3>1, Elsewhere
  <2> QED
    BY <2>1, <2>2
<1>2. ~LandsOn(w, d) /\ ~LandsOn(w, d)'
  <2>1. CASE Begin(w)
    <3>1. pc[w] = "idle" /\ \E r \in Request : pc'[w] = FirstStep[r.method]
      BY <2>1 DEF Begin, Goto, TypeOK
    <3>2. pc[w] \notin Writing /\ pc'[w] \notin Writing
      BY <3>1, RequestType DEF FirstStep, Writing
    <3> QED
      BY <3>2 DEF LandsOn, InFlight
  <2>2. CASE Serve(w) /\ d # req'[w].dir
    <3>1. req' = req
      BY <2>2
      DEF Serve, Other, OpenDir, ReadFile, CheckDir, MakeDir, Probe, Lookup, OpenFile,
          ReopenFile, WriteFile, Remove, Reply
    <3> QED
      BY <2>2, <3>1 DEF LandsOn
  <2> QED
    BY <2>1, <2>2
<1>3. ASSUME NEW v \in Worker, v # w
      PROVE  /\ LandsOn(v, d)' <=> LandsOn(v, d)
             /\ Busy(v)' <=> Busy(v)
             /\ id'[v] = id[v] /\ req'[v] = req[v] /\ pc'[v] = pc[v]
  BY <1>3, Mine DEF LandsOn, InFlight, Busy
<1>4. CASE \A v \in Worker : ~LandsOn(v, d)
  <2>1. \A v \in Worker : ~LandsOn(v, d)'
    BY <1>2, <1>3, <1>4
  <2>2. PostBar'[d] = post'[d]
    BY <2>1 DEF AllMapped
  <2> QED
    BY <1>1, <1>4, <2>2 DEF AllMapped
<1>5. ASSUME NEW v \in Worker, LandsOn(v, d)
      PROVE  PostBar'[d] = PostBar[d]
  <2>1. v # w
    BY <1>2, <1>5
  <2>2. pc[v] \in Writing /\ Busy(v) /\ req[v].dir = d
    BY <1>5 DEF LandsOn, InFlight, Busy, Writing
  <2>3. /\ Busy(v)' /\ req'[v] = req[v] /\ id'[v] = id[v] /\ pc'[v] = pc[v]
    BY <1>3, <2>1, <2>2
  <2>4. Written(v)' = Written(v)
    BY <1>1, <2>2, <2>3 DEF Written
  <2>5. PostBar[d] = Written(v)
    BY <2>2 DEF AllMapped
  <2>6. PostBar'[d] = Written(v)'
    BY <2>2, <2>3 DEF AllMapped
  <2> QED
    BY <2>4, <2>5, <2>6
<1> QED
  BY <1>4, <1>5

LEMMA IsLocal ==
  ASSUME Apart, Apart', TypeOK, AloneInv, AloneInv', NEW w \in Worker, Begin(w) \/ Serve(w),
         AllMapped, AllMapped'
  PROVE  Local(w) /\ (Begin(w) => PostBar' = PostBar)
<1>1. ASSUME NEW d \in Dir, d = req'[w].dir => Begin(w)
      PROVE  PostBar'[d] = PostBar[d]
  BY <1>1, BarElsewhere
<1>f. PostBar = [d \in Dir |-> PostBar[d]] /\ PostBar' = [d \in Dir |-> PostBar'[d]]
  BY DEF AllMapped
<1>2. PostBar' = [PostBar EXCEPT ![req'[w].dir] = PostBar'[req'[w].dir]]
  BY <1>1, <1>f
<1>3. Begin(w) => PostBar' = PostBar
  BY <1>1, <1>f
<1>4. \A v \in Worker : v # w => pc'[v] = pc[v] /\ req'[v] = req[v] /\ id'[v] = id[v] /\ out'[v] = out[v]
  BY Mine
<1>5. PhaseBar' = [PhaseBar EXCEPT ![w] = Phase(pc'[w])]
  <2>1. PhaseBar = [v \in Worker |-> Phase(pc[v])] /\ PhaseBar' = [v \in Worker |-> Phase(pc'[v])]
    BY DEF AllMapped
  <2> QED
    BY <1>4, <2>1
<1>6. OutBar' = [OutBar EXCEPT ![w] = Answering(w)']
  <2>1. OutBar = [v \in Worker |-> Answering(v)] /\ OutBar' = [v \in Worker |-> Answering(v)']
    BY DEF AllMapped
  <2>2. \A v \in Worker : v # w => Answering(v)' = Answering(v)
    BY <1>4 DEF Answering, Promise
  <2> QED
    BY <2>1, <2>2
<1> QED
  BY <1>2, <1>3, <1>5, <1>6 DEF Local
-----------------------------------------------------------------------------
(* Steps of the store. *)

(* The responses of the two modules agree; nothing, no names and no bracket   *)
(* are named, as the provers need not know what they are.                     *)
NoText    == <<>>
NoNames   == {}
NoBracket == ""

LEMMA BlankIs == Atomic!Blank = Out(0, 0, NoText, NoNames, NoBracket)
  BY DEF Atomic!Blank, Out, NoText, NoNames, NoBracket

LEMMA OkIs == \A i, t, n, o : Atomic!Ok(Out(0, i, t, n, o)) = Out(200, i, t, n, o)
  BY DEF Atomic!Ok, Out

LEMMA SameResponses ==
  /\ Blank = Atomic!Blank /\ Ok = Atomic!Ok(Atomic!Blank)
  /\ NotFound = [Atomic!Blank EXCEPT !.status = 404]
  /\ \A t : Text(t) = Atomic!Ok([Atomic!Blank EXCEPT !.text = t])
  /\ \A n : Created(n) = Atomic!Ok([Atomic!Blank EXCEPT !.id = n])
  /\ \A S : Listing(S) = Atomic!Ok([Atomic!Blank EXCEPT !.names = S,
                                                        !.open = IF S = {} THEN "" ELSE "["])
<1>1. Blank = Atomic!Blank
  BY DEF Blank, Out, Atomic!Blank
<1>2. Ok = Atomic!Ok(Atomic!Blank)
  <2>1. Ok = Out(200, 0, NoText, NoNames, NoBracket)
    BY DEF Ok, NoText, NoNames, NoBracket
  <2> QED
    BY <2>1, BlankIs, OkIs
<1>3. NotFound = [Atomic!Blank EXCEPT !.status = 404]
  <2>1. NotFound = Out(404, 0, NoText, NoNames, NoBracket)
    BY DEF NotFound, NoText, NoNames, NoBracket
  <2>2. [Out(0, 0, NoText, NoNames, NoBracket) EXCEPT !.status = 404]
          = Out(404, 0, NoText, NoNames, NoBracket)
    BY DEF Out
  <2> QED
    BY <2>1, <2>2, BlankIs, Zenon
<1>4. ASSUME NEW t PROVE Text(t) = Atomic!Ok([Atomic!Blank EXCEPT !.text = t])
  <2>1. Text(t) = Out(200, 0, t, NoNames, NoBracket)
    BY DEF Text, NoNames, NoBracket
  <2>2. [Out(0, 0, NoText, NoNames, NoBracket) EXCEPT !.text = t]
          = Out(0, 0, t, NoNames, NoBracket)
    BY DEF Out
  <2>3. Text(t) = Atomic!Ok(Out(0, 0, t, NoNames, NoBracket))
    BY <2>1, OkIs
  <2> QED
    BY <2>2, <2>3, BlankIs, Zenon
<1>5. ASSUME NEW n PROVE Created(n) = Atomic!Ok([Atomic!Blank EXCEPT !.id = n])
  <2>1. Created(n) = Out(200, n, NoText, NoNames, NoBracket)
    BY DEF Created, NoText, NoNames, NoBracket
  <2>2. [Out(0, 0, NoText, NoNames, NoBracket) EXCEPT !.id = n]
          = Out(0, n, NoText, NoNames, NoBracket)
    BY DEF Out
  <2>3. Created(n) = Atomic!Ok(Out(0, n, NoText, NoNames, NoBracket))
    BY <2>1, OkIs
  <2> QED
    BY <2>2, <2>3, BlankIs, Zenon
<1>6. ASSUME NEW S
      PROVE  Listing(S) = Atomic!Ok([Atomic!Blank EXCEPT !.names = S,
                                                          !.open = IF S = {} THEN "" ELSE "["])
  <2> DEFINE o == IF S = {} THEN "" ELSE "["
  <2>1. Listing(S) = Out(200, 0, NoText, S, o)
    BY DEF Listing, NoText
  <2> HIDE DEF o
  <2>2. [Out(0, 0, NoText, NoNames, NoBracket) EXCEPT !.names = S]
          = Out(0, 0, NoText, S, NoBracket)
    BY DEF Out
  <2>3. [Out(0, 0, NoText, S, NoBracket) EXCEPT !.open = o] = Out(0, 0, NoText, S, o)
    BY DEF Out
  <2>4. [Atomic!Blank EXCEPT !.names = S, !.open = o] = Out(0, 0, NoText, S, o)
    BY <2>2, <2>3, BlankIs, Zenon
  <2>5. Listing(S) = Atomic!Ok(Out(0, 0, NoText, S, o))
    BY <2>1, OkIs
  <2>6. Listing(S) = Atomic!Ok([Atomic!Blank EXCEPT !.names = S, !.open = o])
    BY <2>4, <2>5, Zenon
  <2> QED
    BY <2>6 DEF o
<1> QED
  BY <1>1, <1>2, <1>3, <1>4, <1>5, <1>6

(* What a handler's step needs to know of the mapping. *)
Mapped(w) ==
  /\ AllMapped /\ AllMapped' /\ Local(w)
  /\ Busy(w)

LEMMA Stutters ==
  ASSUME NEW w \in Worker, Mapped(w), Busy(w)',
         Written(w)' = Written(w), Phase(pc'[w]) = Phase(pc[w]), Answering(w)' = Answering(w),
         dirs' = dirs, req' = req, begun' = begun
  PROVE  UNCHANGED Atomic!vars
<1>1. PostBar' = PostBar
  <2>1. PostBar[req[w].dir] = Written(w) /\ PostBar'[req'[w].dir] = Written(w)'
    BY DEF Mapped, AllMapped
  <2>2. PostBar' = [PostBar EXCEPT ![req[w].dir] = PostBar[req[w].dir]]
    BY <2>1 DEF Mapped, Local
  <2> QED
    BY <2>2 DEF Mapped, AllMapped
<1>2. PhaseBar' = PhaseBar
  BY DEF Mapped, AllMapped, Local
<1>3. OutBar' = OutBar
  BY DEF Mapped, AllMapped, Local
<1> QED
  BY <1>1, <1>2, <1>3 DEF Atomic!vars

LEMMA Answers ==
  ASSUME NEW w \in Worker, Mapped(w), NEW r, Answering(w)' = r
  PROVE  Atomic!Answer(w, r)
  BY DEF Mapped, Local, Atomic!Answer

(* The tree of the store before and after a step that is seen. *)
LEMMA Seen ==
  ASSUME NEW w \in Worker, Mapped(w), pc[w] \notin Writing, Busy(w)', req' = req
  PROVE  /\ PostBar[req[w].dir] = post[req[w].dir]
         /\ PostBar' = [PostBar EXCEPT ![req[w].dir] = Written(w)']
  BY DEF Mapped, AllMapped, Local, Written

LEMMA SeenSame ==
  ASSUME NEW w \in Worker, Mapped(w), pc[w] \notin Writing, Busy(w)', req' = req,
         Written(w)' = post[req[w].dir]
  PROVE  PostBar' = PostBar
<1>1. PostBar' = [PostBar EXCEPT ![req[w].dir] = PostBar[req[w].dir]]
  BY Seen
<1> QED
  BY <1>1 DEF Mapped, AllMapped

Effect(w) ==
  \/ req[w].method = "GET" /\ Atomic!Get(w, req[w].dir, req[w].id)
  \/ req[w].method = "POST" /\ Atomic!Post(w, req[w].dir, req[w].body)
  \/ req[w].method = "PUT" /\ Atomic!Update(w, req[w].dir, req[w].id, req[w].body)
  \/ req[w].method = "DELETE" /\ Atomic!Delete(w, req[w].dir, req[w].id)
  \/ /\ req[w].method = "PATCH"
     /\ Atomic!Answer(w, Atomic!Ok(Atomic!Blank)) /\ UNCHANGED <<dirs, PostBar>>

LEMMA Applies ==
  ASSUME NEW w \in Worker, Mapped(w),
         Phase(pc[w]) = "pending", Phase(pc'[w]) = "done", req' = req, begun' = begun, Effect(w)
  PROVE  Atomic!Apply(w)
<1>1. PhaseBar[w] = "pending" /\ PhaseBar' = [PhaseBar EXCEPT ![w] = "done"]
  BY DEF Mapped, AllMapped, Local
<1> QED
  BY <1>1 DEF Atomic!Apply, Effect

LEMMA Fails ==
  ASSUME NEW w \in Worker, Mapped(w),
         Answering(w)' = NotFound, dirs' = dirs, PostBar' = PostBar
  PROVE  Atomic!Fail(w)
  BY Answers, SameResponses DEF Atomic!Fail

(* The least free id is the one the probe loop stops at. *)
LEMMA FreshIs ==
  ASSUME NEW D \in SUBSET (Nat \ {0}), NEW n \in Nat \ {0}, n \notin D,
         \A m \in 1..(n - 1) : m \in D
  PROVE  n = CHOOSE k \in {1} \cup {m + 1 : m \in D} :
               k \notin D /\ \A m \in 1..(k - 1) : m \in D
<1> DEFINE S == {1} \cup {m + 1 : m \in D}
           P(k) == k \notin D /\ \A m \in 1..(k - 1) : m \in D
<1>1. n \in S /\ P(n)
  <2>1. CASE n = 1
    BY <2>1
  <2>2. CASE n # 1
    <3>1. n - 1 \in 1..(n - 1) /\ n = (n - 1) + 1
      BY <2>2
    <3> QED
      BY <3>1
  <2> QED
    BY <2>1, <2>2
<1>2. ASSUME NEW k \in S, P(k)
      PROVE  k = n
  <2>1. k \in Nat \ {0}
    OBVIOUS
  <2>2. CASE k < n
    BY <1>2, <2>1, <2>2
  <2>3. CASE n < k
    BY <1>2, <2>1, <2>3
  <2> QED
    BY <2>1, <2>2, <2>3
<1> HIDE DEF S, P
<1>3. n = CHOOSE k \in S : P(k)
  BY <1>1, <1>2
<1> QED
  BY <1>3 DEF S, P

(* A request begins. *)
LEMMA BeginSimulates ==
  ASSUME TypeOK, NEW w \in Worker, AllMapped, AllMapped', Local(w), PostBar' = PostBar, Begin(w)
  PROVE  Atomic!Next
<1>1. PICK r \in Request : /\ r.method = "POST" => begun < MaxPosts
                           /\ begun' = IF r.method = "POST" THEN begun + 1 ELSE begun
                           /\ req' = [req EXCEPT ![w] = r]
                           /\ Goto(w, FirstStep[r.method])
  BY DEF Begin
<1>2. r.method \in {"GET", "DELETE", "PUT", "POST", "PATCH"} /\ r \in Atomic!Request
  BY RequestType DEF Request, Atomic!Request, Ids, Atomic!Ids
<1>3. pc'[w] = FirstStep[r.method] /\ pc[w] = "idle" /\ out'[w] = Blank /\ dirs' = dirs
  BY <1>1 DEF TypeOK, Goto, Begin, store
<1>4. pc'[w] \notin Writing /\ Phase(pc'[w]) = "pending" /\ Phase(pc[w]) = "idle"
  BY <1>2, <1>3 DEF FirstStep, Writing, Phase
<1>5. PhaseBar[w] = "idle" /\ PhaseBar' = [PhaseBar EXCEPT ![w] = "pending"]
  BY <1>4 DEF AllMapped, Local
<1>6. OutBar' = [OutBar EXCEPT ![w] = Atomic!Blank]
  BY <1>3, <1>4, SameResponses DEF Local, Answering
<1>7. begun' = begun + (IF r.method = "POST" THEN 1 ELSE 0)
  BY <1>1 DEF TypeOK
<1>8. Atomic!Call(w, r)
  BY <1>1, <1>3, <1>5, <1>6, <1>7 DEF Atomic!Call
<1> QED
  BY <1>2, <1>8 DEF Atomic!Next, Atomic!Invoke

(* Each step of a handler serves the request, or is not seen. *)
LEMMA GetSimulates ==
  ASSUME IOFails = {}, TypeOK, NEW w \in Worker, AloneInv, Mapped(w), OpenDir(w) \/ ReadFile(w)
  PROVE  Atomic!Apply(w) \/ UNCHANGED Atomic!vars
<1> DEFINE d == req[w].dir
           i == req[w].id
<1>1. /\ req[w].method = "GET" /\ id[w] = i /\ pc[w] \notin Writing /\ Phase(pc[w]) = "pending"
      /\ UNCHANGED <<dirs, post, req, begun>> /\ w \notin IOFails
      /\ pc[w] = "readfile" => ~(i = 0 /\ d \in dirs)
  BY DEF OpenDir, ReadFile, AloneInv, MethodInv, LookInv, Writing, Phase, store
<1>2. PostBar[d] = post[d]
  BY <1>1 DEF Mapped, AllMapped, Written
<1>3. \A j \in DOMAIN post[d] : j # 0
  BY RequestType DEF TypeOK, TreeOK
<1>4. CASE OpenDir(w) /\ pc'[w] = "readfile"
  <2>1. pc'[w] \notin Writing /\ Phase(pc'[w]) = "pending" /\ out' = out /\ Busy(w)'
    BY <1>4 DEF OpenDir, Respond, Goto, TypeOK, Writing, Phase, Busy
  <2>2. Written(w)' = Written(w) /\ Answering(w)' = Answering(w)
    BY <1>1, <2>1 DEF Written, Answering
  <2> QED
    BY <1>1, <2>1, <2>2, Stutters
<1>5. CASE \E r : Respond(w, r) /\ \/ i = 0 /\ d \in dirs /\ r = Listing(DOMAIN post[d])
                                   \/ i \in DOMAIN post[d] /\ r = Text(post[d][i])
                                   \/ ~Atomic!Exists(d, i) /\ r = NotFound
  <2>1. PICK r : /\ Respond(w, r)
                 /\ \/ i = 0 /\ d \in dirs /\ r = Listing(DOMAIN post[d])
                    \/ i \in DOMAIN post[d] /\ r = Text(post[d][i])
                    \/ ~Atomic!Exists(d, i) /\ r = NotFound
    BY <1>5
  <2>2. /\ pc'[w] = "reply" /\ pc'[w] \notin Writing /\ Phase(pc'[w]) = "done" /\ out'[w] = r
        /\ Busy(w)'
    BY <2>1 DEF Respond, Goto, TypeOK, Writing, Phase, Busy
  <2>3. Answering(w)' = r
    BY <2>2 DEF Answering
  <2>4. PostBar' = PostBar
    <3>1. Written(w)' = post[d]
      BY <1>1, <2>2 DEF Written
    <3> QED
      BY <1>1, <2>2, <3>1, SeenSame
  <2>5. Atomic!Answer(w, r)
    BY <2>3, Answers
  <2>6. Atomic!Get(w, d, i)
    <3>1. CASE i = 0 /\ d \in dirs /\ r = Listing(DOMAIN post[d])
      BY <1>1, <1>2, <2>4, <2>5, <3>1, SameResponses DEF Atomic!Get
    <3>2. CASE i \in DOMAIN post[d] /\ r = Text(post[d][i])
      BY <1>1, <1>2, <2>4, <2>5, <3>2, SameResponses DEF Atomic!Get
    <3>3. CASE ~Atomic!Exists(d, i) /\ r = NotFound
      BY <1>1, <2>3, <2>4, <3>3, Fails DEF Atomic!Get
    <3> QED
      BY <2>1, <3>1, <3>2, <3>3
  <2> QED
    BY <1>1, <2>2, <2>6, Applies DEF Effect
<1>6. CASE OpenDir(w) /\ pc'[w] # "readfile"
  <2>1. i = 0 /\ d \in dirs /\ Respond(w, Listing(DOMAIN post[d]))
    BY <1>1, <1>6 DEF OpenDir, Goto, TypeOK
  <2> QED
    BY <1>5, <2>1
<1>7. CASE ReadFile(w)
  <2>1. ~(i = 0 /\ d \in dirs)
    BY <1>1, <1>7 DEF ReadFile
  <2>2. \/ Exists(d, i) /\ Respond(w, Text(IF i = 0 THEN <<>> ELSE post[d][i]))
        \/ ~Exists(d, i) /\ Respond(w, NotFound)
    BY <1>1, <1>7 DEF ReadFile
  <2>3. Exists(d, i) => i # 0 /\ i \in DOMAIN post[d]
    BY <2>1 DEF Exists
  <2>4. ~Exists(d, i) => ~Atomic!Exists(d, i)
    BY <1>2, <1>3 DEF Exists, Atomic!Exists
  <2> QED
    BY <1>5, <2>2, <2>3, <2>4
<1> QED
  BY <1>4, <1>6, <1>7

LEMMA PostSimulates ==
  ASSUME IOFails = {}, TypeOK, NEW w \in Worker, AloneInv, Mapped(w),
         CheckDir(w) \/ MakeDir(w) \/ Probe(w)
  PROVE  Atomic!Apply(w) \/ UNCHANGED Atomic!vars
<1> DEFINE d == req[w].dir
<1>1. /\ req[w].method = "POST" /\ pc[w] \notin Writing /\ Phase(pc[w]) = "pending"
      /\ UNCHANGED <<post, req, begun, out>> /\ w \notin IOFails
  BY DEF CheckDir, MakeDir, Probe, AloneInv, MethodInv, Writing, Phase, store
<1>2. PostBar[d] = post[d]
  BY <1>1 DEF Mapped, AllMapped, Written
<1>3. /\ d \in Dir /\ id[w] \in Nat /\ DOMAIN post[d] \in SUBSET (Nat \ {0})
      /\ DOMAIN post[d] # {} => d \in dirs
  BY RequestType DEF TypeOK, TreeOK
<1>4. CASE pc'[w] \in {"mkdir", "probe"} /\ dirs' = dirs
  <2>1. pc'[w] \notin Writing /\ Phase(pc'[w]) = "pending" /\ Busy(w)'
    BY <1>4 DEF Writing, Phase, Busy
  <2>2. Written(w)' = Written(w) /\ Answering(w)' = Answering(w)
    BY <1>1, <2>1 DEF Written, Answering
  <2> QED
    BY <1>1, <1>4, <2>1, <2>2, Stutters
<1>5. CASE /\ pc'[w] = "open" /\ id' = id /\ dirs' = dirs \cup {d}
           /\ id[w] # 0 /\ id[w] \notin DOMAIN post[d]
           /\ \A m \in 1..(id[w] - 1) : m \in DOMAIN post[d]
  <2>1. id[w] = Atomic!FreshId(d)
    BY <1>2, <1>3, <1>5, FreshIs DEF Atomic!FreshId
  <2>2. pc'[w] \in Writing /\ Phase(pc'[w]) = "done" /\ Busy(w)'
    BY <1>5 DEF Writing, Phase, Busy
  <2>3. Written(w)' = Store(post[d], id[w], req[w].body)
    BY <1>1, <1>5, <2>2 DEF Written
  <2>4. PostBar' = [PostBar EXCEPT ![d] = Store(PostBar[d], id[w], req[w].body)]
    BY <1>1, <1>2, <2>2, <2>3, Seen
  <2>5. Atomic!Put(d, id[w], req[w].body)
    BY <2>4 DEF Atomic!Put, Store
  <2>6. Answering(w)' = Created(id[w])
    BY <1>1, <1>5, <2>2 DEF Answering, Promise
  <2>7. Atomic!Post(w, d, req[w].body)
    BY <1>5, <2>1, <2>5, <2>6, Answers, SameResponses DEF Atomic!Post
  <2> QED
    BY <1>1, <2>2, <2>7, Applies DEF Effect
<1>6. CASE CheckDir(w)
  BY <1>4, <1>6 DEF CheckDir, Goto, TypeOK, store
<1>7. CASE MakeDir(w)
  <2>1. id[w] = 1 /\ d \notin dirs /\ DOMAIN post[d] = {}
    BY <1>3, <1>7 DEF MakeDir, AloneInv, LookInv
  <2>2. pc'[w] = "open" /\ id' = id /\ dirs' = dirs \cup {d}
    BY <1>1, <1>7 DEF MakeDir, Goto, TypeOK
  <2> QED
    BY <1>5, <2>1, <2>2
<1>8. CASE Probe(w)
  <2>1. /\ d \in dirs /\ id[w] # 0 /\ dirs' = dirs
        /\ \A m \in 1..(id[w] - 1) : m \in DOMAIN post[d]
    BY <1>8 DEF Probe, AloneInv, LookInv, store
  <2>2. CASE pc' = pc
    BY <1>4, <1>8, <2>1, <2>2 DEF Probe
  <2>3. CASE pc' # pc
    <3>1. ~Exists(d, id[w]) /\ Goto(w, "open") /\ id' = id
      BY <1>8, <2>3 DEF Probe
    <3>2. pc'[w] = "open" /\ id[w] \notin DOMAIN post[d] /\ dirs' = dirs \cup {d}
      BY <2>1, <3>1 DEF Goto, Exists, TypeOK
    <3> QED
      BY <1>5, <2>1, <3>1, <3>2
  <2> QED
    BY <2>2, <2>3
<1> QED
  BY <1>6, <1>7, <1>8

LEMMA PutSimulates ==
  ASSUME TypeOK, NEW w \in Worker, AloneInv, Mapped(w), Lookup(w)
  PROVE  Atomic!Apply(w)
<1> DEFINE d == req[w].dir
           i == req[w].id
<1>1. /\ req[w].method = "PUT" /\ id[w] = i /\ pc[w] \notin Writing /\ Phase(pc[w]) = "pending"
      /\ UNCHANGED <<dirs, post, req, begun, id>>
  BY DEF Lookup, AloneInv, MethodInv, Writing, Phase, store
<1>2. PostBar[d] = post[d]
  BY <1>1 DEF Mapped, AllMapped, Written
<1>3. \A j \in DOMAIN post[d] : j # 0
  BY RequestType DEF TypeOK, TreeOK
<1>4. CASE Exists(d, i)
  <2>1. pc'[w] = "open" /\ pc'[w] \in Writing /\ Phase(pc'[w]) = "done" /\ Busy(w)'
    BY <1>1, <1>4 DEF Lookup, Goto, TypeOK, Writing, Phase, Busy
  <2>2. Answering(w)' = Text(req[w].body)
    BY <1>1, <2>1 DEF Answering, Promise
  <2>3. Atomic!Answer(w, Atomic!Ok([Atomic!Blank EXCEPT !.text = req[w].body]))
    BY <2>2, Answers, SameResponses
  <2>4. CASE i = 0
    <3>1. d \in dirs /\ Written(w)' = post[d]
      BY <1>1, <1>4, <2>4 DEF Exists, Written
    <3>2. PostBar' = PostBar
      BY <1>1, <2>1, <3>1, SeenSame
    <3>3. Atomic!Update(w, d, i, req[w].body)
      BY <1>1, <2>3, <2>4, <3>1, <3>2 DEF Atomic!Update
    <3> QED
      BY <1>1, <2>1, <3>3, Applies DEF Effect
  <2>5. CASE i # 0
    <3>1. i \in DOMAIN post[d] /\ Written(w)' = Store(post[d], i, req[w].body)
      BY <1>1, <1>4, <2>1, <2>5 DEF Exists, Written
    <3>2. PostBar' = [PostBar EXCEPT ![d] = Store(PostBar[d], i, req[w].body)]
      BY <1>1, <1>2, <2>1, <3>1, Seen
    <3>3. Atomic!Put(d, i, req[w].body)
      BY <3>2 DEF Atomic!Put, Store
    <3>4. Atomic!Update(w, d, i, req[w].body)
      BY <1>1, <1>2, <2>3, <3>1, <3>3 DEF Atomic!Update
    <3> QED
      BY <1>1, <2>1, <3>4, Applies DEF Effect
  <2> QED
    BY <2>4, <2>5
<1>5. CASE ~Exists(d, i)
  <2>1. /\ pc'[w] = "reply" /\ pc'[w] \notin Writing /\ Phase(pc'[w]) = "done"
        /\ out'[w] = NotFound /\ Busy(w)'
    BY <1>1, <1>5 DEF Lookup, Respond, Goto, TypeOK, Writing, Phase, Busy
  <2>2. Answering(w)' = NotFound /\ Written(w)' = post[d]
    BY <1>1, <2>1 DEF Answering, Written
  <2>3. PostBar' = PostBar
    BY <1>1, <2>1, <2>2, SeenSame
  <2>4. ~Atomic!Exists(d, i)
    BY <1>2, <1>3, <1>5 DEF Exists, Atomic!Exists
  <2>5. Atomic!Update(w, d, i, req[w].body)
    BY <1>1, <2>2, <2>3, <2>4, Fails DEF Atomic!Update
  <2> QED
    BY <1>1, <2>1, <2>5, Applies DEF Effect
<1> QED
  BY <1>4, <1>5

(* The text is in the tree of the store from the step that settles the path,  *)
(* so none of the three calls of write_file is seen.                          *)
LEMMA WriteSimulates ==
  ASSUME IOFails = {}, TypeOK, NEW w \in Worker, AloneInv, Mapped(w),
         OpenFile(w) \/ ReopenFile(w) \/ WriteFile(w)
  PROVE  UNCHANGED Atomic!vars
<1> DEFINE d == req[w].dir
           i == id[w]
           b == req[w].body
<1>1. /\ pc[w] \in Writing /\ d \in dirs
      /\ req' = req /\ id' = id /\ dirs' = dirs /\ begun' = begun
  BY DEF OpenFile, ReopenFile, WriteFile, AloneInv, LookInv, Writing
<1>2. d \in Dir /\ b \in Seq(Cell) /\ TreeInv
  BY RequestType DEF TypeOK, AloneInv
<1>3. CASE pc'[w] \in {"reopen", "write"} /\ out' = out /\ \E opened \in BOOLEAN : Creat(w, opened)
  <2>1. pc'[w] \in Writing /\ Phase(pc'[w]) = Phase(pc[w]) /\ Busy(w)'
    BY <1>1, <1>3 DEF Writing, Phase, Busy
  <2>2. Answering(w)' = Answering(w)
    BY <1>1, <2>1 DEF Answering, Promise
  <2>3. CASE i = 0
    <3>1. Written(w)' = Written(w)
      BY <1>1, <1>3, <2>3, CreatAlone DEF Written
    <3> QED
      BY <1>1, <2>1, <2>2, <3>1, Stutters
  <2>4. CASE i # 0
    <3>1. post' = [post EXCEPT ![d] = Store(post[d], i, <<>>)]
      BY <1>1, <1>3, <2>4, CreatAlone
    <3>2. post'[d] = Store(post[d], i, <<>>)
      BY <1>2, <3>1 DEF TreeInv
    <3>3. Written(w)' = Store(post'[d], i, b)
      BY <1>1, <2>1, <2>4 DEF Written
    <3>4. Written(w)' = Store(post[d], i, b)
      BY <3>2, <3>3, StoreTwice
    <3>5. Written(w) = Store(post[d], i, b)
      BY <1>1, <2>4 DEF Written
    <3> QED
      BY <1>1, <2>1, <2>2, <3>4, <3>5, Stutters
  <2> QED
    BY <2>3, <2>4
<1>4. CASE WriteFile(w)
  <2>1. /\ pc[w] = "write" /\ pc'[w] = "reply" /\ pc'[w] \notin Writing /\ Busy(w)'
        /\ Phase(pc'[w]) = Phase(pc[w]) /\ out'[w] = Promise(w)
    BY <1>4 DEF WriteFile, Respond, Goto, TypeOK, Writing, Phase, Busy
  <2>2. Answering(w)' = Answering(w)
    BY <1>1, <2>1 DEF Answering
  <2>3. /\ Written(w)' = post'[d]
        /\ Written(w) = IF i # 0 THEN Store(post[d], i, b) ELSE post[d]
    BY <1>1, <2>1 DEF Written
  <2>4. CASE i = 0
    <3>1. post' = post
      BY <1>4, <2>4 DEF WriteFile, AloneInv, StreamInv
    <3> QED
      BY <1>1, <2>1, <2>2, <2>3, <2>4, <3>1, Stutters
  <2>5. CASE i # 0
    <3>1. w \in fd /\ i \in DOMAIN post[d] /\ post[d][i] = <<>>
      BY <2>1, <2>5 DEF AloneInv, StreamInv
    <3>2. post' = [post EXCEPT ![d] = [post[d] EXCEPT ![i] = Overlay(b, post[d][i])]]
      BY <1>4, <3>1 DEF WriteFile
    <3>3. Overlay(b, post[d][i]) = b
      BY <1>2, <3>1, OverlayEmpty
    <3>4. [post[d] EXCEPT ![i] = b] = Store(post[d], i, b)
      <4>1. post[d] = [j \in DOMAIN post[d] |-> post[d][j]] /\ DOMAIN post[d] \cup {i} = DOMAIN post[d]
        BY <1>2, <3>1 DEF TreeInv
      <4> QED
        BY <4>1 DEF Store
    <3>5. post'[d] = Store(post[d], i, b)
      BY <1>2, <3>2, <3>3, <3>4 DEF TreeInv
    <3> QED
      BY <1>1, <2>1, <2>2, <2>3, <2>5, <3>5, Stutters
  <2> QED
    BY <2>4, <2>5
<1>5. CASE OpenFile(w)
  BY <1>3, <1>5 DEF OpenFile, Goto, TypeOK
<1>6. CASE ReopenFile(w)
  BY <1>3, <1>6 DEF ReopenFile, Goto, TypeOK
<1> QED
  BY <1>4, <1>5, <1>6

LEMMA DeleteSimulates ==
  ASSUME IOFails = {}, TypeOK, NEW w \in Worker, AloneInv, Mapped(w), Remove(w) \/ Other(w)
  PROVE  Atomic!Apply(w)
<1> DEFINE d == req[w].dir
           i == req[w].id
<1>1. /\ pc[w] \notin Writing /\ Phase(pc[w]) = "pending" /\ req' = req /\ begun' = begun
      /\ id[w] = i /\ w \notin IOFails
  BY DEF Remove, Other, AloneInv, MethodInv, Writing, Phase
<1>2. PostBar[d] = post[d]
  BY <1>1 DEF Mapped, AllMapped, Written
<1>3. d \in Dir /\ \A j \in DOMAIN post[d] : j # 0
  BY RequestType DEF TypeOK, TreeOK
<1>4. ASSUME NEW r, Respond(w, r)
      PROVE  /\ Phase(pc'[w]) = "done" /\ Busy(w)' /\ Answering(w)' = r
             /\ PostBar' = [PostBar EXCEPT ![d] = post'[d]]
             /\ post' = post => PostBar' = PostBar
             /\ Atomic!Answer(w, r)
  <2>1. pc'[w] = "reply" /\ pc'[w] \notin Writing /\ Phase(pc'[w]) = "done" /\ out'[w] = r /\ Busy(w)'
    BY <1>4 DEF Respond, Goto, TypeOK, Writing, Phase, Busy
  <2>2. Answering(w)' = r /\ Written(w)' = post'[d]
    BY <1>1, <2>1 DEF Answering, Written
  <2>3. PostBar' = [PostBar EXCEPT ![d] = post'[d]]
    BY <1>1, <2>1, <2>2, Seen
  <2>4. post' = post => PostBar' = PostBar
    BY <1>1, <2>1, <2>2, SeenSame
  <2> QED
    BY <2>1, <2>2, <2>3, <2>4, Answers
<1>5. CASE Other(w)
  <2>1. req[w].method = "PATCH" /\ Respond(w, Ok) /\ dirs' = dirs /\ post' = post
    BY <1>5 DEF Other, AloneInv, MethodInv, store
  <2>2. Effect(w)
    BY <1>4, <2>1, SameResponses DEF Effect
  <2> QED
    BY <1>1, <1>4, <2>1, <2>2, Applies
<1>6. CASE Remove(w)
  <2>1. req[w].method = "DELETE"
    BY <1>6 DEF Remove, AloneInv, MethodInv
  <2>2. \/ /\ i # 0 /\ i \in DOMAIN post[d] /\ Respond(w, Ok) /\ dirs' = dirs
           /\ post' = [post EXCEPT ![d] = Unlink(post[d], i)]
        \/ /\ i = 0 /\ d \in dirs /\ DOMAIN post[d] = {} /\ Respond(w, Ok)
           /\ dirs' = dirs \ {d} /\ post' = post
        \/ /\ ~Exists(d, i) \/ (i = 0 /\ DOMAIN post[d] # {})
           /\ Respond(w, NotFound) /\ dirs' = dirs /\ post' = post
    BY <1>1, <1>6 DEF Remove, Exists, Empty, store
  <2>3. CASE /\ i # 0 /\ i \in DOMAIN post[d] /\ Respond(w, Ok) /\ dirs' = dirs
             /\ post' = [post EXCEPT ![d] = Unlink(post[d], i)]
    <3>1. post'[d] = Unlink(PostBar[d], i)
      BY <1>2, <1>3, <2>3 DEF AloneInv, TreeInv
    <3>2. PostBar' = [PostBar EXCEPT ![d] = Unlink(PostBar[d], i)]
      BY <1>4, <2>3, <3>1
    <3>3. Atomic!Delete(w, d, i)
      BY <1>2, <1>4, <2>3, <3>2, SameResponses DEF Atomic!Delete, Unlink
    <3> QED
      BY <1>1, <1>4, <2>1, <2>3, <3>3, Applies DEF Effect
  <2>4. CASE /\ i = 0 /\ d \in dirs /\ DOMAIN post[d] = {} /\ Respond(w, Ok)
             /\ dirs' = dirs \ {d} /\ post' = post
    <3>1. Atomic!Delete(w, d, i)
      BY <1>2, <1>4, <2>4, SameResponses DEF Atomic!Delete
    <3> QED
      BY <1>1, <1>4, <2>1, <2>4, <3>1, Applies DEF Effect
  <2>5. CASE /\ ~Exists(d, i) \/ (i = 0 /\ DOMAIN post[d] # {})
             /\ Respond(w, NotFound) /\ dirs' = dirs /\ post' = post
    <3>1. Atomic!Fail(w)
      BY <1>4, <2>5, Fails
    <3>2. i \notin DOMAIN post[d] /\ ~(i = 0 /\ d \in dirs /\ DOMAIN post[d] = {})
      BY <1>3, <2>5 DEF Exists
    <3>3. Atomic!Delete(w, d, i)
      BY <1>2, <3>1, <3>2 DEF Atomic!Delete
    <3> QED
      BY <1>1, <1>4, <2>1, <2>5, <3>3, Applies DEF Effect
  <2> QED
    BY <2>2, <2>3, <2>4, <2>5
<1> QED
  BY <1>5, <1>6

(* A finished thread leaves its directory as it is for the store, too. *)
LEMMA ReplyBar ==
  ASSUME TypeOK, AloneInv, NEW w \in Worker, AllMapped, AllMapped', Reply(w)
  PROVE  PostBar'[req[w].dir] = PostBar[req[w].dir]
<1> DEFINE d == req[w].dir
<1>1. /\ d \in Dir /\ pc[w] = "reply" /\ pc'[w] = "idle" /\ post' = post /\ req' = req /\ id' = id
      /\ \A v \in Worker : v # w => pc'[v] = pc[v]
  BY RequestType DEF Reply, Goto, TypeOK, store
<1>2. \A v \in Worker : LandsOn(v, d)' <=> LandsOn(v, d)
  BY <1>1 DEF LandsOn, InFlight, Writing
<1>3. CASE \A v \in Worker : ~LandsOn(v, d)
  <2>1. PostBar'[d] = post'[d]
    BY <1>1, <1>2, <1>3 DEF AllMapped
  <2> QED
    BY <1>1, <1>3, <2>1 DEF AllMapped
<1>4. ASSUME NEW v \in Worker, LandsOn(v, d)
      PROVE  PostBar'[d] = PostBar[d]
  <2>1. pc[v] \in Writing /\ req[v].dir = d /\ v # w
    BY <1>1, <1>4 DEF LandsOn, InFlight, Writing
  <2>2. Busy(v) /\ Busy(v)' /\ pc'[v] = pc[v]
    BY <1>1, <2>1 DEF Busy, Writing
  <2>3. Written(v)' = Written(v)
    BY <1>1, <2>2 DEF Written
  <2>4. PostBar[d] = Written(v)
    BY <2>1, <2>2 DEF AllMapped
  <2>5. PostBar'[d] = Written(v)'
    BY <1>1, <2>1, <2>2 DEF AllMapped
  <2> QED
    BY <2>3, <2>4, <2>5
<1> QED
  BY <1>3, <1>4

LEMMA ReplySimulates ==
  ASSUME TypeOK, AloneInv, NEW w \in Worker, Mapped(w), Reply(w)
  PROVE  Atomic!Return(w)
<1>1. /\ pc[w] = "reply" /\ pc'[w] = "idle" /\ UNCHANGED <<dirs, post, req, out, begun>>
      /\ pc[w] \notin Writing /\ pc'[w] \notin Writing
      /\ Phase(pc[w]) = "done" /\ Phase(pc'[w]) = "idle"
  BY DEF Reply, Goto, TypeOK, Writing, Phase, store
<1>2. PhaseBar[w] = "done" /\ PhaseBar' = [PhaseBar EXCEPT ![w] = "idle"]
  BY <1>1 DEF Mapped, AllMapped, Local
<1>3. OutBar' = OutBar
  <2>1. Answering(w)' = Answering(w)
    BY <1>1 DEF Answering
  <2> QED
    BY <2>1 DEF Mapped, AllMapped, Local
<1>4. PostBar' = PostBar
  <2>1. PostBar'[req[w].dir] = PostBar[req[w].dir]
    BY ReplyBar DEF Mapped
  <2>2. PostBar' = [PostBar EXCEPT ![req[w].dir] = PostBar[req[w].dir]]
    BY <1>1, <2>1 DEF Mapped, Local
  <2> QED
    BY <2>2 DEF Mapped, AllMapped
<1> QED
  BY <1>1, <1>2, <1>3, <1>4 DEF Atomic!Return
-----------------------------------------------------------------------------
LEMMA InitSimulates ==
  Init => Atomic!Init
<1> SUFFICES ASSUME Init PROVE Atomic!Init
  OBVIOUS
<1>1. TypeOK /\ AloneInv
  BY InitType, AloneInit
<1>2. \A w \in Worker : pc[w] = "idle" /\ pc[w] \notin Writing /\ out[w] = Blank
  BY DEF Init, Writing
<1>3. PhaseBar = [w \in Worker |-> "idle"] /\ OutBar = [w \in Worker |-> Atomic!Blank]
  BY <1>2, SameResponses DEF PhaseBar, OutBar, InFlight
<1>4. PostBar = [d \in Dir |-> <<>>]
  <2>1. \A w \in Worker, d \in Dir : ~LandsOn(w, d)
    BY <1>2 DEF LandsOn, InFlight
  <2>2. \A d \in Dir : PostBar[d] = <<>>
    BY <1>1, <2>1, NoneLands DEF Init, AloneInv
  <2>3. PostBar = [d \in Dir |-> PostBar[d]]
    BY DEF PostBar
  <2> QED
    BY <2>2, <2>3
<1> QED
  BY <1>3, <1>4 DEF Init, Atomic!Init

LEMMA NextSimulates ==
  /\ IOFails = {} /\ Apart /\ Apart' /\ TypeOK /\ AloneInv /\ AloneInv' /\ AllMapped /\ AllMapped'
  /\ [Next]_vars
  => [Atomic!Next]_Atomic!vars
<1> SUFFICES ASSUME IOFails = {}, Apart, Apart', TypeOK, AloneInv, AloneInv', AllMapped, AllMapped',
                    [Next]_vars
             PROVE  [Atomic!Next]_Atomic!vars
  OBVIOUS
<1>1. ASSUME NEW w \in Worker, Begin(w) \/ Serve(w)
      PROVE  Atomic!Next \/ UNCHANGED Atomic!vars
  <2>1. Local(w) /\ (Begin(w) => PostBar' = PostBar)
    BY <1>1, IsLocal
  <2>2. CASE Begin(w)
    BY <2>1, <2>2, BeginSimulates
  <2>3. CASE Serve(w)
    <3>1. Mapped(w)
      BY <2>1, <2>3
      DEF Mapped, Busy, Serve, Other, OpenDir, ReadFile, CheckDir, MakeDir, Probe, Lookup,
          OpenFile, ReopenFile, WriteFile, Remove, Reply
    <3>2. Atomic!Apply(w) \/ Atomic!Return(w) \/ UNCHANGED Atomic!vars
      BY <2>3, <3>1, GetSimulates, PostSimulates, PutSimulates, WriteSimulates,
         DeleteSimulates, ReplySimulates
      DEF Serve
    <3> QED
      BY <3>2 DEF Atomic!Next
  <2> QED
    BY <1>1, <2>2, <2>3
<1>2. CASE UNCHANGED vars
  BY <1>2 DEF vars, Atomic!vars, store, hist, PostBar, PhaseBar, OutBar, LandsOn, InFlight, Promise
<1> QED
  BY <1>1, <1>2 DEF Next

(* Any number of threads whose system calls do not fail are an atomic store   *)
(* as long as none of them writes, or removes, in a directory in which        *)
(* another is at work: they start as one, and every system call of every      *)
(* handler is a step of the store or not seen                                 *)
(* (crud_request_handler.cc:20-254).                                          *)
THEOREM ApartIsAtomic ==
  ASSUME IOFails = {}
  PROVE  Spec /\ []Apart => Atomic!Init /\ [][Atomic!Next]_(Atomic!vars)
<1>1. Spec /\ []Apart => [](TypeOK /\ AloneInv)
  BY InitType, NextType, AloneInit, AloneNext, PTL DEF Spec
<1>2. Apart /\ TypeOK /\ AloneInv => AllMapped
  BY MappedNow
<1>3. /\ Apart /\ Apart' /\ TypeOK /\ AloneInv /\ AloneInv' /\ AllMapped /\ AllMapped' /\ [Next]_vars
      => [Atomic!Next]_(Atomic!vars)
  BY NextSimulates
<1>4. Init => Atomic!Init
  BY InitSimulates
<1> QED
  BY <1>1, <1>2, <1>3, <1>4, PTL DEF Spec

(* So one thread, whatever it serves, is an atomic store. *)
THEOREM OneThreadIsAtomic ==
  ASSUME OneThread
  PROVE  Spec => Atomic!Init /\ [][Atomic!Next]_(Atomic!vars)
<1>1. Apart
  BY OneIsApart
<1>2. IOFails = {}
  BY OneIsApart
<1>3. Spec /\ []Apart => Atomic!Init /\ [][Atomic!Next]_(Atomic!vars)
  BY <1>2, ApartIsAtomic
<1> QED
  BY <1>1, <1>3, PTL
=============================================================================
