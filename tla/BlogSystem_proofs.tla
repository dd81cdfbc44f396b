-------------------------- MODULE BlogSystem_proofs --------------------------
(* Proofs about BlogSystem: with the store behind it, the front end does      *)
(* nothing that BlogApp does not allow, so what is proved of BlogApp holds,   *)
(* and no post is ever given the text of another.                             *)
EXTENDS BlogSystem, BlogApp_proofs, WellFoundedInduction

Dirs == Dir \cup {NoDir}

(* What the store holds, and what a listing can name. *)
PostsOK(p) ==
  /\ p = [d \in Dirs |-> p[d]]
  /\ \A d \in Dirs : /\ IsFiniteSet(DOMAIN p[d]) /\ DOMAIN p[d] \subseteq Id
                     /\ \A i \in DOMAIN p[d] : p[d][i] \in Texts(d, i)

StoreInv ==
  /\ PostsOK(post)
  /\ phase = [c \in Conn |-> phase[c]]
  /\ req = [c \in Conn |-> req[c]] /\ out = [c \in Conn |-> out[c]]

(* A request is one that some fetch has made, and its answer fits it. *)
Fits(r) ==
  /\ r.method \in {"GET", "POST", "PUT", "DELETE"}
  /\ r.dir \in Dirs /\ r.id \in Id \cup {0} /\ r.body \in Texts(r.dir, r.id)
  /\ r.method = "POST" => r.body = <<>>

AnswerFits(a, r) == a.text \in Texts(r.dir, r.id) /\ a.names \subseteq Id

RequestInv ==
  \A c \in Conn :
    /\ phase[c] # "idle" => Fits(req[c])
    /\ phase[c] = "done" /\ req[c].method = "GET" => AnswerFits(out[c], req[c])

(* The request at the server is the one the fetch on its connection is        *)
(* waiting for, unless the connection has broken.                             *)
LinkInv ==
  \A c \in Conn : phase[c] # "idle" /\ c \notin broken => ~Free(c) /\ req[c] = Request(call[c])

SystemInv == TypeOK /\ TextInv /\ StoreInv /\ RequestInv /\ LinkInv /\ breaks \in Nat
-----------------------------------------------------------------------------
(* The store's ids. *)

LEMMA Least ==
  ASSUME NEW S \in SUBSET Nat, S # {}
  PROVE  \E m \in S : \A k \in S : m <= k
<1>1. PICK m \in S : \A k \in S : ~(<<k, m>> \in OpToRel(<, Nat))
  BY WFMin, NatLessThanWellFounded
<1>2. \A k \in S : ~(k < m)
  BY <1>1 DEF OpToRel
<1> QED
  BY <1>2

(* With ids to spare, the store finds a free one. *)
LEMMA FreshIdType ==
  ASSUME Id = Nat \ {0}, StoreInv, NEW d \in Dirs
  PROVE  Store!FreshId(d) \in Id /\ Store!FreshId(d) \notin DOMAIN post[d]
<1> DEFINE D == DOMAIN post[d]
           K == Cardinality(D)
           S == (1..K + 1) \ D
<1>1. IsFiniteSet(D) /\ K \in Nat
  BY FS_CardinalityType DEF StoreInv, PostsOK
<1>2. S # {}
  <2> SUFFICES ASSUME S = {} PROVE FALSE
    OBVIOUS
  <2>1. 1..K + 1 \in SUBSET D
    OBVIOUS
  <2>2. Cardinality(1..K + 1) <= K
    BY <1>1, <2>1, FS_Subset
  <2>3. Cardinality(1..K + 1) = K + 1
    BY <1>1, FS_Interval
  <2> QED
    BY <1>1, <2>2, <2>3
<1>3. PICK n \in S : \A k \in S : n <= k
  <2>1. S \in SUBSET Nat
    BY <1>1
  <2> HIDE DEF S
  <2> QED
    BY <1>2, <2>1, Least
<1>4. n \in 1..K + 1 /\ n \notin D /\ \A m \in 1..n - 1 : m \in D
  BY <1>1, <1>3
<1>5. n \in {1} \cup {m + 1 : m \in D}
  <2>1. CASE n = 1
    BY <2>1
  <2>2. CASE n # 1
    <3>1. n - 1 \in 1..n - 1 /\ n = (n - 1) + 1
      BY <1>1, <1>4, <2>2
    <3> QED
      BY <1>4, <3>1
  <2> QED
    BY <2>1, <2>2
<1>6. Store!FreshId(d) \in {1} \cup {m + 1 : m \in D} /\ Store!FreshId(d) \notin D
  BY <1>4, <1>5 DEF Store!FreshId
<1> QED
  BY <1>6 DEF StoreInv, PostsOK
-----------------------------------------------------------------------------
(* The store serves a request. *)

LEMMA PutPosts ==
  ASSUME PostsOK(post), NEW d \in Dirs, NEW i \in Id, NEW t \in Texts(d, i), Store!Put(d, i, t)
  PROVE  PostsOK(post')
<1>1. IsFiniteSet(DOMAIN post[d] \cup {i})
  BY FS_AddElement DEF PostsOK
<1>2. post' = [post EXCEPT ![d] = [j \in DOMAIN post[d] \cup {i} |-> IF j = i THEN t ELSE post[d][j]]]
  BY DEF Store!Put
<1> QED
  BY <1>1, <1>2 DEF PostsOK

LEMMA DropPost ==
  ASSUME PostsOK(post), NEW d \in Dirs, NEW i,
         post' = [post EXCEPT ![d] = [j \in DOMAIN post[d] \ {i} |-> post[d][j]]]
  PROVE  PostsOK(post')
<1>1. IsFiniteSet(DOMAIN post[d] \ {i})
  BY FS_RemoveElement DEF PostsOK
<1> QED
  BY <1>1 DEF PostsOK

LEMMA ApplyPosts ==
  ASSUME Id = Nat \ {0}, StoreInv, RequestInv, NEW c \in Conn, Store!Apply(c)
  PROVE  PostsOK(post')
<1> DEFINE r == req[c]
<1>1. Fits(r) /\ PostsOK(post)
  BY DEF RequestInv, StoreInv, Store!Apply
<1>2. CASE r.method = "GET" /\ Store!Get(c, r.dir, r.id)
  BY <1>1, <1>2 DEF Store!Get, Store!Fail
<1>3. CASE r.method = "POST" /\ Store!Post(c, r.dir, r.body)
  <2>1. Store!FreshId(r.dir) \in Id /\ <<>> \in Texts(r.dir, Store!FreshId(r.dir))
    BY <1>1, FreshIdType, EmptyText DEF Fits, Dirs
  <2> QED
    BY <1>1, <1>3, <2>1, PutPosts DEF Fits, Store!Post
<1>4. CASE r.method = "PUT" /\ Store!Update(c, r.dir, r.id, r.body)
  <2>1. r.id \in DOMAIN post[r.dir] => r.id \in Id
    BY <1>1 DEF Fits, PostsOK
  <2> QED
    BY <1>1, <1>4, <2>1, PutPosts DEF Fits, Store!Update, Store!Fail
<1>5. CASE r.method = "DELETE" /\ Store!Delete(c, r.dir, r.id)
  BY <1>1, <1>5, DropPost DEF Fits, Store!Delete, Store!Fail
<1> QED
  BY <1>1, <1>2, <1>3, <1>4, <1>5 DEF Fits, Store!Apply

LEMMA ApplyInv ==
  ASSUME Id = Nat \ {0}, StoreInv, RequestInv, NEW c \in Conn, Store!Apply(c)
  PROVE  StoreInv' /\ RequestInv'
<1> DEFINE r == req[c]
<1>1. Fits(r) /\ PostsOK(post)
  BY DEF RequestInv, StoreInv, Store!Apply
<1>2. PICK a : out' = [out EXCEPT ![c] = a] /\ (r.method = "GET" => AnswerFits(a, r))
  <2>1. ASSUME NEW a, Store!Answer(c, a), r.method = "GET" => AnswerFits(a, r)
        PROVE  \E b : out' = [out EXCEPT ![c] = b] /\ (r.method = "GET" => AnswerFits(b, r))
    BY <2>1 DEF Store!Answer
  <2>2. CASE r.method = "GET" /\ Store!Get(c, r.dir, r.id)
    <3>1. <<>> \in Texts(r.dir, r.id)
      BY <1>1, EmptyText DEF Fits, Dirs
    <3>2. CASE Store!Answer(c, Store!Ok([Store!Blank EXCEPT !.names = DOMAIN post[r.dir],
                                   !.open = IF DOMAIN post[r.dir] = {} THEN "" ELSE "["]))
      <4>1. DOMAIN post[r.dir] \subseteq Id
        BY <1>1 DEF Fits, PostsOK
      <4> QED
        BY <2>1, <3>1, <3>2, <4>1 DEF AnswerFits, Store!Ok, Store!Blank
    <3>3. CASE r.id \in DOMAIN post[r.dir] /\ Store!Answer(c, Store!Ok([Store!Blank EXCEPT !.text = post[r.dir][r.id]]))
      <4>1. post[r.dir][r.id] \in Texts(r.dir, r.id)
        BY <1>1, <3>3 DEF Fits, PostsOK
      <4> QED
        BY <2>1, <3>3, <4>1 DEF AnswerFits, Store!Ok, Store!Blank
    <3>4. CASE Store!Fail(c)
      BY <2>1, <3>1, <3>4 DEF AnswerFits, Store!Fail, Store!Blank
    <3> QED
      BY <2>2, <3>2, <3>3, <3>4 DEF Store!Get
  <2>3. CASE r.method # "GET"
    <3>1. \E a : Store!Answer(c, a)
      BY <1>1, <2>3 DEF Fits, Store!Apply, Store!Post, Store!Update, Store!Delete, Store!Fail
    <3> QED
      BY <2>1, <2>3, <3>1
  <2> QED
    BY <1>1, <2>2, <2>3 DEF Store!Apply
<1>3. phase' = [phase EXCEPT ![c] = "done"] /\ req' = req
  BY DEF Store!Apply
<1>4. StoreInv'
  BY <1>2, <1>3, ApplyPosts DEF StoreInv
<1>5. RequestInv'
  BY <1>1, <1>2, <1>3 DEF RequestInv, StoreInv
<1> QED
  BY <1>4, <1>5
-----------------------------------------------------------------------------
(* The browser: what it asks for, and what it makes of the answers. *)

LEMMA RequestFits ==
  ASSUME TypeOK, TextInv, NEW c \in Conn, ~Free(c)
  PROVE  /\ Fits(Request(call[c]))
         /\ Request(call[c]).dir = call[c].dir /\ Request(call[c]).id = call[c].id
         /\ call[c].kind \in {"list", "get"} => Request(call[c]).method = "GET"
<1> DEFINE k == call[c]
<1>1. /\ k.kind \in {"list", "get", "create", "save", "delete"}
      /\ k.dir \in Dirs /\ k.id \in Id \cup {0} /\ Kept(k)
  BY DEF TypeOK, Calls, Free, TextInv, Dirs
<1>2. /\ k.kind = "list" => Method[k.kind] = "GET"
      /\ k.kind = "get" => Method[k.kind] = "GET"
      /\ k.kind = "create" => Method[k.kind] = "POST"
      /\ k.kind = "save" => Method[k.kind] = "PUT"
      /\ k.kind = "delete" => Method[k.kind] = "DELETE"
  BY DEF Method
<1>3. /\ Request(k).method = Method[k.kind] /\ Request(k).dir = k.dir
      /\ Request(k).id = k.id /\ Request(k).body = k.text
  BY DEF Request
<1> QED
  BY <1>1, <1>2, <1>3 DEF Fits, Kept

(* An answer that fits the fetch it is for is one BlogApp allows. *)
LEMMA ReceiveSettles ==
  ASSUME TypeOK, NEW c \in Conn, NEW ok \in BOOLEAN, NEW r, Receive(c, ok, r),
         call[c].kind \in {"list", "get"} => AnswerFits(r, call[c])
  PROVE  Settles(c)
<1>1. UNCHANGED acts
  BY DEF Receive
<1>2. CASE ListSettles(c, ok /\ r.open = "[", r.names)
  <2>1. r.names \in SUBSET Id
    BY <1>2 DEF ListSettles, AnswerFits
  <2>2. (ok /\ r.open = "[") \in BOOLEAN
    OBVIOUS
  <2> QED
    BY <1>1, <1>2, <2>1, <2>2 DEF Settles
<1>3. CASE GetSettles(c, ok, r.text)
  <2>1. r.text \in Texts(call[c].dir, call[c].id)
    BY <1>3 DEF GetSettles, AnswerFits
  <2> QED
    BY <1>1, <1>3, <2>1 DEF Settles
<1>4. CASE CreateSettles(c, ok) \/ SetSettles(c) \/ DeleteSettles(c, ok)
  BY <1>1, <1>4 DEF Settles
<1> QED
  BY <1>2, <1>3, <1>4 DEF Receive

LEMMA BrokenAnswer ==
  ASSUME TypeOK, NEW c \in Conn
  PROVE  AnswerFits(Store!Blank, call[c])
<1>1. call[c].dir \in Dir \cup {NoDir} /\ call[c].id \in Id \cup {0}
  BY DEF TypeOK, Calls
<1> QED
  BY <1>1, EmptyText DEF AnswerFits, Store!Blank

(* What a step of the system is for the front end. *)
LEMMA Simulates == SystemInv /\ [SystemNext]_systemVars => [Next]_vars
<1> SUFFICES ASSUME SystemInv, [SystemNext]_systemVars PROVE [Next]_vars
  OBVIOUS
<1> USE DEF SystemInv
<1>1. CASE UNCHANGED systemVars
  BY <1>1 DEF systemVars
<1>2. CASE HashChange \/ Click
  BY <1>2 DEF Next
<1>3. ASSUME NEW c \in Conn, Send(c) \/ Serve(c) \/ GiveUp(c) PROVE UNCHANGED vars
  BY <1>3 DEF Send, Serve, GiveUp
<1>4. ASSUME NEW c \in Conn, Answer(c) PROVE Settles(c)
  <2>1. phase[c] = "done" /\ c \notin broken /\ Receive(c, out[c].status = 200, out[c])
    BY <1>4 DEF Answer, Store!Return
  <2>2. ~Free(c) /\ req[c] = Request(call[c])
    BY <2>1 DEF LinkInv
  <2>3. call[c].kind \in {"list", "get"} => AnswerFits(out[c], req[c])
    BY <2>1, <2>2, RequestFits DEF RequestInv
  <2>4. call[c].kind \in {"list", "get"} => AnswerFits(out[c], call[c])
    BY <2>2, <2>3, RequestFits DEF AnswerFits
  <2>5. (out[c].status = 200) \in BOOLEAN
    OBVIOUS
  <2> QED
    BY <2>1, <2>4, <2>5, ReceiveSettles
<1>5. ASSUME NEW c \in Conn, Break(c) PROVE Settles(c)
  BY <1>5, BrokenAnswer, ReceiveSettles DEF Break
<1> QED
  BY <1>1, <1>2, <1>3, <1>4, <1>5 DEF SystemNext, Progress, Next
-----------------------------------------------------------------------------
(* What the store holds, and what is on its way. *)

(* Handlers leave the fetches in flight alone. *)
LEMMA FetchesKept ==
  ASSUME TypeOK, HashChange \/ Click
  PROVE  \A b \in Conn : ~Free(b) => call'[b] = call[b]
<1> SUFFICES ASSUME NEW b \in Conn, ~Free(b) PROVE call'[b] = call[b]
  OBVIOUS
<1>1. call = [c \in Conn |-> call[c]]
  BY DEF TypeOK
<1>2. ASSUME NEW c \in Conn, NEW d, NEW f, FetchPosts(c, d, f), f = [e \in Conn |-> f[e]],
             f[b] = call[b]
      PROVE  call'[b] = call[b]
  BY <1>2 DEF FetchPosts, Free
<1>3. ASSUME NEW c \in Conn, NEW v, Free(c)
      PROVE  LET f == [call EXCEPT ![c] = v] IN f = [e \in Conn |-> f[e]] /\ f[b] = call[b]
  BY <1>1, <1>3 DEF Free
<1>4. CASE HashChange
  BY <1>1, <1>2, <1>3, <1>4 DEF HashChange, OnList, OnPost, OnElse, Get
<1>5. ASSUME NEW d, listPost(d) PROVE call'[b] = call[b]
  BY <1>1, <1>2, <1>5 DEF listPost
<1>6. ASSUME NEW d, newPost(d) PROVE call'[b] = call[b]
  BY <1>1, <1>2, <1>3, <1>6 DEF newPost
<1>7. CASE savePost
  BY <1>2, <1>3, <1>7 DEF savePost
<1>8. CASE DeletePost
  BY <1>2, <1>3, <1>8 DEF DeletePost
<1>9. CASE UNCHANGED call
  BY <1>9
<1> QED
  BY <1>4, <1>5, <1>6, <1>7, <1>8, <1>9
  DEF Click, ListClick, EditClick, PreviewClick, openPost, Type, previewPost, editPost, Navigate

LEMMA ReturnInv ==
  ASSUME StoreInv, RequestInv, NEW c \in Conn, Store!Return(c)
  PROVE  StoreInv' /\ RequestInv'
<1>1. /\ phase' = [phase EXCEPT ![c] = "idle"] /\ post' = post
      /\ \/ UNCHANGED <<req, out>>
         \/ /\ req' = [req EXCEPT ![c] = Store!NoRequest]
            /\ out' = [out EXCEPT ![c] = Store!Blank]
  BY DEF Store!Return, Store!Forget
<1> QED
  BY <1>1 DEF StoreInv, RequestInv

LEMMA StoreStep ==
  ASSUME Id = Nat \ {0}, SystemInv, [SystemNext]_systemVars
  PROVE  StoreInv' /\ RequestInv'
<1> USE DEF SystemInv
<1>1. CASE UNCHANGED store
  BY <1>1 DEF store, StoreInv, RequestInv
<1>2. ASSUME NEW c \in Conn, Send(c) PROVE StoreInv' /\ RequestInv'
  <2>1. Fits(Request(call[c]))
    BY <1>2, RequestFits DEF Send
  <2>2. /\ post' = post /\ req' = [req EXCEPT ![c] = Request(call[c])]
        /\ phase' = [phase EXCEPT ![c] = "pending"] /\ out' = [out EXCEPT ![c] = Store!Blank]
    BY <1>2 DEF Send, Store!Call
  <2> QED
    BY <2>1, <2>2 DEF StoreInv, RequestInv
<1>3. ASSUME NEW c \in Conn, Serve(c) PROVE StoreInv' /\ RequestInv'
  BY <1>3, ApplyInv DEF Serve
<1>4. ASSUME NEW c \in Conn, Answer(c) \/ GiveUp(c) PROVE StoreInv' /\ RequestInv'
  BY <1>4, ReturnInv DEF Answer, GiveUp
<1> QED
  BY <1>1, <1>2, <1>3, <1>4 DEF SystemNext, Progress, Break, systemVars

LEMMA LinkStep == SystemInv /\ [SystemNext]_systemVars => LinkInv'
<1> SUFFICES ASSUME SystemInv, [SystemNext]_systemVars PROVE LinkInv'
  OBVIOUS
<1> USE DEF SystemInv
<1>c. call = [c \in Conn |-> call[c]]
  BY DEF TypeOK
<1>f. ASSUME NEW c \in Conn, Receive(c, TRUE, out[c]) \/ Receive(c, FALSE, out[c])
                             \/ Receive(c, FALSE, Store!Blank)
      PROVE  Settle(c)
  BY <1>f DEF Receive, ListSettles, GetSettles, CreateSettles, SetSettles, DeleteSettles
<1>1. CASE UNCHANGED systemVars
  BY <1>1 DEF systemVars, vars, store, LinkInv, Free
<1>2. CASE (HashChange \/ Click) /\ UNCHANGED <<store, broken, breaks>>
  BY <1>2, FetchesKept DEF store, LinkInv, Free
<1>3. ASSUME NEW c \in Conn, Send(c) PROVE LinkInv'
  <2>1. /\ ~Free(c) /\ UNCHANGED <<call, broken>>
        /\ req' = [req EXCEPT ![c] = Request(call[c])] /\ phase' = [phase EXCEPT ![c] = "pending"]
    BY <1>3 DEF Send, Store!Call, vars
  <2> QED
    BY <2>1 DEF StoreInv, LinkInv, Free
<1>4. ASSUME NEW c \in Conn, Serve(c) PROVE LinkInv'
  <2>1. UNCHANGED <<call, broken, req>> /\ phase' = [phase EXCEPT ![c] = "done"] /\ phase[c] # "idle"
    BY <1>4 DEF Serve, Store!Apply, vars
  <2> QED
    BY <2>1 DEF StoreInv, LinkInv, Free
<1>5. ASSUME NEW c \in Conn, Answer(c) PROVE LinkInv'
  <2>1. /\ broken' = broken /\ phase' = [phase EXCEPT ![c] = "idle"]
        /\ req' = [req EXCEPT ![c] = Store!NoRequest]
    BY <1>5 DEF Answer, Store!Return, Store!Forget
  <2>2. Settle(c)
    <3>1. CASE out[c].status = 200
      BY <1>5, <1>f, <3>1 DEF Answer
    <3>2. CASE ~(out[c].status = 200)
      BY <1>5, <1>f, <3>2 DEF Answer
    <3> QED
      BY <3>1, <3>2
  <2> QED
    BY <1>c, <2>1, <2>2 DEF StoreInv, LinkInv, Settle, Free
<1>6. ASSUME NEW c \in Conn, Break(c) PROVE LinkInv'
  <2>1. Settle(c) /\ UNCHANGED <<phase, req>>
    BY <1>6, <1>f DEF Break, store
  <2>2. broken' = IF phase[c] = "idle" THEN broken ELSE broken \cup {c}
    BY <1>6 DEF Break
  <2> QED
    BY <1>c, <2>1, <2>2 DEF LinkInv, Settle, Free
<1>7. ASSUME NEW c \in Conn, GiveUp(c) PROVE LinkInv'
  <2>1. /\ UNCHANGED call /\ phase' = [phase EXCEPT ![c] = "idle"] /\ broken' = broken \ {c}
        /\ req' = [req EXCEPT ![c] = Store!NoRequest]
    BY <1>7 DEF GiveUp, Store!Return, Store!Forget, vars
  <2> QED
    BY <2>1 DEF StoreInv, LinkInv, Free
<1> QED
  BY <1>1, <1>2, <1>3, <1>4, <1>5, <1>6, <1>7 DEF SystemNext, Progress

LEMMA SystemInitInv == SystemInit => SystemInv
<1> SUFFICES ASSUME SystemInit PROVE SystemInv
  OBVIOUS
<1>1. TypeOK
  BY InitType DEF SystemInit
<1>2. TextInv
  BY InitText DEF SystemInit
<1>3. StoreInv
  <2>1. IsFiniteSet({}) /\ DOMAIN <<>> = {}
    BY FS_EmptySet
  <2>2. post = [d \in Dirs |-> IF d \in Dir THEN Stored[d] ELSE <<>>]
    BY DEF SystemInit, Dirs
  <2>3. PostsOK(post)
    BY <2>1, <2>2, StoredAssumption DEF PostsOK, Dirs
  <2> QED
    BY <2>3 DEF SystemInit, StoreInv
<1>4. RequestInv /\ LinkInv
  BY DEF SystemInit, RequestInv, LinkInv
<1>5. breaks \in Nat
  BY DEF SystemInit
<1> QED
  BY <1>1, <1>2, <1>3, <1>4, <1>5 DEF SystemInv
-----------------------------------------------------------------------------
(* The theorems need the ids never to run out: TLC's instance has as many as  *)
(* its clicks can use.                                                        *)

LEMMA SystemStep ==
  ASSUME Id = Nat \ {0}
  PROVE  SystemInv /\ [SystemNext]_systemVars => SystemInv'
<1> SUFFICES ASSUME SystemInv, [SystemNext]_systemVars PROVE SystemInv'
  OBVIOUS
<1>1. breaks' = breaks \/ breaks' = breaks + 1
  BY DEF SystemNext, Progress, Send, Serve, Answer, GiveUp, Break, systemVars
<1> QED
  BY <1>1, Simulates, NextType, TextStep, StoreStep, LinkStep DEF SystemInv

LEMMA SystemInvariant ==
  ASSUME Id = Nat \ {0}
  PROVE  SystemSpec => []SystemInv
  BY SystemStep, SystemInitInv, PTL DEF SystemSpec

(* With the store behind it the front end does what BlogApp says, and nothing *)
(* else: the store's answers are among those BlogApp reckons with, however    *)
(* they cross, so all that is proved of BlogApp holds of the system.          *)
THEOREM SystemImplementsApp ==
  ASSUME Id = Nat \ {0}
  PROVE  SystemSpec => Spec
<1>1. SystemInit => Init
  BY DEF SystemInit
<1> QED
  BY <1>1, Simulates, SystemInvariant, PTL DEF SystemSpec, Spec

(* What is proved of BlogApp, of the system.                                  *)
THEOREM SystemShowsAndSaves ==
  ASSUME Id = Nat \ {0}
  PROVE  SystemSpec => /\ [](RouteSettled /\ ShownIsRouted /\ SavesOwnText /\ PreviewShowsPost)
                       /\ WindsDown
  BY SystemImplementsApp, RouteSettledHolds, ShownIsRoutedHolds, SavesOwnTextHolds,
     PreviewShowsPostHolds, WindsDownHolds, PTL

(* No post of the store ever holds a text that was written for another, in    *)
(* whichever order saves, deletes and answers cross (app.component.ts:129).   *)
THEOREM NoCrossWriteHolds ==
  ASSUME Id = Nat \ {0}
  PROVE  SystemSpec => []NoCrossWrite
<1>1. SystemInv => NoCrossWrite
  <2> SUFFICES ASSUME SystemInv, NEW d \in Dir, NEW i \in DOMAIN post[d]
               PROVE  post[d][i] \in Own(d, i)
    BY DEF NoCrossWrite
  <2>1. d \in Dir \cup {NoDir} /\ i \in Id \cup {0} /\ post[d][i] \in Texts(d, i)
    BY DEF SystemInv, StoreInv, PostsOK, Dirs
  <2> QED
    BY <2>1, OwnTexts
<1> QED
  BY <1>1, SystemInvariant, PTL
-----------------------------------------------------------------------------
(* At rest, what is shown is what the store has.  The strengthening says what *)
(* the answer to the newest fetch is worth once the server has given it, and  *)
(* what the list and the post of the URL are worth once it has been received. *)

(* A directory that is not there has no posts. *)
DirsInv == \A d \in Dirs : d \notin dirs => DOMAIN post[d] = {}

CleanInv == (cleanList => ~Relisting) /\ (cleanPost => ~Rewriting)

(* The fetch on c has been answered, and nobody has received the answer. *)
Back(c) == c # NoConn /\ c \notin broken /\ phase[c] = "done"

Listing(a) == IF a.status = 200 /\ a.open = "[" THEN a.names ELSE {}

ListAnswer ==
  Back(lastList) /\ cleanList => Listing(out[lastList]) = DOMAIN post[call[lastList].dir]

PostAnswer ==
  Back(lastGet) /\ cleanPost /\ out[lastGet].status = 200 /\ call[lastGet].id # 0 =>
    LET k == call[lastGet] IN
    k.id \in DOMAIN post[k.dir] /\ out[lastGet].text = post[k.dir][k.id]

ListShown ==
  events = 0 /\ Routed(hash) /\ hash.view = "list" =>
    IF lastList = NoConn THEN listNewest /\ cleanList => posts = DOMAIN post[hash.dir]
                         ELSE call[lastList].dir = hash.dir

PostShown ==
  /\ events = 0 /\ Routed(hash) /\ hash.view # "list" /\ hash.id # 0
  /\ lastGet = NoConn /\ postNewest /\ cleanPost
  => hash.id \in DOMAIN post[hash.dir] /\ currentPost.content = post[hash.dir][hash.id]

FreshInv == DirsInv /\ CleanInv /\ ListAnswer /\ PostAnswer /\ ListShown /\ PostShown

(* What serving a request leaves as it was: the names, unless it creates or   *)
(* deletes, and the texts, unless it saves or deletes.                        *)
LEMMA NamesKept ==
  ASSUME StoreInv, NEW c \in Conn, Store!Apply(c), req[c].method \notin {"POST", "DELETE"},
         NEW d
  PROVE  d \in Dirs => DOMAIN post'[d] = DOMAIN post[d]
<1>1. post = [e \in Dirs |-> post[e]]
  BY DEF StoreInv, PostsOK
<1>2. CASE UNCHANGED post
  BY <1>2
<1>3. CASE req[c].id \in DOMAIN post[req[c].dir] /\ Store!Put(req[c].dir, req[c].id, req[c].body)
  BY <1>1, <1>3 DEF Store!Put
<1> QED
  BY <1>2, <1>3 DEF Store!Apply, Store!Get, Store!Update, Store!Fail

LEMMA TextsKept ==
  ASSUME Id = Nat \ {0}, StoreInv, RequestInv, NEW c \in Conn, Store!Apply(c),
         req[c].method \notin {"PUT", "DELETE"}, NEW d \in Dirs, NEW i \in DOMAIN post[d]
  PROVE  i \in DOMAIN post'[d] /\ post'[d][i] = post[d][i]
<1>1. post = [e \in Dirs |-> post[e]] /\ Fits(req[c])
  BY DEF StoreInv, PostsOK, RequestInv, Store!Apply
<1>2. CASE UNCHANGED post
  BY <1>2
<1>3. CASE Store!Post(c, req[c].dir, req[c].body)
  <2>1. Store!FreshId(req[c].dir) \notin DOMAIN post[req[c].dir]
    BY <1>1, FreshIdType DEF Fits
  <2> HIDE DEF Store!FreshId
  <2> QED
    BY <1>1, <1>3, <2>1 DEF Store!Post, Store!Put
<1> QED
  BY <1>2, <1>3 DEF Store!Apply, Store!Get, Store!Fail

(* What a get is answered with: the names of the posts there are, which a     *)
(* missing directory and an empty one have none of, or the post's text.       *)
LEMMA GetAnswered ==
  ASSUME Id = Nat \ {0}, StoreInv, RequestInv, DirsInv, NEW c \in Conn, Store!Apply(c),
         req[c].method = "GET"
  PROVE  LET r == req[c] IN
         /\ UNCHANGED <<dirs, post>>
         /\ r.id = 0 => Listing(out'[c]) = DOMAIN post[r.dir]
         /\ r.id # 0 /\ out'[c].status = 200 =>
              r.id \in DOMAIN post[r.dir] /\ out'[c].text = post[r.dir][r.id]
<1> DEFINE r == req[c]
<1>1. Fits(r) /\ PostsOK(post) /\ out = [e \in Conn |-> out[e]]
  BY DEF RequestInv, StoreInv, Store!Apply
<1>2. Store!Get(c, r.dir, r.id)
  BY DEF Store!Apply
<1>3. 0 \notin DOMAIN post[r.dir]
  BY <1>1 DEF Fits, PostsOK
<1>4. CASE r.id = 0 /\ r.dir \in dirs
  <2> DEFINE a == Store!Ok([Store!Blank EXCEPT !.names = DOMAIN post[r.dir],
                              !.open = IF DOMAIN post[r.dir] = {} THEN "" ELSE "["])
  <2>1. Store!Answer(c, a) /\ UNCHANGED <<dirs, post>>
    BY <1>2, <1>3, <1>4 DEF Store!Get, Store!Exists
  <2>2. Listing(a) = DOMAIN post[r.dir]
    BY DEF Store!Ok, Store!Blank, Listing
  <2>3. out'[c] = a
    BY <1>1, <2>1 DEF Store!Answer
  <2> QED
    BY <1>4, <2>1, <2>2, <2>3
<1>5. CASE r.id \in DOMAIN post[r.dir]
  <2> DEFINE a == Store!Ok([Store!Blank EXCEPT !.text = post[r.dir][r.id]])
  <2>1. r.id # 0 /\ Store!Answer(c, a) /\ UNCHANGED <<dirs, post>>
    BY <1>2, <1>3, <1>5 DEF Store!Get, Store!Exists
  <2>2. a.text = post[r.dir][r.id]
    BY DEF Store!Ok, Store!Blank
  <2>3. out'[c] = a
    BY <1>1, <2>1 DEF Store!Answer
  <2> QED
    BY <1>5, <2>1, <2>2, <2>3
<1>6. CASE ~Store!Exists(r.dir, r.id)
  <2>1. Store!Fail(c)
    BY <1>2, <1>6 DEF Store!Get, Store!Exists
  <2>2. out'[c].status = 404 /\ UNCHANGED <<dirs, post>>
    BY <1>1, <2>1 DEF Store!Fail, Store!Answer, Store!Blank
  <2>3. r.id = 0 => DOMAIN post[r.dir] = {}
    BY <1>1, <1>6 DEF Store!Exists, DirsInv, Fits
  <2> QED
    BY <2>2, <2>3 DEF Listing
<1> QED
  BY <1>4, <1>5, <1>6 DEF Store!Exists

LEMMA DirsStep ==
  ASSUME Id = Nat \ {0}, SystemInv, DirsInv, SystemNext
  PROVE  DirsInv'
<1> USE DEF SystemInv
<1>1. CASE UNCHANGED <<dirs, post>>
  BY <1>1 DEF DirsInv
<1>2. ASSUME NEW c \in Conn, Serve(c) PROVE DirsInv'
  <2> DEFINE r == req[c]
  <2>1. Store!Apply(c) /\ Fits(r) /\ post = [e \in Dirs |-> post[e]]
    BY <1>2 DEF Serve, Store!Apply, RequestInv, StoreInv, PostsOK
  <2>2. CASE r.method = "POST"
    BY <2>1, <2>2 DEF Store!Apply, Store!Post, Store!Put, Fits, DirsInv
  <2>3. CASE r.method = "DELETE"
    <3>1. Store!Delete(c, r.dir, r.id)
      BY <2>1, <2>3 DEF Store!Apply
    <3> QED
      BY <2>1, <3>1 DEF Store!Delete, Store!Fail, Fits, DirsInv
  <2>4. CASE r.method \notin {"POST", "DELETE"}
    <3>1. dirs' = dirs
      BY <2>1, <2>4 DEF Store!Apply, Store!Get, Store!Update, Store!Fail
    <3> QED
      BY <2>1, <2>4, <3>1, NamesKept DEF DirsInv
  <2> QED
    BY <2>2, <2>3, <2>4
<1>3. UNCHANGED <<dirs, post>> \/ \E c \in Conn : Serve(c)
  BY DEF SystemNext, Progress, Send, Store!Call, Answer, GiveUp, Store!Return, Break, store
<1> QED
  BY <1>1, <1>2, <1>3

LEMMA CleanStep == SystemNext => CleanInv'
  BY DEF SystemNext, Record, CleanInv

(* A fetch that is newest and in flight is one, or the newest is a new one. *)
LEMMA NewestSent ==
  ASSUME TypeOK, HashChange \/ Click
  PROVE  /\ lastList' = lastList \/ (lastList' \in Conn /\ Free(lastList'))
         /\ lastGet' = lastGet \/ lastGet' = NoConn \/ (lastGet' \in Conn /\ Free(lastGet'))
<1>1. CASE HashChange
  BY <1>1 DEF HashChange, OnList, FetchPosts, OnPost, OnElse, Get, list, got
<1>2. CASE Click
  BY <1>2 DEF Click, ListClick, EditClick, PreviewClick, listPost, newPost, FetchPosts, openPost, Type,
     previewPost, savePost, DeletePost, editPost, Navigate, list, got
<1> QED
  BY <1>1, <1>2

(* What the settling of c leaves alone. *)
LEMMA Received ==
  ASSUME TypeOK, NEW c \in Conn, NEW ok \in BOOLEAN, NEW r, Receive(c, ok, r)
  PROVE  /\ Settle(c)
         /\ lastList' = IF lastList = c THEN NoConn ELSE lastList
         /\ lastGet' = IF lastGet = c THEN NoConn ELSE lastGet
<1>1. CASE ListSettles(c, ok /\ r.open = "[", r.names)
  BY <1>1, ConnAssumption DEF ListSettles, TypeOK, got
<1>2. CASE GetSettles(c, ok, r.text)
  BY <1>2, ConnAssumption DEF GetSettles, TypeOK, list
<1>3. CASE CreateSettles(c, ok) \/ SetSettles(c) \/ DeleteSettles(c, ok)
  BY <1>3, ConnAssumption DEF CreateSettles, SetSettles, DeleteSettles, TypeOK, list, got
<1> QED
  BY <1>1, <1>2, <1>3 DEF Receive

(* What becomes of an answer nobody has received yet, over every step: if it  *)
(* is one after the step, it was before and is the same, or the step serves   *)
(* the request.                                                               *)
LEMMA BackStep ==
  ASSUME SystemInv, SystemNext, NEW c \in Conn, Back(c)', c \in {lastList', lastGet'}
  PROVE  /\ c = lastList' => c = lastList
         /\ c = lastGet' => c = lastGet
         /\ call'[c] = call[c] /\ c \notin broken
         /\ (Back(c) /\ out'[c] = out[c]) \/ Serve(c)
<1> USE DEF SystemInv
<1>c. phase = [b \in Conn |-> phase[b]] /\ out = [b \in Conn |-> out[b]] /\ c # NoConn
  BY ConnAssumption DEF StoreInv
<1>1. CASE (HashChange \/ Click) /\ UNCHANGED <<store, broken, breaks>>
  <2>1. Back(c) /\ out'[c] = out[c] /\ c \notin broken
    BY <1>1 DEF Back, store
  <2>2. ~Free(c)
    BY <2>1 DEF Back, LinkInv
  <2> QED
    BY <1>1, <1>c, <2>1, <2>2, NewestSent, FetchesKept
<1>2. ASSUME NEW b \in Conn, Send(b) \/ Serve(b) \/ GiveUp(b)
      PROVE  /\ UNCHANGED vars /\ c \notin broken
             /\ (Back(c) /\ out'[c] = out[c]) \/ Serve(c)
  <2>1. CASE Send(b)
    BY <1>c, <2>1 DEF Send, Store!Call, Back
  <2>2. CASE Serve(b)
    <3>1. PICK a : out' = [out EXCEPT ![b] = a]
      BY <2>2 DEF Serve, Store!Apply, Store!Get, Store!Post, Store!Update, Store!Delete, Store!Fail, Store!Answer
    <3>2. UNCHANGED <<vars, broken>> /\ phase' = [phase EXCEPT ![b] = "done"]
      BY <2>2 DEF Serve, Store!Apply
    <3> QED
      BY <1>c, <2>2, <3>1, <3>2 DEF Back
  <2>3. CASE GiveUp(b)
    BY <1>c, <2>3 DEF GiveUp, Store!Return, Store!Forget, Back
  <2> QED
    BY <1>2, <2>1, <2>2, <2>3
<1>3. ASSUME NEW b \in Conn, NEW ok \in BOOLEAN, NEW r, Receive(b, ok, r), c # b => Back(c) /\ out'[c] = out[c]
      PROVE  /\ c = lastList' => c = lastList
             /\ c = lastGet' => c = lastGet
             /\ call'[c] = call[c] /\ c \notin broken
             /\ Back(c) /\ out'[c] = out[c]
  <2>1. c # b /\ (c = lastList' => c = lastList) /\ (c = lastGet' => c = lastGet)
    BY <1>3, <1>c, Received
  <2> QED
    BY <1>3, <2>1, Received, SettleType DEF Back
<1>4. ASSUME NEW b \in Conn, Answer(b)
      PROVE  (\E ok \in BOOLEAN : \E r : Receive(b, ok, r)) /\ (c # b => Back(c) /\ out'[c] = out[c])
  <2>1. (out[b].status = 200) \in BOOLEAN /\ Receive(b, out[b].status = 200, out[b])
    BY <1>4 DEF Answer
  <2>2. c # b => Back(c) /\ out'[c] = out[c]
    BY <1>4, <1>c DEF Answer, Store!Return, Store!Forget, Back
  <2> HIDE DEF Receive
  <2> QED
    BY <2>1, <2>2
<1>5. ASSUME NEW b \in Conn, Break(b)
      PROVE  (\E ok \in BOOLEAN : \E r : Receive(b, ok, r)) /\ (c # b => Back(c) /\ out'[c] = out[c])
  BY <1>5, <1>c DEF Break, Back, store
<1> QED
  BY <1>1, <1>2, <1>3, <1>4, <1>5 DEF SystemNext, Progress, vars

(* While no fetch is sent, clean can only get lost. *)
LEMMA CleanKept ==
  ASSUME SystemNext
  PROVE  /\ lastList' \in {lastList, NoConn} => (cleanList' => cleanList)
         /\ lastGet' \in {lastGet, NoConn} => (cleanPost' => cleanPost)
  BY DEF SystemNext, Record

(* While it is clean, the store keeps what was fetched. *)
LEMMA StoreKept ==
  ASSUME Id = Nat \ {0}, SystemInv, CleanInv, SystemNext, NEW d \in Dirs
  PROVE  /\ cleanList => DOMAIN post'[d] = DOMAIN post[d]
         /\ cleanPost => \A i \in DOMAIN post[d] : i \in DOMAIN post'[d] /\ post'[d][i] = post[d][i]
<1>1. CASE UNCHANGED post
  BY <1>1
<1>2. ASSUME NEW c \in Conn, Serve(c)
      PROVE  /\ cleanList => DOMAIN post'[d] = DOMAIN post[d]
             /\ cleanPost => \A i \in DOMAIN post[d] : i \in DOMAIN post'[d] /\ post'[d][i] = post[d][i]
  <2>1. Store!Apply(c) /\ phase[c] # "idle"
    BY <1>2 DEF Serve, Store!Apply
  <2>2. /\ cleanList => req[c].method \notin {"POST", "DELETE"}
        /\ cleanPost => req[c].method \notin {"PUT", "DELETE"}
    BY <2>1 DEF CleanInv, Relisting, Rewriting, UnderWay
  <2> QED
    BY <2>1, <2>2, NamesKept, TextsKept DEF SystemInv
<1>3. UNCHANGED post \/ \E c \in Conn : Serve(c)
  BY DEF SystemNext, Progress, Send, Store!Call, Answer, GiveUp, Store!Return, Break, store
<1> QED
  BY <1>1, <1>2, <1>3

LEMMA ListAnswerStep ==
  ASSUME Id = Nat \ {0}, SystemInv, TypeOK', FreshInv, SystemNext
  PROVE  ListAnswer'
<1> SUFFICES ASSUME NEW c, c = lastList', Back(c)', cleanList'
             PROVE  Listing(out'[c]) = DOMAIN post'[call'[c].dir]
  BY DEF ListAnswer, Back, Listing
<1> DEFINE k == call[c]
<1>1. c \in Conn
  BY DEF TypeOK, Back
<1>2. /\ c = lastList /\ call'[c] = k /\ c \notin broken
      /\ (Back(c) /\ out'[c] = out[c]) \/ Serve(c)
  BY <1>1, BackStep
<1>3. cleanList
  BY <1>2, CleanKept
<1>4. k.kind = "list" /\ k.dir \in Dirs /\ k.id = 0
  BY <1>1, <1>2, ConnAssumption DEF SystemInv, TypeOK, Calls, TextInv, Kept, Dirs
<1>5. CASE Back(c) /\ out'[c] = out[c]
  BY <1>2, <1>3, <1>4, <1>5, StoreKept DEF FreshInv, ListAnswer, Listing
<1>6. CASE Serve(c)
  <2>1. phase[c] # "idle" /\ Store!Apply(c)
    BY <1>6 DEF Serve, Store!Apply
  <2>2. req[c] = Request(k) /\ ~Free(c)
    BY <1>1, <1>2, <2>1 DEF SystemInv, LinkInv
  <2>3. req[c].method = "GET" /\ req[c].dir = k.dir /\ req[c].id = 0
    BY <1>1, <1>2, <1>4, <2>2, RequestFits DEF SystemInv
  <2> QED
    BY <1>1, <1>2, <2>1, <2>3, GetAnswered DEF SystemInv, FreshInv, Listing
<1> QED
  BY <1>2, <1>5, <1>6

LEMMA PostAnswerStep ==
  ASSUME Id = Nat \ {0}, SystemInv, TypeOK', FreshInv, SystemNext
  PROVE  PostAnswer'
<1> SUFFICES ASSUME NEW c, c = lastGet', Back(c)', cleanPost', out'[c].status = 200, call'[c].id # 0
             PROVE  /\ call'[c].id \in DOMAIN post'[call'[c].dir]
                    /\ out'[c].text = post'[call'[c].dir][call'[c].id]
  BY DEF PostAnswer, Back
<1> DEFINE k == call[c]
<1>1. c \in Conn
  BY DEF TypeOK, Back
<1>2. /\ c = lastGet /\ call'[c] = k /\ c \notin broken
      /\ (Back(c) /\ out'[c] = out[c]) \/ Serve(c)
  BY <1>1, BackStep
<1>3. cleanPost
  BY <1>2, CleanKept
<1>4. k.kind = "get" /\ k.dir \in Dirs /\ k.id # 0
  BY <1>1, <1>2, ConnAssumption DEF SystemInv, TypeOK, Calls, Dirs
<1>5. CASE Back(c) /\ out'[c] = out[c]
  BY <1>2, <1>3, <1>4, <1>5, StoreKept DEF FreshInv, PostAnswer
<1>6. CASE Serve(c)
  <2>1. phase[c] # "idle" /\ Store!Apply(c)
    BY <1>6 DEF Serve, Store!Apply
  <2>2. req[c] = Request(k) /\ ~Free(c)
    BY <1>1, <1>2, <2>1 DEF SystemInv, LinkInv
  <2>3. req[c].method = "GET" /\ req[c].dir = k.dir /\ req[c].id = k.id
    BY <1>1, <1>2, <1>4, <2>2, RequestFits DEF SystemInv
  <2> QED
    BY <1>1, <1>2, <1>4, <2>1, <2>3, GetAnswered DEF SystemInv, FreshInv
<1> QED
  BY <1>2, <1>5, <1>6

(* What is shown stays what the store has, as long as the URL stays, or an    *)
(* event is queued for the new one.                                           *)
LEMMA ListKept ==
  ASSUME Id = Nat \ {0}, SystemInv, FreshInv, SystemNext, UNCHANGED list,
         UNCHANGED <<hash, events>> \/ \E h \in Hash : Goto(h),
         lastList # NoConn => call'[lastList] = call[lastList]
  PROVE  ListShown'
<1>1. UNCHANGED <<hash, events>> \/ events' # 0
  BY DEF SystemInv, TypeOK, Goto, Assign
<1>2. cleanList' => cleanList
  BY CleanKept DEF list
<1>3. Routed(hash) => hash.dir \in Dirs
  BY DirAssumption DEF Routed, Dirs
<1> QED
  BY <1>1, <1>2, <1>3, StoreKept DEF FreshInv, ListShown, list, Routed

LEMMA PostKept ==
  ASSUME Id = Nat \ {0}, SystemInv, FreshInv, SystemNext, UNCHANGED got,
         UNCHANGED <<hash, events>> \/ \E h \in Hash : Goto(h),
         cleanPost' => UNCHANGED currentPost
  PROVE  PostShown'
<1>1. UNCHANGED <<hash, events>> \/ events' # 0
  BY DEF SystemInv, TypeOK, Goto, Assign
<1>2. cleanPost' => cleanPost
  BY CleanKept DEF got
<1>3. Routed(hash) => hash.dir \in Dirs
  BY DirAssumption DEF Routed, Dirs
<1> QED
  BY <1>1, <1>2, <1>3, StoreKept DEF FreshInv, PostShown, got, Routed

(* The browser's own steps. *)
LEMMA ListHandled ==
  ASSUME Id = Nat \ {0}, SystemInv, RouteSettled, FreshInv, SystemNext, HashChange \/ Click
  PROVE  ListShown'
<1> USE DEF SystemInv
<1>c. /\ currentPost.directory \in Dirs /\ currentPost.postid \in Id \cup {0}
      /\ directory \in Dirs /\ posts \subseteq Id /\ call = [b \in Conn |-> call[b]]
  BY DEF TypeOK, Post, Dirs
<1>f. lastList # NoConn => call'[lastList] = call[lastList]
  BY FetchesKept DEF TypeOK, Free
<1>1. ASSUME UNCHANGED list, UNCHANGED <<hash, events>> \/ \E h \in Hash : Goto(h)
      PROVE  ListShown'
  BY <1>1, <1>f, ListKept
<1>2. ASSUME NEW c \in Conn, NEW d \in Dirs, NEW f, f = [b \in Conn |-> f[b]],
             FetchPosts(c, d, f), Routed(hash') /\ hash'.view = "list" => hash'.dir = d
      PROVE  ListShown'
  <2>1. call'[c].dir = d /\ lastList' = c /\ c # NoConn
    BY <1>2, ConnAssumption DEF FetchPosts, fetchPosts, Call
  <2> QED
    BY <1>2, <2>1 DEF ListShown
<1>3. CASE HashChange
  <2>1. CASE OnList
    <3>1. Routed(hash) /\ hash' = hash /\ hash.dir \in Dirs
      BY <2>1, DirAssumption DEF OnList, Routed, Dirs
    <3> QED
      BY <1>2, <1>c, <2>1, <3>1 DEF OnList
  <2>2. CASE OnPost
    BY <2>2 DEF OnPost, ListShown
  <2>3. CASE OnElse
    <3>1. ~Routed(hash') /\ hash' = Home
      BY <2>3, Assigned DEF OnElse, Assign, Dirs, TypeOK
    <3> QED
      BY <3>1 DEF ListShown
  <2> QED
    BY <1>3, <2>1, <2>2, <2>3 DEF HashChange
<1>4. CASE Click
  <2>1. ASSUME NEW dir \in Dirs, listPost(dir) PROVE ListShown'
    <3>1. hash'.dir = dir
      BY <2>1, Assigned DEF listPost, Goto, Assign, Dirs
    <3> QED
      BY <1>2, <1>c, <2>1, <3>1 DEF listPost
  <2>2. ASSUME NEW dir \in Dirs, newPost(dir) PROVE ListShown'
    <3>1. hash'.dir = dir
      BY <2>2, Assigned DEF newPost, Goto, Assign, Dirs
    <3>2. PICK c \in Conn, f \in {call} \cup {[call EXCEPT ![b] = createPost(dir)] : b \in Conn} :
            FetchPosts(c, dir, f)
      BY <2>2 DEF newPost
    <3>3. f = [b \in Conn |-> f[b]]
      BY <1>c
    <3> QED
      BY <1>2, <3>1, <3>2, <3>3
  <2>3. CASE savePost \/ DeletePost
    <3>1. UNCHANGED <<hash, events>> /\ appState = "edit"
      BY <2>3 DEF savePost, DeletePost
    <3> QED
      BY <3>1, Assigned DEF RouteSettled, ListShown, Routed, TypeOK, Home, Path
  <2>4. ASSUME NEW p \in posts, openPost(p) PROVE ListShown'
    <3>1. Path("edit", directory, p) \in Hash
      BY <1>c, Assigned DEF Dirs
    <3> QED
      BY <1>1, <2>4, <3>1 DEF openPost
  <2>5. CASE previewPost \/ editPost
    <3>1. \A v \in {"edit", "preview"} : Path(v, currentPost.directory, currentPost.postid) \in Hash
      BY <1>c, Assigned DEF Dirs
    <3> QED
      BY <1>1, <2>5, <3>1 DEF previewPost, editPost
  <2>6. ASSUME NEW h \in Typed, Navigate(h) PROVE ListShown'
    BY <1>1, <2>6, TypedAssumption DEF Navigate
  <2>7. CASE Type
    BY <1>1, <2>7 DEF Type
  <2> QED
    BY <1>4, <2>1, <2>2, <2>3, <2>4, <2>5, <2>6, <2>7 DEF Click, ListClick, EditClick, PreviewClick, Dirs
<1> QED
  BY <1>3, <1>4

LEMMA PostHandled ==
  ASSUME Id = Nat \ {0}, SystemInv, FreshInv, SystemNext, HashChange \/ Click
  PROVE  PostShown'
<1> USE DEF SystemInv
<1>c. /\ currentPost.directory \in Dirs /\ currentPost.postid \in Id \cup {0}
      /\ directory \in Dirs /\ posts \subseteq Id
  BY DEF TypeOK, Post, Dirs
<1>1. ASSUME UNCHANGED <<currentPost, got>>, UNCHANGED <<hash, events>> \/ \E h \in Hash : Goto(h)
      PROVE  PostShown'
  BY <1>1, PostKept
<1>2. CASE HashChange
  <2>1. CASE OnList
    BY <2>1 DEF OnList, PostShown
  <2>2. CASE OnPost
    BY <2>2, ConnAssumption DEF OnPost, Get, PostShown
  <2>3. CASE OnElse
    <3>1. ~Routed(hash') /\ hash' = Home
      BY <2>3, Assigned DEF OnElse, Assign, Dirs, TypeOK
    <3> QED
      BY <3>1 DEF PostShown
  <2> QED
    BY <1>2, <2>1, <2>2, <2>3 DEF HashChange
<1>3. CASE Click
  <2>1. ASSUME NEW dir \in Dirs, listPost(dir) \/ newPost(dir) PROVE PostShown'
    BY <1>1, <2>1, Assigned DEF listPost, newPost, view, Dirs
  <2>2. CASE savePost \/ DeletePost
    BY <1>1, <2>2 DEF savePost, DeletePost, view
  <2>3. ASSUME NEW p \in posts, openPost(p) PROVE PostShown'
    <3>1. Path("edit", directory, p) \in Hash
      BY <1>c, Assigned DEF Dirs
    <3> QED
      BY <1>1, <2>3, <3>1 DEF openPost, view
  <2>4. CASE previewPost \/ editPost
    <3>1. \A v \in {"edit", "preview"} : Path(v, currentPost.directory, currentPost.postid) \in Hash
      BY <1>c, Assigned DEF Dirs
    <3> QED
      BY <1>1, <2>4, <3>1 DEF previewPost, editPost, view
  <2>5. ASSUME NEW h \in Typed, Navigate(h) PROVE PostShown'
    BY <1>1, <2>5, TypedAssumption DEF Navigate, view
  <2>6. CASE Type
    <3>1. acts' # acts
      BY <2>6 DEF Type, Act, TypeOK
    <3>2. cleanPost' => UNCHANGED currentPost
      BY <3>1 DEF SystemNext, Record, WasTyped
    <3> QED
      BY <2>6, <3>2, PostKept DEF Type
  <2> QED
    BY <1>3, <2>1, <2>2, <2>3, <2>4, <2>5, <2>6 DEF Click, ListClick, EditClick, PreviewClick, Dirs
<1> QED
  BY <1>2, <1>3

(* An answer, or a break, is received. *)
LEMMA ListReceived ==
  ASSUME Id = Nat \ {0}, SystemInv, FreshInv, SystemNext, UNCHANGED post,
         NEW c \in Conn, NEW ok \in BOOLEAN, NEW r, Receive(c, ok, r),
         cleanList' => Back(c) /\ r = out[c] /\ (ok <=> out[c].status = 200)
  PROVE  ListShown'
<1> USE DEF SystemInv
<1>h. Home \in Hash /\ Listed(call[c].dir) \in Hash
  BY Assigned DEF TypeOK, Calls
<1>c. /\ lastList # NoConn /\ lastList # c => call'[lastList] = call[lastList]
      /\ lastList' \in {lastList, NoConn} /\ (cleanList' => cleanList)
  BY Received, SettleType, CleanKept DEF TypeOK
<1>1. CASE ListSettles(c, ok /\ r.open = "[", r.names)
  <2>1. CASE lastList = c
    <3>1. /\ lastList' = NoConn /\ c # NoConn /\ UNCHANGED <<hash, events>>
          /\ cleanList' => posts' = Listing(out[c])
      BY <1>1, <2>1, ConnAssumption DEF ListSettles, Listing
    <3>2. events = 0 /\ Routed(hash) /\ hash.view = "list" => call[c].dir = hash.dir
      BY <2>1, <3>1 DEF FreshInv, ListShown
    <3>3. cleanList' => Listing(out[c]) = DOMAIN post[call[c].dir]
      BY <1>c, <2>1 DEF FreshInv, ListAnswer
    <3> QED
      BY <3>1, <3>2, <3>3 DEF ListShown
  <2>2. CASE lastList # c
    <3>1. UNCHANGED <<hash, events, lastList>> /\ ~listNewest'
      BY <1>1, <2>2 DEF ListSettles
    <3> QED
      BY <1>c, <2>2, <3>1 DEF FreshInv, ListShown
  <2> QED
    BY <2>1, <2>2
<1>2. CASE GetSettles(c, ok, r.text) \/ CreateSettles(c, ok) \/ SetSettles(c) \/ DeleteSettles(c, ok)
  <2>1. UNCHANGED list /\ (UNCHANGED <<hash, events>> \/ \E h \in Hash : Goto(h))
    BY <1>2, <1>h DEF GetSettles, CreateSettles, SetSettles, DeleteSettles
  <2>2. lastList # c
    BY <1>2, ConnAssumption DEF TypeOK, GetSettles, CreateSettles, SetSettles, DeleteSettles
  <2> QED
    BY <1>c, <2>1, <2>2, ListKept
<1> QED
  BY <1>1, <1>2 DEF Receive

LEMMA PostReceived ==
  ASSUME Id = Nat \ {0}, SystemInv, GetInv, FreshInv, SystemNext, UNCHANGED post,
         NEW c \in Conn, NEW ok \in BOOLEAN, NEW r, Receive(c, ok, r),
         ok => Back(c) /\ r = out[c] /\ out[c].status = 200
  PROVE  PostShown'
<1> USE DEF SystemInv
<1>h. Home \in Hash /\ ~Routed(Home) /\ Listed(call[c].dir) \in Hash
      /\ Listed(call[c].dir).view = "list"
  BY Assigned DEF TypeOK, Calls
<1>c. lastGet' \in {lastGet, NoConn} /\ (cleanPost' => cleanPost)
  BY Received, CleanKept
<1>1. CASE GetSettles(c, ok, r.text)
  <2>1. CASE ~ok
    BY <1>1, <1>h, <2>1 DEF GetSettles, Goto, Assign, PostShown
  <2>2. CASE ok /\ lastGet # c
    BY <1>1, <2>2 DEF GetSettles, PostShown
  <2>3. CASE ok /\ lastGet = c
    <3>1. UNCHANGED <<hash, events>> /\ c # NoConn /\ currentPost'.content = out[c].text
      BY <1>1, <2>3, ConnAssumption DEF GetSettles, Display, Loaded, MdPost
    <3>2. events = 0 /\ Routed(hash) /\ hash.view # "list" => call[c].dir = hash.dir /\ call[c].id = hash.id
      BY <2>3, <3>1 DEF GetInv
    <3>3. cleanPost' /\ call[c].id # 0 => /\ call[c].id \in DOMAIN post[call[c].dir]
                                        /\ out[c].text = post[call[c].dir][call[c].id]
      BY <1>c, <2>3 DEF FreshInv, PostAnswer
    <3> QED
      BY <3>1, <3>2, <3>3 DEF PostShown
  <2> QED
    BY <2>1, <2>2, <2>3
<1>2. CASE ListSettles(c, ok /\ r.open = "[", r.names) \/ CreateSettles(c, ok) \/ SetSettles(c)
  BY <1>2, <1>h, PostKept DEF ListSettles, CreateSettles, SetSettles, view
<1>3. CASE DeleteSettles(c, ok)
  <2>1. CASE ok
    BY <1>3, <1>h, <2>1 DEF DeleteSettles, Goto, Assign, PostShown
  <2>2. CASE ~ok
    BY <1>3, <2>2, PostKept DEF DeleteSettles, view
  <2> QED
    BY <2>1, <2>2
<1> QED
  BY <1>1, <1>2, <1>3 DEF Receive

LEMMA ShownStep ==
  ASSUME Id = Nat \ {0}, SystemInv, RouteSettled, GetInv, FreshInv, SystemNext
  PROVE  ListShown' /\ PostShown'
<1>1. CASE HashChange \/ Click
  BY <1>1, ListHandled, PostHandled
<1>2. ASSUME NEW c \in Conn, Send(c) \/ Serve(c) \/ GiveUp(c) PROVE ListShown' /\ PostShown'
  <2>1. UNCHANGED vars
    BY <1>2 DEF Send, Serve, GiveUp
  <2> QED
    BY <2>1, ListKept, PostKept DEF vars, list, got
<1>3. ASSUME NEW c \in Conn, Answer(c) PROVE ListShown' /\ PostShown'
  <2> DEFINE ok == out[c].status = 200
  <2>1. Receive(c, ok, out[c]) /\ UNCHANGED post /\ Back(c)
    BY <1>3, ConnAssumption DEF Answer, Store!Return, Back
  <2>2. ok \in BOOLEAN /\ (ok <=> out[c].status = 200)
    OBVIOUS
  <2> HIDE DEF ok
  <2> QED
    BY <2>1, <2>2, ListReceived, PostReceived
<1>4. ASSUME NEW c \in Conn, Break(c) PROVE ListShown' /\ PostShown'
  <2>1. Receive(c, FALSE, Store!Blank) /\ UNCHANGED post /\ breaks' = breaks + 1
    BY <1>4 DEF Break, store
  <2>2. ~cleanList'
    <3>1. breaks' # breaks
      BY <2>1 DEF SystemInv
    <3> QED
      BY <3>1 DEF SystemNext, Record
  <2>3. ListShown'
    BY <2>1, <2>2, ListReceived
  <2>4. PostShown'
    BY <2>1, PostReceived
  <2> QED
    BY <2>3, <2>4
<1> QED
  BY <1>1, <1>2, <1>3, <1>4 DEF SystemNext, Progress

LEMMA FreshInit == SystemInit => GetInv /\ RouteSettled /\ FreshInv
<1> SUFFICES ASSUME SystemInit PROVE GetInv /\ RouteSettled /\ FreshInv
  OBVIOUS
<1>1. GetInv /\ RouteSettled /\ ListShown /\ PostShown
  BY DEF SystemInit, Init, GetInv, RouteSettled, ListShown, PostShown
<1>2. CleanInv /\ ListAnswer /\ PostAnswer
  BY DEF SystemInit, CleanInv, ListAnswer, PostAnswer
<1>3. DirsInv
  <2> SUFFICES ASSUME NEW d \in Dirs, d \notin dirs PROVE DOMAIN post[d] = {}
    BY DEF DirsInv
  <2>1. post[d] = <<>>
    BY DEF SystemInit, Dirs
  <2> QED
    BY <2>1
<1> QED
  BY <1>1, <1>2, <1>3 DEF FreshInv

LEMMA FreshInvariant ==
  ASSUME Id = Nat \ {0}
  PROVE  SystemSpec => [](SystemInv /\ FreshInv)
<1> DEFINE Inv == SystemInv /\ GetInv /\ RouteSettled /\ FreshInv
<1>1. SystemInit => Inv
  BY FreshInit, SystemInitInv
<1>2. Inv /\ [SystemNext]_systemVars => SystemInv' /\ GetInv' /\ RouteSettled'
  BY Simulates, SystemStep, RouteStep, GetStep DEF SystemInv
<1>3. Inv /\ [SystemNext]_systemVars => FreshInv'
  <2>1. ASSUME Inv, SystemNext PROVE FreshInv'
    BY <1>2, <2>1, DirsStep, CleanStep, ListAnswerStep, PostAnswerStep, ShownStep DEF FreshInv, SystemInv
  <2>2. ASSUME Inv, UNCHANGED systemVars PROVE FreshInv'
    BY <2>2 DEF systemVars, vars, store, clean, FreshInv, DirsInv, CleanInv, Relisting, Rewriting,
       UnderWay, ListAnswer, PostAnswer, Back, ListShown, PostShown, Routed
  <2> QED
    BY <2>1, <2>2
<1> QED
  BY <1>1, <1>2, <1>3, PTL DEF SystemSpec

(* At rest on the list of a directory, the list is what the store has, if the *)
(* newest fetch was answered last and nothing created or deleted while it was *)
(* under way, in whichever order all other requests were sent, served and     *)
(* answered (fetchPosts, app.component.ts:26-33, and its callers).            *)
THEOREM ListFreshHolds ==
  ASSUME Id = Nat \ {0}
  PROVE  SystemSpec => []ListFresh
<1>1. SystemInv /\ FreshInv => ListFresh
  BY DEF SystemInv, TypeOK, FreshInv, ListShown, ListFresh, Quiet, Free
<1> QED
  BY <1>1, FreshInvariant, PTL

(* At rest on a post, the post is there and what is shown is its text, if the *)
(* newest get was answered last, nothing saved or deleted while it was under  *)
(* way, and nothing typed since (get, app.component.ts:35-53).                *)
THEOREM PostFreshHolds ==
  ASSUME Id = Nat \ {0}
  PROVE  SystemSpec => []PostFresh
<1>1. SystemInv /\ FreshInv => PostFresh
  BY DEF SystemInv, TypeOK, FreshInv, PostShown, PostFresh, Quiet, Free
<1> QED
  BY <1>1, FreshInvariant, PTL
=============================================================================
