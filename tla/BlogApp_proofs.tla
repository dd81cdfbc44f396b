---------------------------- MODULE BlogApp_proofs ----------------------------
(* Proofs about BlogApp for every set of fetches, posts and directories, and  *)
(* every server that answers a get with the post's own text.                  *)
EXTENDS BlogApp, FiniteSetTheorems, SequenceTheorems, TLAPS

(* Fragments: their parts, and the ones the handlers assign. *)
LEMMA HashParts ==
  ASSUME NEW h \in Hash
  PROVE  /\ h.view \in {"none", "home", "list", "edit", "preview"}
         /\ h.dir \in Dir \cup {NoDir} /\ h.id \in Id \cup {0}
  BY DEF Hash, NoHash, Home, Listed, Path

LEMMA Assigned ==
  ASSUME NEW d \in Dir \cup {NoDir}, NEW i \in Id \cup {0}
  PROVE  /\ Home \in Hash /\ Listed(d) \in Hash
         /\ Path("edit", d, i) \in Hash /\ Path("preview", d, i) \in Hash
         /\ ~Routed(Home) /\ Home # Listed(d)
         /\ Listed(d).view = "list" /\ Listed(d).dir = d
<1>1. Home \in Hash /\ Listed(d) \in Hash
  BY DEF Hash
<1>2. Path("edit", d, i) \in Hash /\ Path("preview", d, i) \in Hash
  BY DEF Hash
<1>3. Home.view = "home" /\ Listed(d).view = "list" /\ Listed(d).dir = d
  BY DEF Home, Listed, Path
<1> QED
  BY <1>1, <1>2, <1>3 DEF Routed

(* Texts: a post's own, and what can be typed into it. *)
LEMMA OwnTexts ==
  ASSUME NEW d \in Dir \cup {NoDir}, NEW i \in Id \cup {0}
  PROVE  /\ <<>> \in Own(d, i) /\ Texts(d, i) \subseteq Own(d, i)
         /\ Own(d, i) \subseteq Text
         /\ \A t \in Own(d, i) : Append(t, <<d, i>>) \in Own(d, i)
<1>1. <<>> \in Own(d, i) /\ \A t \in Own(d, i) : Append(t, <<d, i>>) \in Own(d, i)
  BY DEF Own
<1>2. Texts(d, i) \subseteq Own(d, i)
  <2> SUFFICES ASSUME NEW t \in Texts(d, i) PROVE t \in Own(d, i)
    OBVIOUS
  <2>1. PICK n \in 0..MaxText : t \in [1..n -> {<<d, i>>}]
    BY DEF Texts
  <2> QED
    BY <2>1, BoundAssumption DEF Own
<1>3. Own(d, i) \subseteq Text
  <2> SUFFICES ASSUME NEW t \in Own(d, i) PROVE t \in Text
    OBVIOUS
  <2>1. <<d, i>> \in (Dir \cup {NoDir}) \X (Id \cup {0})
    OBVIOUS
  <2> QED
    BY <2>1 DEF Own, Text
<1> QED
  BY <1>1, <1>2, <1>3

LEMMA BlankPost == Blank \in Post /\ Blank.postid = 0 /\ Blank.content = <<>> /\ Blank.directory = NoDir
  BY DEF Blank, MdPost, Post, Text

(* What the requests are. *)
LEMMA Requests ==
  ASSUME NEW d \in Dir \cup {NoDir}, NEW i \in Id \cup {0}
  PROVE  /\ NoCall \in Calls /\ fetchPosts(d) \in Calls /\ getPost(d, i) \in Calls
         /\ createPost(d) \in Calls /\ deletePost(d, i) \in Calls
         /\ NoCall.kind = "none" /\ fetchPosts(d).kind = "list" /\ getPost(d, i).kind = "get"
         /\ createPost(d).kind = "create" /\ deletePost(d, i).kind = "delete"
         /\ getPost(d, i).dir = d /\ getPost(d, i).id = i
<1>1. <<>> \in Text
  BY DEF Text
<1> QED
  BY <1>1 DEF NoCall, fetchPosts, getPost, createPost, deletePost, Call, Calls

LEMMA SaveRequest ==
  ASSUME NEW d \in Dir \cup {NoDir}, NEW p \in Post
  PROVE  /\ setPost(d, p) \in Calls /\ setPost(d, p).kind = "save"
         /\ setPost(d, p).dir = d /\ setPost(d, p).id = p.postid
         /\ setPost(d, p).text = p.content
  BY DEF setPost, Call, Calls, Post

-----------------------------------------------------------------------------
(* Type correctness. *)

LEMMA InitType == Init => TypeOK
<1> SUFFICES ASSUME Init PROVE TypeOK
  OBVIOUS
<1>1. NoCall \in Calls
  BY Requests
<1> QED
  BY <1>1, BlankPost, TypedAssumption DEF Init, TypeOK

(* Assigning the hash, and the outcome of get, whose state is shown at once. *)
LEMMA GotoType ==
  ASSUME TypeOK, NEW h \in Hash, Goto(h)
  PROVE  hash' \in Hash /\ events' \in Nat /\ (hash' = hash \/ events' > 0)
  BY DEF TypeOK, Goto, Assign

LEMMA BusyStays ==
  ASSUME TypeOK, NEW c \in Conn, Free(c)
  PROVE  c # lastList /\ c # lastGet
  BY ConnAssumption DEF TypeOK, Free

(* A fetch of a list, with a change sent beside it or not, leaves every other *)
(* fetch in flight alone.                                                     *)
LEMMA FetchType ==
  ASSUME TypeOK, NEW c \in Conn, NEW d \in Dir \cup {NoDir}, NEW f \in [Conn -> Calls],
         FetchPosts(c, d, f), \A b \in Conn : f[b] = call[b] \/ Free(b)
  PROVE  /\ call' \in [Conn -> Calls] /\ posts' = posts
         /\ lastList' = c /\ call'[c].kind = "list" /\ ~listNewest' /\ listNewest' \in BOOLEAN
         /\ lastGet # NoConn => call'[lastGet] = call[lastGet]
<1>1. fetchPosts(d) \in Calls /\ fetchPosts(d).kind = "list"
  BY Requests
<1>2. c # lastGet
  BY BusyStays DEF FetchPosts
<1>3. call' = [f EXCEPT ![c] = fetchPosts(d)]
  BY DEF FetchPosts
<1>4. lastGet # NoConn => call'[lastGet] = call[lastGet]
  BY <1>2, <1>3, BusyStays DEF TypeOK
<1> QED
  BY <1>1, <1>3, <1>4 DEF FetchPosts

(* One fetch settles. *)
LEMMA SettleType ==
  ASSUME TypeOK, NEW c \in Conn, Settle(c)
  PROVE  /\ call' \in [Conn -> Calls]
         /\ \A b \in Conn : b # c => call'[b] = call[b]
<1>1. NoCall \in Calls
  BY Requests
<1> QED
  BY <1>1 DEF TypeOK, Settle

LEMMA LoadedType ==
  ASSUME TypeOK, NEW c \in Conn, NEW t \in Texts(call[c].dir, call[c].id)
  PROVE  /\ Loaded(c, t) \in Post
         /\ Loaded(c, t).directory = call[c].dir /\ Loaded(c, t).postid = call[c].id
         /\ Loaded(c, t).content = t
<1>1. call[c] \in Calls
  BY DEF TypeOK
<1>2. call[c].dir \in Dir \cup {NoDir} /\ call[c].id \in Id \cup {0}
  BY <1>1 DEF Calls
<1>3. t \in Own(call[c].dir, call[c].id) /\ t \in Text
  BY <1>2, OwnTexts
<1> QED
  BY <1>2, <1>3 DEF Loaded, MdPost, Post

LEMMA HashChangeType == TypeOK /\ HashChange => TypeOK'
<1> SUFFICES ASSUME TypeOK, HashChange PROVE TypeOK'
  OBVIOUS
<1>1. events - 1 \in Nat
  BY DEF HashChange, TypeOK
<1>2. hash.dir \in Dir \cup {NoDir} /\ hash.id \in Id \cup {0}
  BY HashParts DEF TypeOK
<1>3. CASE OnList
  <2>1. PICK c \in Conn : FetchPosts(c, hash.dir, call)
    BY <1>3 DEF OnList
  <2>2. call \in [Conn -> Calls]
    BY DEF TypeOK
  <2>3. /\ call' \in [Conn -> Calls] /\ posts' = posts
        /\ lastList' = c /\ call'[c].kind = "list" /\ ~listNewest' /\ listNewest' \in BOOLEAN
        /\ lastGet # NoConn => call'[lastGet] = call[lastGet]
    BY <1>2, <2>1, <2>2, FetchType
  <2> QED
    BY <1>1, <1>2, <1>3, <2>3 DEF OnList, HashChange, TypeOK, got, Show, Segment
<1>4. CASE OnPost
  <2>1. directory' \in Dir \cup {NoDir} /\ appState' \in {"list", "edit", "preview"}
    BY <1>2, <1>4 DEF OnPost, Get, Show, Display, Segment, Routed
  <2>2. CASE /\ \E c \in Conn : /\ Free(c) /\ lastGet' = c
                                 /\ call' = [call EXCEPT ![c] = getPost(hash.dir, hash.id)]
             /\ postNewest' = FALSE /\ Show(hash.view)
    <3>1. PICK c \in Conn : /\ Free(c) /\ lastGet' = c
                            /\ call' = [call EXCEPT ![c] = getPost(hash.dir, hash.id)]
      BY <2>2
    <3>2. getPost(hash.dir, hash.id) \in Calls /\ getPost(hash.dir, hash.id).kind = "get"
      BY <1>2, Requests
    <3>3. call' \in [Conn -> Calls] /\ call'[c].kind = "get" /\ (\A b \in Conn : b # c => call'[b] = call[b])
      BY <3>1, <3>2 DEF TypeOK
    <3>4. c # lastList
      BY <3>1, BusyStays
    <3> QED
      BY <1>1, <1>4, <2>1, <2>2, <3>1, <3>3, <3>4 DEF OnPost, HashChange, TypeOK, list, Show
  <2>3. CASE /\ Display(hash.view, Blank) /\ lastGet' = NoConn /\ postNewest' = TRUE
             /\ UNCHANGED call
    BY <1>1, <1>4, <2>1, <2>3, BlankPost DEF OnPost, HashChange, TypeOK, list, Display
  <2> QED
    BY <1>4, <2>2, <2>3 DEF OnPost, Get
<1>5. CASE OnElse
  <2>1. Home \in Hash
    BY <1>2, Assigned
  <2> QED
    BY <1>1, <1>5, <2>1 DEF OnElse, HashChange, TypeOK, Assign, view, list, got
<1> QED
  BY <1>3, <1>4, <1>5 DEF HashChange

LEMMA ClickType == TypeOK /\ Click => TypeOK'
<1> SUFFICES ASSUME TypeOK, Click PROVE TypeOK'
  OBVIOUS
<1> USE DEF TypeOK
<1>c. /\ call \in [Conn -> Calls] /\ currentPost \in Post
      /\ directory \in Dir \cup {NoDir} /\ currentPost.directory \in Dir \cup {NoDir}
      /\ currentPost.postid \in Id \cup {0}
  BY DEF Post
<1>1. ASSUME NEW dir \in Dir \cup {NoDir}, listPost(dir) PROVE TypeOK'
  <2>1. PICK c \in Conn : FetchPosts(c, dir, call)
    BY <1>1 DEF listPost
  <2>2. /\ call' \in [Conn -> Calls] /\ posts' = posts
        /\ lastList' = c /\ call'[c].kind = "list" /\ ~listNewest' /\ listNewest' \in BOOLEAN
        /\ lastGet # NoConn => call'[lastGet] = call[lastGet]
    BY <1>c, <2>1, FetchType
  <2>3. hash' \in Hash /\ events' \in Nat
    BY <1>1, Assigned, GotoType DEF listPost
  <2> QED
    BY <1>1, <2>2, <2>3 DEF listPost, Act, view, got
<1>2. ASSUME NEW dir \in Dir \cup {NoDir}, newPost(dir) PROVE TypeOK'
  <2>1. PICK b \in Conn, c \in Conn :
          \/ Free(b) /\ FetchPosts(c, dir, [call EXCEPT ![b] = createPost(dir)])
          \/ FetchPosts(c, dir, call)
    BY <1>2 DEF newPost
  <2>2. [call EXCEPT ![b] = createPost(dir)] \in [Conn -> Calls]
    BY <1>c, Requests
  <2>3. /\ call' \in [Conn -> Calls] /\ posts' = posts
        /\ lastList' = c /\ call'[c].kind = "list" /\ ~listNewest' /\ listNewest' \in BOOLEAN
        /\ lastGet # NoConn => call'[lastGet] = call[lastGet]
    <3>1. CASE Free(b) /\ FetchPosts(c, dir, [call EXCEPT ![b] = createPost(dir)])
      BY <1>c, <2>2, <3>1, FetchType
    <3>2. CASE FetchPosts(c, dir, call)
      BY <1>c, <3>2, FetchType
    <3> QED
      BY <2>1, <3>1, <3>2
  <2>4. hash' \in Hash /\ events' \in Nat
    BY <1>2, Assigned, GotoType DEF newPost
  <2> QED
    BY <1>2, <2>3, <2>4 DEF newPost, Act, view, got
<1>3. ASSUME NEW h \in Hash, Goto(h), acts' = acts + 1,
             UNCHANGED <<view, directory, call, list, got>>
      PROVE  TypeOK'
  <2>1. hash' \in Hash /\ events' \in Nat
    BY <1>3, GotoType
  <2> QED
    BY <1>3, <2>1 DEF view, list, got
<1>4. ASSUME NEW post \in posts, openPost(post) PROVE TypeOK'
  <2>1. Path("edit", directory, post) \in Hash
    BY <1>c, Assigned
  <2> QED
    BY <1>3, <1>4, <2>1 DEF openPost, Act
<1>5. CASE Type
  <2>1. PICK t \in {<<>>, Append(currentPost.content, <<currentPost.directory, currentPost.postid>>)} :
          currentPost' = [currentPost EXCEPT !.content = t]
    BY <1>5 DEF Type
  <2>2. currentPost.content \in Text /\ <<>> \in Text
    BY <1>c DEF Post, Text
  <2>3. Append(currentPost.content, <<currentPost.directory, currentPost.postid>>) \in Text
    BY <1>c, <2>2 DEF Text
  <2>4. currentPost' \in Post
    BY <1>c, <2>1, <2>2, <2>3 DEF Post
  <2> QED
    BY <1>5, <2>4 DEF Type, Act, list, got
<1>6. CASE previewPost
  <2>1. Path("preview", currentPost.directory, currentPost.postid) \in Hash
    BY <1>c, Assigned
  <2> QED
    BY <1>3, <1>6, <2>1 DEF previewPost, Act
<1>7. ASSUME NEW b \in Conn, NEW c \in Conn, NEW v \in Calls, Free(b),
             FetchPosts(c, currentPost.directory, [call EXCEPT ![b] = v]),
             acts' = acts + 1, UNCHANGED <<hash, events, view, directory, got>>
      PROVE  TypeOK'
  <2>1. [call EXCEPT ![b] = v] \in [Conn -> Calls]
    BY <1>c, <1>7
  <2>2. /\ call' \in [Conn -> Calls] /\ posts' = posts
        /\ lastList' = c /\ call'[c].kind = "list" /\ ~listNewest' /\ listNewest' \in BOOLEAN
        /\ lastGet # NoConn => call'[lastGet] = call[lastGet]
    BY <1>c, <1>7, <2>1, FetchType
  <2> QED
    BY <1>7, <2>2 DEF view, got
<1>8. CASE savePost
  <2>1. setPost(SavedTo(currentPost), currentPost) \in Calls
    BY <1>c, SaveRequest DEF SavedTo
  <2> QED
    BY <1>7, <1>8, <2>1 DEF savePost, Act
<1>9. CASE DeletePost
  <2>1. deletePost(currentPost.directory, currentPost.postid) \in Calls
    BY <1>c, Requests
  <2> QED
    BY <1>7, <1>9, <2>1 DEF DeletePost, Act
<1>10. CASE editPost
  <2>1. Path("edit", currentPost.directory, currentPost.postid) \in Hash
    BY <1>c, Assigned
  <2> QED
    BY <1>3, <1>10, <2>1 DEF editPost, Act
<1>11. ASSUME NEW h \in Typed, Navigate(h) PROVE TypeOK'
  BY <1>3, <1>11, TypedAssumption DEF Navigate, Act
<1> QED
  BY <1>1, <1>2, <1>4, <1>5, <1>6, <1>8, <1>9, <1>10, <1>11
  DEF Click, ListClick, EditClick, PreviewClick

LEMMA SettlesType == ASSUME TypeOK, NEW c \in Conn, Settles(c) PROVE TypeOK'
<1> USE DEF TypeOK
<1>1. ASSUME Settle(c)
      PROVE  /\ call' \in [Conn -> Calls]
             /\ lastGet # NoConn /\ lastGet # c => call'[lastGet] = call[lastGet]
             /\ lastList # NoConn /\ lastList # c => call'[lastList] = call[lastList]
  BY <1>1, SettleType
<1>2. Home \in Hash /\ call[c].dir \in Dir \cup {NoDir} /\ Listed(call[c].dir) \in Hash
  BY Assigned DEF Calls
<1>3. c # NoConn
  BY ConnAssumption
<1>4. ASSUME NEW ok \in BOOLEAN, NEW ids \in SUBSET Id, ListSettles(c, ok, ids), acts' = acts
      PROVE  TypeOK'
  BY <1>1, <1>3, <1>4 DEF ListSettles, view, got
<1>5. ASSUME NEW ok \in BOOLEAN, NEW t \in Texts(call[c].dir, call[c].id), GetSettles(c, ok, t),
             acts' = acts
      PROVE  TypeOK'
  <2>1. currentPost' \in Post /\ appState' = appState
    BY <1>5, LoadedType, BlankPost DEF GetSettles, Display
  <2>2. hash' \in Hash /\ events' \in Nat
    BY <1>2, <1>5, GotoType DEF GetSettles
  <2> QED
    BY <1>1, <1>3, <1>5, <2>1, <2>2 DEF GetSettles, list
<1>6. ASSUME NEW ok \in BOOLEAN, CreateSettles(c, ok), acts' = acts PROVE TypeOK'
  <2>1. hash' \in Hash /\ events' \in Nat
    BY <1>2, <1>6, GotoType DEF CreateSettles
  <2>2. c # lastGet /\ c # lastList
    BY <1>3, <1>6 DEF CreateSettles
  <2> QED
    BY <1>1, <1>6, <2>1, <2>2 DEF CreateSettles, view, list, got
<1>7. ASSUME NEW ok \in BOOLEAN, DeleteSettles(c, ok), acts' = acts PROVE TypeOK'
  <2>1. hash' \in Hash /\ events' \in Nat
    BY <1>2, <1>7, GotoType DEF DeleteSettles
  <2>2. c # lastGet /\ c # lastList
    BY <1>3, <1>7 DEF DeleteSettles
  <2>3. currentPost' \in Post /\ appState' = appState
    BY <1>7, BlankPost DEF DeleteSettles, Display, view
  <2> QED
    BY <1>1, <1>7, <2>1, <2>2, <2>3 DEF DeleteSettles, list, got
<1>8. ASSUME SetSettles(c), acts' = acts PROVE TypeOK'
  <2>1. c # lastGet /\ c # lastList
    BY <1>3, <1>8 DEF SetSettles
  <2> QED
    BY <1>1, <1>8, <2>1 DEF SetSettles, view, list, got
<1> QED
  BY <1>4, <1>5, <1>6, <1>7, <1>8 DEF Settles

LEMMA NextType == TypeOK /\ [Next]_vars => TypeOK'
<1> SUFFICES ASSUME TypeOK, [Next]_vars PROVE TypeOK'
  OBVIOUS
<1>1. CASE UNCHANGED vars
  BY <1>1 DEF vars, TypeOK
<1> QED
  BY <1>1, HashChangeType, ClickType, SettlesType DEF Next

(* Every variable of the front end has its type, and what is recorded as the  *)
(* newest fetch of its kind is one in flight (app.component.ts).              *)
THEOREM TypeCorrect == Spec => []TypeOK
  BY InitType, NextType, PTL DEF Spec
-----------------------------------------------------------------------------
(* What is shown. *)

LEMMA PreviewStep == TypeOK /\ PreviewShowsPost /\ [Next]_vars => PreviewShowsPost'
<1> SUFFICES ASSUME TypeOK, PreviewShowsPost, [Next]_vars PROVE PreviewShowsPost'
  OBVIOUS
<1>1. ASSUME UNCHANGED view PROVE PreviewShowsPost'
  BY <1>1 DEF view, PreviewShowsPost
<1>2. ASSUME NEW s, Show(s) PROVE PreviewShowsPost'
  BY <1>2 DEF Show, Rendered, PreviewShowsPost
<1>3. ASSUME NEW s, NEW p, Display(s, p) PROVE PreviewShowsPost'
  BY <1>3 DEF Display, Rendered, PreviewShowsPost
<1>4. CASE UNCHANGED vars
  BY <1>1, <1>4 DEF vars, view
<1>5. CASE HashChange
  BY <1>1, <1>2, <1>3, <1>5 DEF HashChange, OnList, OnPost, OnElse, Get
<1>6. CASE Click
  <2>1. CASE Type
    BY <2>1 DEF Type, PreviewShowsPost
  <2> QED
    BY <1>1, <1>6, <2>1
    DEF Click, ListClick, EditClick, PreviewClick, listPost, newPost, openPost, previewPost,
        savePost, DeletePost, editPost, Navigate
<1>7. ASSUME NEW c \in Conn, Settles(c) PROVE PreviewShowsPost'
  BY <1>1, <1>3, <1>7
  DEF Settles, ListSettles, GetSettles, CreateSettles, SetSettles, DeleteSettles
<1> QED
  BY <1>4, <1>5, <1>6, <1>7 DEF Next

(* The preview is of the current post (preview.component.ts:28-36).           *)
THEOREM PreviewShowsPostHolds == Spec => []PreviewShowsPost
<1>1. Init => PreviewShowsPost
  BY DEF Init, PreviewShowsPost
<1> QED
  BY <1>1, PreviewStep, TypeCorrect, PTL DEF Spec

LEMMA RouteStep == TypeOK /\ RouteSettled /\ [Next]_vars => RouteSettled'
<1> SUFFICES ASSUME TypeOK, RouteSettled, [Next]_vars PROVE RouteSettled'
  OBVIOUS
<1>1. ASSUME UNCHANGED <<hash, events, appState, directory>> PROVE RouteSettled'
  BY <1>1 DEF RouteSettled, Routed
<1>2. ASSUME NEW h \in Hash, Goto(h), UNCHANGED <<appState, directory>> PROVE RouteSettled'
  BY <1>2, GotoType DEF Goto, Assign, RouteSettled, Routed, TypeOK
<1>h. Home \in Hash
  BY Assigned DEF TypeOK
<1>c. currentPost \in Post /\ directory \in Dir \cup {NoDir} /\ posts \subseteq Id
  BY DEF TypeOK
<1>3. CASE UNCHANGED vars
  BY <1>1, <1>3 DEF vars
<1>4. CASE HashChange
  <2>1. CASE OnList
    BY <2>1 DEF OnList, Show, Segment, RouteSettled, Routed
  <2>2. CASE OnPost
    BY <2>2 DEF OnPost, Get, Show, Display, Segment, RouteSettled, Routed
  <2>3. CASE OnElse
    BY <1>4, <2>3 DEF HashChange, OnElse, Assign, RouteSettled, TypeOK
  <2> QED
    BY <1>4, <2>1, <2>2, <2>3 DEF HashChange
<1>5. CASE Click
  <2>1. ASSUME NEW dir \in Dir \cup {NoDir}, listPost(dir) PROVE RouteSettled'
    BY <1>2, <2>1, Assigned DEF listPost, view
  <2>2. ASSUME NEW dir \in Dir \cup {NoDir}, newPost(dir) PROVE RouteSettled'
    <3>1. Goto(Listed(dir)) /\ directory' = dir /\ appState' = appState
      BY <2>2 DEF newPost, view
    <3>2. Listed(dir) # Home /\ Listed(dir).dir = dir
      BY Assigned
    <3> QED
      BY <3>1, <3>2 DEF Goto, Assign, RouteSettled, Routed, TypeOK
  <2>3. ASSUME NEW post \in posts, openPost(post) PROVE RouteSettled'
    BY <1>2, <1>c, <2>3, Assigned DEF openPost, view
  <2>4. CASE Type \/ savePost \/ DeletePost
    BY <1>1, <2>4 DEF Type, savePost, DeletePost, view
  <2>5. CASE previewPost \/ editPost
    <3>1. currentPost.directory \in Dir \cup {NoDir} /\ currentPost.postid \in Id \cup {0}
      BY <1>c DEF Post
    <3> QED
      BY <1>2, <2>5, <3>1, Assigned DEF previewPost, editPost, view
  <2>6. ASSUME NEW h \in Typed, Navigate(h) PROVE RouteSettled'
    BY <1>2, <2>6, TypedAssumption DEF Navigate, view
  <2> QED
    BY <1>5, <2>1, <2>2, <2>3, <2>4, <2>5, <2>6 DEF Click, ListClick, EditClick, PreviewClick
<1>6. ASSUME NEW c \in Conn, Settles(c) PROVE RouteSettled'
  <2>1. Listed(call[c].dir) \in Hash
    BY Assigned DEF TypeOK, Calls
  <2> QED
    BY <1>1, <1>2, <1>6, <1>h, <2>1
    DEF Settles, ListSettles, GetSettles, CreateSettles, SetSettles, DeleteSettles, Display, view
<1> QED
  BY <1>3, <1>4, <1>5, <1>6 DEF Next

(* With every hashchange event handled, component and directory are the URL's *)
(* (onHashChange, app.component.ts:69-108).                                   *)
THEOREM RouteSettledHolds == Spec => []RouteSettled
<1>1. Init => RouteSettled
  BY DEF Init, RouteSettled
<1> QED
  BY <1>1, RouteStep, TypeCorrect, PTL DEF Spec
-----------------------------------------------------------------------------
(* Whose texts are shown and sent. *)

(* A text that was written for the post it is sent to, and is not too long; a *)
(* new post is empty.                                                         *)
Kept(v) ==
  /\ v.text \in Texts(v.dir, v.id)
  /\ v.kind = "create" => v.text = <<>>
  /\ v.kind = "list" => v.id = 0

(* SavesOwnText with the length of the texts. *)
TextInv ==
  /\ currentPost.content \in Texts(currentPost.directory, currentPost.postid)
  /\ \A c \in Conn : Kept(call[c])

LEMMA TextInvOwn == TypeOK /\ TextInv => SavesOwnText
  BY OwnTexts DEF TypeOK, Post, Calls, TextInv, Kept, SavesOwnText

LEMMA EmptyText ==
  ASSUME NEW d \in Dir \cup {NoDir}, NEW i \in Id \cup {0}
  PROVE  <<>> \in Texts(d, i)
<1>1. <<>> \in [1..0 -> {<<d, i>>}] /\ 0 \in 0..MaxText
  BY BoundAssumption
<1> QED
  BY <1>1 DEF Texts

LEMMA LongerText ==
  ASSUME NEW d \in Dir \cup {NoDir}, NEW i \in Id \cup {0}, NEW t \in Texts(d, i),
         Len(Append(t, <<d, i>>)) <= MaxText
  PROVE  Append(t, <<d, i>>) \in Texts(d, i)
<1>1. PICK n \in 0..MaxText : t \in [1..n -> {<<d, i>>}]
  BY DEF Texts
<1>2. t \in Seq({<<d, i>>}) /\ Len(t) = n
  BY <1>1, BoundAssumption
<1>3. /\ Append(t, <<d, i>>) \in Seq({<<d, i>>}) /\ Len(Append(t, <<d, i>>)) = n + 1
      /\ n + 1 <= MaxText
  BY <1>2, AppendProperties
<1>4. Append(t, <<d, i>>) \in [1..n + 1 -> {<<d, i>>}]
  BY <1>3, LenProperties
<1>5. n + 1 \in 0..MaxText
  BY <1>3, BoundAssumption
<1> QED
  BY <1>4, <1>5 DEF Texts

(* The requests without a text. *)
LEMMA EmptyRequests ==
  ASSUME NEW d \in Dir \cup {NoDir}, NEW i \in Id \cup {0}
  PROVE  /\ Kept(NoCall) /\ Kept(fetchPosts(d)) /\ Kept(getPost(d, i))
         /\ Kept(createPost(d)) /\ Kept(deletePost(d, i))
  BY EmptyText DEF Kept, NoCall, fetchPosts, getPost, createPost, deletePost, Call

(* A fetch that is sent carries an own text, if the calls beside it do. *)
LEMMA OwnFetch ==
  ASSUME NEW c \in Conn, NEW d \in Dir \cup {NoDir}, NEW f \in [Conn -> Calls],
         FetchPosts(c, d, f), \A b \in Conn : Kept(f[b])
  PROVE  \A b \in Conn : Kept(call'[b])
<1>1. call' = [f EXCEPT ![c] = fetchPosts(d)]
  BY DEF FetchPosts
<1> QED
  BY <1>1, EmptyRequests

LEMMA TextStep == TypeOK /\ TextInv /\ [Next]_vars => TextInv'
<1> SUFFICES ASSUME TypeOK, TextInv, [Next]_vars PROVE TextInv'
  OBVIOUS
<1> DEFINE Mine(f) == \A b \in Conn : Kept(f[b])
<1>c. /\ currentPost \in Post /\ directory \in Dir \cup {NoDir} /\ call \in [Conn -> Calls]
      /\ currentPost.directory \in Dir \cup {NoDir} /\ currentPost.postid \in Id \cup {0}
      /\ currentPost.content \in Texts(currentPost.directory, currentPost.postid) /\ Mine(call)
  BY DEF TypeOK, Post, TextInv
<1>b. Blank.content \in Texts(Blank.directory, Blank.postid)
  BY BlankPost, EmptyText
<1>1. ASSUME UNCHANGED currentPost \/ currentPost' = Blank, Mine(call') PROVE TextInv'
  BY <1>b, <1>c, <1>1 DEF TextInv
<1>2. ASSUME NEW v \in Calls, Kept(v), NEW c, call' = [call EXCEPT ![c] = v]
      PROVE  Mine(call')
  BY <1>c, <1>2
<1>3. CASE UNCHANGED vars
  BY <1>1, <1>c, <1>3 DEF vars
<1>4. CASE HashChange
  <2>1. hash.dir \in Dir \cup {NoDir} /\ hash.id \in Id \cup {0}
    BY HashParts DEF TypeOK
  <2>2. CASE OnList
    BY <1>1, <1>c, <2>1, <2>2, OwnFetch DEF OnList, Show
  <2>3. CASE OnPost
    <3>1. getPost(hash.dir, hash.id) \in Calls
      BY <2>1, Requests
    <3>2. Kept(getPost(hash.dir, hash.id))
      BY <2>1, EmptyRequests
    <3>3. Mine(call')
      BY <1>2, <1>c, <2>3, <3>1, <3>2 DEF OnPost, Get
    <3> QED
      BY <1>1, <2>3, <3>3 DEF OnPost, Get, Show, Display
  <2>4. CASE OnElse
    BY <1>1, <1>c, <2>4 DEF OnElse, view
  <2> QED
    BY <1>4, <2>2, <2>3, <2>4 DEF HashChange
<1>5. CASE Click
  <2>1. ASSUME NEW dir \in Dir \cup {NoDir}, listPost(dir) PROVE TextInv'
    BY <1>1, <1>c, <2>1, OwnFetch DEF listPost, view
  <2>2. ASSUME NEW b \in Conn, NEW c \in Conn, NEW d \in Dir \cup {NoDir}, NEW v \in Calls,
               Kept(v), FetchPosts(c, d, [call EXCEPT ![b] = v]),
               UNCHANGED currentPost
        PROVE  TextInv'
    <3>1. [call EXCEPT ![b] = v] \in [Conn -> Calls] /\ Mine([call EXCEPT ![b] = v])
      BY <1>c, <2>2
    <3> QED
      BY <1>1, <2>2, <3>1, OwnFetch
  <2>3. ASSUME NEW dir \in Dir \cup {NoDir}, newPost(dir) PROVE TextInv'
    <3>1. createPost(dir) \in Calls
      BY Requests
    <3>2. Kept(createPost(dir))
      BY EmptyRequests
    <3>3. UNCHANGED currentPost
      BY <2>3 DEF newPost, view
    <3>4. PICK b \in Conn, c \in Conn :
            \/ FetchPosts(c, dir, [call EXCEPT ![b] = createPost(dir)])
            \/ FetchPosts(c, dir, call)
      BY <2>3 DEF newPost
    <3>5. CASE FetchPosts(c, dir, [call EXCEPT ![b] = createPost(dir)])
      BY <2>2, <3>1, <3>2, <3>3, <3>5
    <3>6. CASE FetchPosts(c, dir, call)
      BY <1>1, <1>c, <3>3, <3>6, OwnFetch
    <3> QED
      BY <3>4, <3>5, <3>6
  <2>4. CASE Type
    <3>1. PICK t \in {<<>>, Append(currentPost.content, <<currentPost.directory, currentPost.postid>>)} :
            Len(t) <= MaxText /\ currentPost' = [currentPost EXCEPT !.content = t]
      BY <2>4 DEF Type
    <3>2. t \in Texts(currentPost.directory, currentPost.postid)
      BY <1>c, <3>1, EmptyText, LongerText
    <3>3. /\ currentPost'.content = t /\ currentPost'.directory = currentPost.directory
          /\ currentPost'.postid = currentPost.postid
      BY <1>c, <3>1 DEF Post
    <3> QED
      BY <1>c, <2>4, <3>2, <3>3 DEF Type, TextInv
  <2>5. CASE savePost
    <3>1. setPost(SavedTo(currentPost), currentPost) \in Calls
      BY <1>c, SaveRequest DEF SavedTo
    <3>2. Kept(setPost(SavedTo(currentPost), currentPost))
      BY <1>c, SaveRequest DEF SavedTo, Kept
    <3> QED
      BY <1>c, <2>2, <2>5, <3>1, <3>2 DEF savePost, view
  <2>6. CASE DeletePost
    <3>1. deletePost(currentPost.directory, currentPost.postid) \in Calls
      BY <1>c, Requests
    <3>2. Kept(deletePost(currentPost.directory, currentPost.postid))
      BY <1>c, EmptyRequests
    <3> QED
      BY <1>c, <2>2, <2>6, <3>1, <3>2 DEF DeletePost, view
  <2>7. ASSUME UNCHANGED <<view, directory, call, list, got>> PROVE TextInv'
    BY <1>1, <1>c, <2>7 DEF view
  <2> QED
    BY <1>5, <2>1, <2>3, <2>4, <2>5, <2>6, <2>7
    DEF Click, ListClick, EditClick, PreviewClick, openPost, previewPost, editPost, Navigate
<1>6. ASSUME NEW c \in Conn, Settles(c) PROVE TextInv'
  <2>1. Mine(call')
    <3>1. NoCall \in Calls
      BY Requests DEF TypeOK
    <3>2. Kept(NoCall)
      BY EmptyRequests
    <3>3. Settle(c)
      BY <1>6 DEF Settles, ListSettles, GetSettles, CreateSettles, SetSettles, DeleteSettles
    <3> QED
      BY <1>2, <3>1, <3>2, <3>3 DEF Settle
  <2>2. ASSUME NEW ok \in BOOLEAN, NEW t \in Texts(call[c].dir, call[c].id), GetSettles(c, ok, t)
        PROVE  TextInv'
    BY <1>1, <2>1, <2>2, LoadedType DEF GetSettles, Display, TextInv
  <2>3. UNCHANGED currentPost \/ currentPost' = Blank
          \/ \E ok \in BOOLEAN, t \in Texts(call[c].dir, call[c].id) : GetSettles(c, ok, t)
    BY <1>6
    DEF Settles, ListSettles, CreateSettles, SetSettles, DeleteSettles, Display, view
  <2> QED
    BY <1>1, <2>1, <2>2, <2>3
<1> QED
  BY <1>3, <1>4, <1>5, <1>6 DEF Next

LEMMA InitText == Init => TextInv
<1> SUFFICES ASSUME Init PROVE TextInv
  OBVIOUS
<1>1. Kept(NoCall)
  BY EmptyRequests
<1>2. Blank.content \in Texts(Blank.directory, Blank.postid)
  BY BlankPost, EmptyText
<1>3. currentPost = Blank /\ \A c \in Conn : call[c] = NoCall
  BY DEF Init
<1> QED
  BY <1>1, <1>2, <1>3 DEF TextInv

(* No text is ever held or sent for another post than its own, if the server  *)
(* answers every get with the post's own text (get, savePost and deletePost). *)
THEOREM SavesOwnTextHolds == Spec => []SavesOwnText
  BY InitText, TextStep, TextInvOwn, TypeCorrect, PTL DEF Spec
-----------------------------------------------------------------------------
(* Which post is shown. *)

(* Nothing that GetInv speaks of changes but, perhaps, the current post's     *)
(* text and calls that are not the newest get.                                *)
LEMMA GetKept ==
  ASSUME TypeOK, GetInv, UNCHANGED <<hash, events, lastGet, postNewest>>,
         currentPost'.directory = currentPost.directory, currentPost'.postid = currentPost.postid,
         lastGet # NoConn => call'[lastGet] = call[lastGet]
  PROVE  GetInv'
  BY DEF GetInv, Routed, Shows

(* Assigning the hash queues an event, or leaves it as it is. *)
LEMMA GetGoto ==
  ASSUME TypeOK, GetInv, NEW h \in Hash, Goto(h), UNCHANGED <<lastGet, postNewest, currentPost>>,
         lastGet # NoConn => call'[lastGet] = call[lastGet]
  PROVE  GetInv'
<1>1. CASE hash = h
  <2>1. UNCHANGED <<hash, events>>
    BY <1>1 DEF Goto, Assign, TypeOK
  <2> QED
    BY <2>1, GetKept
<1>2. CASE hash # h
  BY <1>2 DEF Goto, Assign, GetInv, TypeOK
<1> QED
  BY <1>1, <1>2

LEMMA GetStep == TypeOK /\ GetInv /\ [Next]_vars => GetInv'
<1> SUFFICES ASSUME TypeOK, GetInv, [Next]_vars PROVE GetInv'
  OBVIOUS
<1>c. /\ currentPost \in Post /\ directory \in Dir \cup {NoDir} /\ call \in [Conn -> Calls]
      /\ currentPost.directory \in Dir \cup {NoDir} /\ currentPost.postid \in Id \cup {0}
      /\ posts \subseteq Id /\ hash \in Hash
  BY DEF TypeOK, Post
<1>f. ASSUME NEW c \in Conn, NEW d \in Dir \cup {NoDir}, NEW f \in [Conn -> Calls],
             FetchPosts(c, d, f), \A b \in Conn : f[b] = call[b] \/ Free(b)
      PROVE  lastGet # NoConn => call'[lastGet] = call[lastGet]
  BY <1>f, FetchType
<1>1. CASE UNCHANGED vars
  BY <1>1, GetKept DEF vars
<1>2. CASE HashChange
  <2>1. CASE OnList
    BY <2>1 DEF OnList, GetInv
  <2>2. CASE OnPost
    <3>1. hash' = hash /\ hash.dir \in Dir \cup {NoDir} /\ hash.id \in Id \cup {0}
      BY <1>c, <2>2, HashParts DEF OnPost
    <3>2. CASE \E c \in Conn : call' = [call EXCEPT ![c] = getPost(hash.dir, hash.id)] /\ lastGet' = c
      <4>1. PICK c \in Conn : call' = [call EXCEPT ![c] = getPost(hash.dir, hash.id)] /\ lastGet' = c
        BY <3>2
      <4>2. call'[c] = getPost(hash.dir, hash.id)
        BY <1>c, <4>1
      <4>3. call'[c].dir = hash.dir /\ call'[c].id = hash.id
        BY <4>2 DEF getPost, Call
      <4> QED
        BY <3>1, <4>1, <4>3, ConnAssumption DEF GetInv
    <3>3. CASE hash.id = 0 /\ currentPost' = Blank /\ lastGet' = NoConn
      BY <3>1, <3>3, BlankPost DEF GetInv, Shows
    <3> QED
      BY <2>2, <3>2, <3>3 DEF OnPost, Get, Display
  <2>3. CASE OnElse
    <3>1. ~Routed(hash) /\ ~Routed(Home)
      BY <1>c, <2>3, Assigned DEF OnElse
    <3> QED
      BY <2>3, <3>1 DEF OnElse, Assign, GetInv, Routed
  <2> QED
    BY <1>2, <2>1, <2>2, <2>3 DEF HashChange
<1>3. CASE Click
  <2>1. ASSUME NEW dir \in Dir \cup {NoDir}, listPost(dir) PROVE GetInv'
    <3>1. lastGet # NoConn => call'[lastGet] = call[lastGet]
      BY <1>c, <1>f, <2>1 DEF listPost
    <3> QED
      BY <2>1, <3>1, GetGoto, Assigned DEF listPost, view, got
  <2>2. ASSUME NEW dir \in Dir \cup {NoDir}, newPost(dir) PROVE GetInv'
    <3>1. PICK b \in Conn, c \in Conn :
            \/ Free(b) /\ FetchPosts(c, dir, [call EXCEPT ![b] = createPost(dir)])
            \/ FetchPosts(c, dir, call)
      BY <2>2 DEF newPost
    <3>2. [call EXCEPT ![b] = createPost(dir)] \in [Conn -> Calls]
      BY <1>c, Requests
    <3>3. lastGet # NoConn => call'[lastGet] = call[lastGet]
      <4>1. CASE Free(b) /\ FetchPosts(c, dir, [call EXCEPT ![b] = createPost(dir)])
        BY <1>c, <1>f, <3>2, <4>1
      <4>2. CASE FetchPosts(c, dir, call)
        BY <1>c, <1>f, <4>2
      <4> QED
        BY <3>1, <4>1, <4>2
    <3> QED
      BY <2>2, <3>3, GetGoto, Assigned DEF newPost, view, got
  <2>3. ASSUME NEW h \in Hash, Goto(h), UNCHANGED <<view, directory, call, list, got>>
        PROVE  GetInv'
    BY <2>3, GetGoto DEF view, got
  <2>4. ASSUME NEW post \in posts, openPost(post) PROVE GetInv'
    <3>1. Path("edit", directory, post) \in Hash
      BY <1>c, Assigned
    <3> QED
      BY <2>3, <2>4, <3>1 DEF openPost
  <2>5. CASE Type
    <3>1. /\ currentPost'.directory = currentPost.directory
          /\ currentPost'.postid = currentPost.postid
      BY <1>c, <2>5 DEF Type, Post
    <3> QED
      BY <2>5, <3>1, GetKept DEF Type, got
  <2>6. CASE previewPost \/ editPost
    <3>1. /\ Path("edit", currentPost.directory, currentPost.postid) \in Hash
          /\ Path("preview", currentPost.directory, currentPost.postid) \in Hash
      BY <1>c, Assigned
    <3> QED
      BY <2>3, <2>6, <3>1 DEF previewPost, editPost
  <2>7. ASSUME NEW b \in Conn, NEW c \in Conn, NEW v \in Calls, Free(b),
               FetchPosts(c, currentPost.directory, [call EXCEPT ![b] = v]),
               UNCHANGED <<hash, events, view, directory, got>>
        PROVE  GetInv'
    <3>1. [call EXCEPT ![b] = v] \in [Conn -> Calls]
      BY <1>c, <2>7
    <3>2. lastGet # NoConn => call'[lastGet] = call[lastGet]
      BY <1>c, <1>f, <2>7, <3>1
    <3> QED
      BY <2>7, <3>2, GetKept DEF view, got
  <2>8. CASE savePost
    <3>1. setPost(SavedTo(currentPost), currentPost) \in Calls
      BY <1>c, SaveRequest DEF SavedTo
    <3> QED
      BY <2>7, <2>8, <3>1 DEF savePost
  <2>9. CASE DeletePost
    <3>1. deletePost(currentPost.directory, currentPost.postid) \in Calls
      BY <1>c, Requests
    <3> QED
      BY <2>7, <2>9, <3>1 DEF DeletePost
  <2>10. ASSUME NEW h \in Typed, Navigate(h) PROVE GetInv'
    BY <2>3, <2>10, TypedAssumption DEF Navigate
  <2> QED
    BY <1>3, <2>1, <2>2, <2>4, <2>5, <2>6, <2>8, <2>9, <2>10
    DEF Click, ListClick, EditClick, PreviewClick
<1>4. ASSUME NEW c \in Conn, Settles(c) PROVE GetInv'
  <2>1. ASSUME Settle(c), lastGet # c PROVE lastGet # NoConn => call'[lastGet] = call[lastGet]
    BY <2>1, SettleType DEF TypeOK
  <2>2. Home \in Hash /\ ~Routed(Home) /\ Listed(call[c].dir) \in Hash /\ Listed(call[c].dir).view = "list"
    BY <1>c, Assigned DEF Calls
  <2>3. call[c].kind # "get" => lastGet # c
    BY ConnAssumption DEF TypeOK
  <2>4. CASE SetSettles(c) \/ \E ok \in BOOLEAN, ids \in SUBSET Id : ListSettles(c, ok, ids)
    BY <2>1, <2>3, <2>4, GetKept DEF SetSettles, ListSettles, view, got
  <2>5. CASE \E ok \in BOOLEAN : CreateSettles(c, ok)
    <3>1. lastGet # NoConn => call'[lastGet] = call[lastGet]
      BY <2>1, <2>3, <2>5 DEF CreateSettles
    <3> QED
      BY <2>2, <2>5, <3>1, GetKept, GetGoto DEF CreateSettles, view, got
  <2>6. CASE \E ok \in BOOLEAN : DeleteSettles(c, ok)
    <3>1. lastGet # NoConn => call'[lastGet] = call[lastGet]
      BY <2>1, <2>3, <2>6 DEF DeleteSettles
    <3>2. CASE Goto(Listed(call[c].dir))
      BY <2>2, <3>2 DEF Goto, Assign, GetInv
    <3>3. CASE UNCHANGED <<hash, events, view>>
      BY <2>6, <3>1, <3>3, GetKept DEF DeleteSettles, view, got
    <3> QED
      BY <2>6, <3>2, <3>3 DEF DeleteSettles
  <2>7. ASSUME NEW ok \in BOOLEAN, NEW t \in Texts(call[c].dir, call[c].id), GetSettles(c, ok, t)
        PROVE  GetInv'
    <3>1. CASE Goto(Home)
      BY <2>2, <3>1 DEF Goto, Assign, GetInv
    <3>2. CASE currentPost' = Loaded(c, t) /\ UNCHANGED <<hash, events>>
      <4>1. CASE lastGet = c
        <5>1. lastGet' = NoConn /\ c # NoConn
          BY <2>7, <4>1, ConnAssumption DEF GetSettles
        <5>2. events = 0 /\ Routed(hash) /\ hash.view # "list" => Shows(Loaded(c, t), hash)
          BY <4>1, <5>1, LoadedType DEF GetInv, Shows
        <5> QED
          BY <3>2, <5>1, <5>2 DEF GetInv
      <4>2. CASE lastGet # c
        <5>1. lastGet' = lastGet /\ ~postNewest'
          BY <2>7, <4>2 DEF GetSettles
        <5>2. lastGet # NoConn => call'[lastGet] = call[lastGet]
          BY <2>1, <2>7, <4>2 DEF GetSettles
        <5> QED
          BY <3>2, <5>1, <5>2 DEF GetInv, Routed
      <4> QED
        BY <4>1, <4>2
    <3> QED
      BY <2>7, <3>1, <3>2 DEF GetSettles, Display
  <2> QED
    BY <1>4, <2>4, <2>5, <2>6, <2>7 DEF Settles
<1> QED
  BY <1>1, <1>2, <1>3, <1>4 DEF Next

(* At rest, edit and preview show the post of the URL, unless an older get    *)
(* was answered after the newest (get, app.component.ts:35-53).               *)
THEOREM ShownIsRoutedHolds == Spec => []ShownIsRouted
<1>1. Init => GetInv
  BY DEF Init, GetInv
<1>2. TypeOK /\ GetInv => ShownIsRouted
  <2> SUFFICES ASSUME TypeOK, GetInv, Quiet PROVE lastGet = NoConn
    BY DEF GetInv, ShownIsRouted, Quiet
  <2> QED
    BY DEF TypeOK, Quiet, Free
<1> QED
  BY <1>1, <1>2, GetStep, TypeCorrect, PTL DEF Spec
-----------------------------------------------------------------------------
(* Coming to rest. *)

Busy     == {c \in Conn : ~Free(c)}
Deleting == {c \in Conn : call[c].kind = "delete"}

LEMMA Finite == /\ IsFiniteSet(Busy) /\ Cardinality(Busy) \in Nat
                /\ IsFiniteSet(Deleting) /\ Cardinality(Deleting) \in Nat
<1>1. Busy \in SUBSET Conn /\ Deleting \in SUBSET Conn
  BY DEF Busy, Deleting
<1>2. IsFiniteSet(Busy) /\ IsFiniteSet(Deleting)
  BY <1>1, ConnAssumption, FS_Subset
<1> QED
  BY <1>2, FS_CardinalityType

(* The measures are numbers. *)
LEMMA Measures ==
  ASSUME TypeOK
  PROVE  /\ Deletes \in Nat /\ Restless \in 0..2 /\ Left \in Nat
         /\ Deletes = Cardinality(Deleting) /\ Left = 2 * events + Cardinality(Busy)
<1>1. Deletes = Cardinality(Deleting) /\ Left = 2 * events + Cardinality(Busy)
  BY DEF Deletes, Left, Deleting, Busy
<1> QED
  BY <1>1, Finite DEF TypeOK, Restless

(* A fetch that is no delete is sent: one more is busy. *)
LEMMA Sent ==
  ASSUME TypeOK, NEW c \in Conn, NEW v \in Calls, Free(c), v.kind \notin {"none", "delete"},
         call' = [call EXCEPT ![c] = v]
  PROVE  Cardinality(Busy') = Cardinality(Busy) + 1 /\ Deleting' = Deleting
<1>1. Busy' = Busy \cup {c} /\ c \notin Busy
  BY DEF TypeOK, Busy, Free
<1>2. Deleting' = Deleting
  BY DEF TypeOK, Deleting, Free
<1> QED
  BY <1>1, <1>2, Finite, FS_AddElement

(* A fetch settles: one less is busy, and if it was a delete, one delete less *)
(* is in flight.                                                              *)
LEMMA Ended ==
  ASSUME TypeOK, NEW c \in Conn, ~Free(c), Settle(c)
  PROVE  /\ Cardinality(Busy') = Cardinality(Busy) - 1
         /\ call[c].kind = "delete" => Cardinality(Deleting') = Cardinality(Deleting) - 1
         /\ call[c].kind # "delete" => Deleting' = Deleting
<1>1. NoCall.kind = "none"
  BY Requests DEF TypeOK
<1>2. Busy' = Busy \ {c} /\ c \in Busy
  BY <1>1 DEF TypeOK, Busy, Free, Settle
<1>3. Deleting' = Deleting \ {c}
  BY <1>1 DEF TypeOK, Deleting, Settle
<1>4. call[c].kind = "delete" <=> c \in Deleting
  BY DEF Deleting
<1>5. Cardinality(Busy') = Cardinality(Busy) - 1
  BY <1>2, Finite, FS_RemoveElement
<1>6. c \in Deleting => Cardinality(Deleting') = Cardinality(Deleting) - 1
  BY <1>3, Finite, FS_RemoveElement
<1> QED
  BY <1>3, <1>4, <1>5, <1>6

(* Going to "/" calms a hash that is not "/", and does nothing to one that is.*)
LEMMA GoneHome ==
  ASSUME TypeOK, NEW n \in Nat, Assign(hash, Home, n)
  PROVE  Restless' < Restless \/ (hash' = hash /\ Restless' = Restless /\ events' = n)
  BY DEF Assign, Restless

LEMMA WindsStep == TypeOK /\ TypeOK' /\ Next => (acts' = acts => Smaller)
<1> SUFFICES ASSUME TypeOK, TypeOK', Next, acts' = acts PROVE Smaller
  OBVIOUS
<1>m. /\ Deletes \in Nat /\ Restless \in 0..2 /\ Left \in Nat
      /\ Deletes = Cardinality(Deleting) /\ Left = 2 * events + Cardinality(Busy)
      /\ Deletes' \in Nat /\ Restless' \in 0..2 /\ Left' \in Nat
      /\ Deletes' = Cardinality(Deleting') /\ Left' = 2 * events' + Cardinality(Busy')
  <2>1. /\ Deletes' = Cardinality(Deleting') /\ Left' = 2 * events' + Cardinality(Busy')
    BY DEF Deletes, Left, Deleting, Busy
  <2>2. Cardinality(Busy') \in Nat /\ Cardinality(Deleting') \in Nat
    <3>1. Busy' \in SUBSET Conn /\ Deleting' \in SUBSET Conn
      BY DEF Busy, Deleting
    <3> QED
      BY <3>1, ConnAssumption, FS_Subset, FS_CardinalityType
  <2> QED
    BY <2>1, <2>2, Measures DEF TypeOK, Restless
<1>n. Cardinality(Busy) \in Nat /\ Cardinality(Deleting) \in Nat /\ events \in Nat /\ events' \in Nat
  BY Finite DEF TypeOK
<1>s. UNCHANGED hash => Restless' = Restless
  BY DEF Restless, Routed
<1>1. ~Click
  <2> SUFFICES ASSUME Click PROVE FALSE
    OBVIOUS
  <2>1. Act
    BY DEF Click, ListClick, EditClick, PreviewClick, listPost, newPost, openPost, Type, previewPost,
           savePost, DeletePost, editPost, Navigate
  <2> QED
    BY <2>1 DEF Act, TypeOK
<1>2. CASE HashChange
  <2>0. hash.dir \in Dir \cup {NoDir} /\ hash.id \in Id \cup {0} /\ events > 0
    BY <1>2, HashParts DEF TypeOK, HashChange
  <2>1. ASSUME UNCHANGED hash, events' = events - 1, NEW c \in Conn, NEW v \in Calls, Free(c),
               v.kind \notin {"none", "delete"}, call' = [call EXCEPT ![c] = v]
        PROVE  Smaller
    <3>1. Cardinality(Busy') = Cardinality(Busy) + 1 /\ Deleting' = Deleting
      BY <2>1, Sent
    <3>2. Restless' = Restless /\ Deletes' = Deletes
      BY <1>m, <1>s, <2>1, <3>1
    <3>3. Left' < Left
      BY <1>m, <1>n, <2>0, <2>1, <3>1
    <3> QED
      BY <3>2, <3>3 DEF Smaller
  <2>2. ASSUME UNCHANGED call PROVE Busy' = Busy /\ Deleting' = Deleting
    BY <2>2 DEF Busy, Deleting, Free
  <2>3. CASE OnList
    <3>1. PICK c \in Conn : Free(c) /\ call' = [call EXCEPT ![c] = fetchPosts(hash.dir)]
      BY <2>3 DEF OnList, FetchPosts
    <3> QED
      BY <2>0, <2>1, <2>3, <3>1, Requests DEF OnList
  <2>4. CASE OnPost
    <3>1. CASE \E c \in Conn : Free(c) /\ call' = [call EXCEPT ![c] = getPost(hash.dir, hash.id)]
      <4>1. PICK c \in Conn : Free(c) /\ call' = [call EXCEPT ![c] = getPost(hash.dir, hash.id)]
        BY <3>1
      <4> QED
        BY <2>0, <2>1, <2>4, <4>1, Requests DEF OnPost
    <3>2. CASE UNCHANGED call
      BY <1>m, <1>n, <1>s, <2>0, <2>2, <2>4, <3>2 DEF OnPost, Smaller
    <3> QED
      BY <2>4, <3>1, <3>2 DEF OnPost, Get
  <2>5. CASE OnElse
    <3>1. Busy' = Busy /\ Deleting' = Deleting
      BY <2>2, <2>5 DEF OnElse
    <3>2. Restless' < Restless \/ (Restless' = Restless /\ events' = events - 1)
      BY <1>n, <2>0, <2>5, GoneHome DEF OnElse
    <3> QED
      BY <1>m, <1>n, <2>0, <3>1, <3>2 DEF Smaller
  <2> QED
    BY <1>2, <2>3, <2>4, <2>5 DEF HashChange
<1>3. ASSUME NEW c \in Conn, Settles(c) PROVE Smaller
  <2>1. ~Free(c) /\ Settle(c)
    BY <1>3 DEF Settles, ListSettles, GetSettles, CreateSettles, SetSettles, DeleteSettles, Free
  <2>2. /\ Cardinality(Busy') = Cardinality(Busy) - 1
        /\ call[c].kind = "delete" => Cardinality(Deleting') = Cardinality(Deleting) - 1
        /\ call[c].kind # "delete" => Deleting' = Deleting
    BY <2>1, Ended
  <2>3. CASE call[c].kind = "delete"
    BY <1>m, <1>n, <2>2, <2>3 DEF Smaller
  <2>4. CASE call[c].kind # "delete"
    <3>1. UNCHANGED <<hash, events>> \/ Goto(Home)
      BY <1>3, <2>4 DEF Settles, ListSettles, GetSettles, CreateSettles, SetSettles, DeleteSettles
    <3>2. Restless' < Restless \/ (Restless' = Restless /\ events' = events)
      BY <1>n, <1>s, <3>1, GoneHome DEF Goto
    <3> QED
      BY <1>m, <1>n, <2>2, <2>4, <3>2 DEF Smaller
  <2> QED
    BY <2>3, <2>4
<1> QED
  BY <1>1, <1>2, <1>3 DEF Next

(* Every step of the application's own makes what is left to do smaller, so   *)
(* left alone it comes to rest (the handlers that assign the hash,            *)
(* app.component.ts:22, 46, 60, 106, 143).                                    *)
THEOREM WindsDownHolds == Spec => WindsDown
<1>1. TypeOK /\ TypeOK' /\ [Next]_vars => [acts' = acts => Smaller]_vars
  BY WindsStep
<1> QED
  BY <1>1, TypeCorrect, PTL DEF Spec, WindsDown
=============================================================================
