------------------------------- MODULE BlogApp -------------------------------
(* The front end (src/angular-blog/src/app): the application component, its   *)
(* list, edit and preview components and the requests of its blog service.    *)
(* One step is one turn of the browser's event loop: a click, a keystroke, a  *)
(* hashchange event or the settling of a fetch.  Fetches are answered in any  *)
(* order and in any way; BlogSystem puts a server behind them.                *)
(*                                                                            *)
(* A text is a sequence of pieces, each marked with the post it was written   *)
(* for: what texts are compared for is only whose they are.                   *)
EXTENDS Naturals, Sequences, FiniteSets

CONSTANTS
  Dir,        \* directory names a user may type
  Alphabetic, \* those of them the routes' [A-Za-z]+ matches
  NoDir,      \* the empty name
  Id,         \* ids of posts
  Typed,      \* fragments a user types, goes back to or opens the page with
  Conn,       \* BOUND: fetches in flight at once
  NoConn,
  MaxText,    \* BOUND: length of a text
  MaxActs     \* BOUND: clicks, keystrokes and navigations

ASSUME DirAssumption == Alphabetic \subseteq Dir /\ NoDir \notin Dir
ASSUME IdAssumption == Id \subseteq Nat \ {0}
ASSUME ConnAssumption == IsFiniteSet(Conn) /\ NoConn \notin Conn
ASSUME BoundAssumption == MaxText \in Nat /\ MaxActs \in Nat

VARIABLES
  hash,        \* window.location.hash
  events,      \* hashchange events queued and not handled yet
  appState,    \* which of the components edit and preview is shown, if any
  directory,
  posts,       \* ids in the list
  currentPost,
  body,        \* of the preview component: the text its HTML was made from
  call,        \* call[c]: the fetch c is busy with
  lastList,    \* HISTORY: the newest fetchPosts, while it is in flight
  lastGet,     \* HISTORY: the newest getPost, while it is in flight
  listNewest,  \* HISTORY: posts is the answer to the newest fetchPosts
  postNewest,  \* HISTORY: currentPost is the outcome of the newest get
  acts         \* BOUND: clicks, keystrokes and navigations so far

view == <<appState, currentPost, body>>
list == <<posts, lastList, listNewest>>
got  == <<lastGet, postNewest>>
vars == <<hash, events, appState, directory, posts, currentPost, body, call,
          lastList, lastGet, listNewest, postNewest, acts>>
-----------------------------------------------------------------------------
(* Texts of the post i of directory d. *)
Own(d, i)   == Seq({<<d, i>>})
Texts(d, i) == UNION {[1..n -> {<<d, i>>}] : n \in 0..MaxText}

MdPost(d, i, t) == [directory |-> d, postid |-> i, content |-> t]
Blank           == MdPost(NoDir, 0, <<>>)

(* The fragments of the URL: "" and "/", and those the application writes or  *)
(* a user types.                                                              *)
Path(v, d, i) == [view |-> v, dir |-> d, id |-> i]
NoHash        == Path("none", NoDir, 0)
Home          == Path("home", NoDir, 0)
Listed(d)     == Path("list", d, 0)
Hash ==
             {NoHash, Home} \cup {Listed(d) : d \in Dir \cup {NoDir}}
        \cup {Path(v, d, i) : v \in {"edit", "preview"}, d \in Dir \cup {NoDir}, i \in Id \cup {0}}

ASSUME TypedAssumption == Typed \subseteq Hash

(* The regular expressions of onHashChange. *)
Routed(h) == h.view \in {"list", "edit", "preview"} /\ h.dir \in Alphabetic

(* pathList[2], and what its neighbour would be. *)
SegmentBefore(h) == h.view
Segment(h) == h.dir

(* The requests of BlogService. *)
Call(k, d, i, t) == [kind |-> k, dir |-> d, id |-> i, text |-> t]
NoCall           == Call("none", NoDir, 0, <<>>)
fetchPosts(d)    == Call("list", d, 0, <<>>)
getPost(d, i)    == Call("get", d, i, <<>>)
createPost(d)    == Call("create", d, 0, <<>>)
setPost(d, p)    == Call("save", d, p.postid, p.content)
deletePost(d, i) == Call("delete", d, i, <<>>)

Free(c) == call[c].kind = "none"
-----------------------------------------------------------------------------
(* Assigning location.hash: an event is queued if that changes it. *)
AssignAlways(from, to, n) == hash' = to /\ events' = n + 1
Assign(from, to, n) == hash' = to /\ events' = n + (IF from = to THEN 0 ELSE 1)
Goto(h) == Assign(hash, h, events)

(* The preview component renders when it is created (ngOnInit) and when it is *)
(* given another post object (ngOnChanges).                                   *)
RenderedOnce(s, post, assigned) ==
  IF s # "preview" THEN <<>> ELSE IF appState = "preview" THEN body ELSE post.content
Rendered(s, post, assigned) ==
  IF s # "preview" THEN <<>>
  ELSE IF appState = "preview" /\ ~assigned THEN body ELSE post.content

Show(s)      == appState' = s /\ body' = Rendered(s, currentPost, FALSE) /\ UNCHANGED currentPost
Display(s, p) == appState' = s /\ currentPost' = p /\ body' = Rendered(s, p, TRUE)

(* fetchPosts(dir), sent on c together with the calls of f. *)
FetchPostsHere(c, dir, f) ==
  /\ Free(c) /\ call' = [f EXCEPT ![c] = fetchPosts(directory)]
  /\ lastList' = c /\ listNewest' = FALSE /\ UNCHANGED posts

FetchPosts(c, dir, f) ==
  /\ Free(c) /\ call' = [f EXCEPT ![c] = fetchPosts(dir)]
  /\ lastList' = c /\ listNewest' = FALSE /\ UNCHANGED posts

(* get(dir, postid), in state s. *)
Get(s, dir, postid) ==
  \/ /\ postid # 0
     /\ \E c \in Conn : Free(c) /\ call' = [call EXCEPT ![c] = getPost(dir, postid)] /\ lastGet' = c
     /\ postNewest' = FALSE
     /\ Show(s)
  \/ /\ postid = 0
     /\ Display(s, Blank)
     /\ lastGet' = NoConn /\ postNewest' = TRUE
     /\ UNCHANGED call
-----------------------------------------------------------------------------
(* The constructor calls onHashChange with whatever fragment the page was     *)
(* opened with; that is what handling one queued event would do, also when it *)
(* has replaced an empty fragment first.                                      *)
Init ==
  /\ hash \in Typed /\ events = 1
  /\ appState = "list" /\ directory = NoDir
  /\ posts = {} /\ currentPost = Blank /\ body = <<>>
  /\ call = [c \in Conn |-> NoCall]
  /\ lastList = NoConn /\ lastGet = NoConn
  /\ listNewest = FALSE /\ postNewest = FALSE
  /\ acts = 0

(* onHashChange: the handler reads the fragment of now, not the event's. *)
OnList ==
  /\ Routed(hash) /\ hash.view = "list"
  /\ directory' = Segment(hash) /\ Show("list")
  /\ \E c \in Conn : FetchPosts(c, hash.dir, call)
  /\ events' = events - 1 /\ UNCHANGED <<hash, got>>

OnPost ==
  /\ Routed(hash) /\ hash.view # "list"
  /\ directory' = Segment(hash) /\ Get(hash.view, hash.dir, hash.id)
  /\ events' = events - 1 /\ UNCHANGED <<hash, list>>

OnElseKeeps ==
  /\ ~Routed(hash)
  /\ Assign(hash, Home, events - 1)
  /\ UNCHANGED <<view, directory, call, list, got>>

OnElse ==
  /\ ~Routed(hash)
  /\ directory' = NoDir /\ Assign(hash, Home, events - 1)
  /\ UNCHANGED <<view, call, list, got>>

HashChange == events > 0 /\ (OnList \/ OnPost \/ OnElse) /\ UNCHANGED acts
-----------------------------------------------------------------------------
(* Clicks in the list component; a directory is what is in its text field.    *)
Act == acts < MaxActs /\ acts' = acts + 1

listPost(dir) ==
  /\ Act
  /\ \E c \in Conn : FetchPosts(c, dir, call)
  /\ Goto(Listed(dir))
  /\ UNCHANGED <<view, directory, got>>

(* With an empty name there is nothing to create, and all else is done. *)
newPost(dir) ==
  /\ Act
  /\ \E b, c \in Conn :
       \/ dir # NoDir /\ b # c /\ Free(b)
          /\ FetchPosts(c, dir, [call EXCEPT ![b] = createPost(dir)])
       \/ dir = NoDir /\ FetchPosts(c, dir, call)
  /\ directory' = dir
  /\ Goto(Listed(dir))
  /\ UNCHANGED <<view, got>>

openPost(post) ==
  /\ Act
  /\ Goto(Path("edit", directory, post))
  /\ UNCHANGED <<view, directory, call, list, got>>

(* The edit component: its text area is bound to the post. *)
Type ==
  /\ Act /\ appState = "edit"
  /\ \E t \in {<<>>, Append(currentPost.content, <<currentPost.directory, currentPost.postid>>)} :
       Len(t) <= MaxText /\ currentPost' = [currentPost EXCEPT !.content = t]
  /\ UNCHANGED <<hash, events, appState, directory, body, call, list, got>>

previewPost ==
  /\ Act /\ appState = "edit"
  /\ Goto(Path("preview", currentPost.directory, currentPost.postid))
  /\ UNCHANGED <<view, directory, call, list, got>>

(* The directory a post is saved in. *)
SavedToHere(p) == directory
SavedTo(p) == p.directory

savePost ==
  /\ Act /\ appState = "edit" /\ currentPost.postid > 0
  /\ \E b, c \in Conn :
       /\ b # c /\ Free(b)
       /\ FetchPosts(c, currentPost.directory,
                     [call EXCEPT ![b] = setPost(SavedTo(currentPost), currentPost)])
  /\ UNCHANGED <<hash, events, view, directory, got>>

DeletePost ==
  /\ Act /\ appState = "edit"
  /\ \E b, c \in Conn :
       /\ b # c /\ Free(b)
       /\ FetchPosts(c, currentPost.directory,
            [call EXCEPT ![b] = deletePost(currentPost.directory, currentPost.postid)])
  /\ UNCHANGED <<hash, events, view, directory, got>>

editPost ==
  /\ Act /\ appState = "preview"
  /\ Goto(Path("edit", currentPost.directory, currentPost.postid))
  /\ UNCHANGED <<view, directory, call, list, got>>

(* The user types a URL, goes back, or follows the link "#". *)
Navigate(h) ==
  /\ Act /\ h # hash
  /\ Goto(h)
  /\ UNCHANGED <<view, directory, call, list, got>>
-----------------------------------------------------------------------------
(* The fetch on c settles: ok, or with a status that is not or no answer.     *)
Settle(c) == call' = [call EXCEPT ![c] = NoCall]

ListSettles(c, ok, ids) ==
  /\ call[c].kind = "list" /\ Settle(c)
  /\ posts' = IF ok THEN ids ELSE {}
  /\ listNewest' = (lastList = c)
  /\ lastList' = IF lastList = c THEN NoConn ELSE lastList
  /\ UNCHANGED <<hash, events, view, directory, got>>

(* The post get has asked for; its callback holds on to dir and postid. *)
LoadedHere(c, t) == MdPost(directory, call[c].id, t)
Loaded(c, t) == MdPost(call[c].dir, call[c].id, t)

GetSettlesStays(c, ok, t) ==
  /\ call[c].kind = "get" /\ Settle(c)
  /\ Display(appState, IF ok THEN Loaded(c, t) ELSE Blank)
  /\ postNewest' = (lastGet = c)
  /\ lastGet' = IF lastGet = c THEN NoConn ELSE lastGet
  /\ UNCHANGED <<hash, events, directory, list>>

GetSettles(c, ok, t) ==
  /\ call[c].kind = "get" /\ Settle(c)
  /\ \/ ok /\ Display(appState, Loaded(c, t)) /\ UNCHANGED <<hash, events>>
     \/ ~ok /\ Display(appState, Blank) /\ Goto(Home)
  /\ postNewest' = (lastGet = c)
  /\ lastGet' = IF lastGet = c THEN NoConn ELSE lastGet
  /\ UNCHANGED <<directory, list>>

CreateSettles(c, ok) ==
  /\ call[c].kind = "create" /\ Settle(c)
  /\ \/ ok /\ UNCHANGED <<hash, events>>
     \/ ~ok /\ Goto(Home)
  /\ UNCHANGED <<view, directory, list, got>>

SetSettles(c) ==
  /\ call[c].kind = "save" /\ Settle(c)
  /\ UNCHANGED <<hash, events, view, directory, list, got>>

DeleteSettles(c, ok) ==
  /\ call[c].kind = "delete" /\ Settle(c)
  /\ \/ ok /\ Display(appState, Blank) /\ Goto(Listed(call[c].dir))
     \/ ~ok /\ UNCHANGED <<hash, events, view>>
  /\ UNCHANGED <<directory, list, got>>

(* Any answer, except that a post's text is its own. *)
Settles(c) ==
  /\ \/ \E ok \in BOOLEAN, ids \in SUBSET Id : ListSettles(c, ok, ids)
     \/ \E ok \in BOOLEAN, t \in Texts(call[c].dir, call[c].id) : GetSettles(c, ok, t)
     \/ \E ok \in BOOLEAN : CreateSettles(c, ok) \/ DeleteSettles(c, ok)
     \/ SetSettles(c)
  /\ UNCHANGED acts

(* What the components emit.  The list is always shown, with a text field for *)
(* a directory; edit and preview are when appState says so.                   *)
ListClick ==
  \/ \E dir \in Dir \cup {NoDir} : listPost(dir) \/ newPost(dir)
  \/ \E post \in posts : openPost(post)

EditClick    == Type \/ previewPost \/ savePost \/ DeletePost
PreviewClick == editPost

Click == ListClick \/ EditClick \/ PreviewClick \/ \E h \in Typed : Navigate(h)

Next == HashChange \/ Click \/ \E c \in Conn : Settles(c)

Spec == Init /\ [][Next]_vars
-----------------------------------------------------------------------------
Quiet == events = 0 /\ \A c \in Conn : Free(c)

Text  == Seq((Dir \cup {NoDir}) \X (Id \cup {0}))
Post  == [directory : Dir \cup {NoDir}, postid : Id \cup {0}, content : Text]
Calls == [kind : {"none", "list", "get", "create", "save", "delete"},
          dir : Dir \cup {NoDir}, id : Id \cup {0}, text : Text]

(* Every variable has its type; what is in flight as the newest fetch of its  *)
(* kind is a fetch of that kind, and its answer has not been shown.           *)
TypeOK ==
  /\ hash \in Hash /\ events \in Nat /\ acts \in Nat
  /\ appState \in {"list", "edit", "preview"} /\ directory \in Dir \cup {NoDir}
  /\ posts \subseteq Id /\ currentPost \in Post /\ call \in [Conn -> Calls]
  /\ lastList \in Conn \cup {NoConn} /\ lastGet \in Conn \cup {NoConn}
  /\ lastList # NoConn => call[lastList].kind = "list" /\ ~listNewest
  /\ lastGet # NoConn => call[lastGet].kind = "get" /\ ~postNewest
  /\ listNewest \in BOOLEAN /\ postNewest \in BOOLEAN

(* When no hashchange event is queued, the application shows the component    *)
(* and the directory of its URL, or the URL is "/", whatever clicks and       *)
(* answers assigned the hash while events were queued (onHashChange, 69-108). *)
RouteSettled ==
  events = 0 =>
    \/ hash = Home /\ directory = NoDir
    \/ Routed(hash) /\ appState = hash.view /\ directory = hash.dir

Shows(p, h) == p.postid = h.id /\ (h.id # 0 => p.directory = h.dir)

(* Once everything has been answered, edit and preview show the post of the   *)
(* URL, a blank one for id 0, unless an older get was answered after the      *)
(* newest (get, 35-53, and every handler that assigns the hash).              *)
ShownIsRouted ==
  Quiet /\ Routed(hash) /\ hash.view # "list" /\ postNewest => Shows(currentPost, hash)

(* The strengthening that makes it inductive: with no event queued, a get for *)
(* the post of the URL is the newest in flight, or none is and the newest has *)
(* shown that post.                                                           *)
GetInv ==
  events = 0 /\ Routed(hash) /\ hash.view # "list" =>
    IF lastGet = NoConn THEN postNewest => Shows(currentPost, hash)
                        ELSE call[lastGet].dir = hash.dir /\ call[lastGet].id = hash.id

(* A post is never saved with the text of another: what the editor holds, and *)
(* what is on its way, was written for the post it goes to, although posts    *)
(* are opened, answered and deleted while others are being edited.            *)
SavesOwnText ==
  /\ currentPost.content \in Own(currentPost.directory, currentPost.postid)
  /\ \A c \in Conn : call[c].text \in Own(call[c].dir, call[c].id)

(* The preview is of the current post, whichever of the two changed last      *)
(* (ngOnInit and ngOnChanges, preview.component.ts:28-36).                    *)
PreviewShowsPost == appState = "preview" => body = currentPost.content

(* Left alone, the application comes to rest: handlers and callbacks assign   *)
(* the hash that triggers them, and still do not keep each other going.  What *)
(* each of their steps makes smaller is, first, the deletes in flight; then   *)
(* how much there is to do about the hash (only "/" starts nothing); then     *)
(* the events and the fetches left (every handler that assigns the hash).     *)
Deletes == Cardinality({c \in Conn : call[c].kind = "delete"})
Restless == IF hash = Home THEN 0 ELSE IF Routed(hash) /\ hash.view = "list" THEN 1 ELSE 2
Left     == 2 * events + Cardinality({c \in Conn : ~Free(c)})

Smaller ==
  \/ Deletes' < Deletes
  \/ Deletes' = Deletes /\ Restless' < Restless
  \/ Deletes' = Deletes /\ Restless' = Restless /\ Left' < Left

WindsDown == [][acts' = acts => Smaller]_vars
=============================================================================
