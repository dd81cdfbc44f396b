# A verification project for MarkDown-Convertor

The repository is a small blog: an HTTP server in C++ (boost::asio and beast)
that keeps users and Markdown posts in plain files, and an Angular front end.
This directory holds TLA+ modules that model the server's concurrent core, the
front end and the two together, TLC configurations that check them on small
instances, and TLAPS proofs of the most important invariants for instances of
any size.

Line numbers refer to `src/src/*.cc`, and those of `.ts` files to
`src/angular-blog/src/app`, unless a path is given.

## 1. The system

| component | state | operations | talks to |
|---|---|---|---|
| acceptor and pool (`server.cc`) | one outstanding accept, `hardware_concurrency` threads in one `io_service::run` | `start_accept`, `handle_accept` | creates a `session` per connection, holds the table of routes |
| session, connection (`session.cc` 7-182, 373-397) | socket, `data_[8192]`, `m_res`, flags `SIGN`, `AUTH_SUCCESS`, `BLOCK` | `handle_read` -> `send_res` -> `handle_write` -> `write_callback` -> `handle_read`, each started by the one before through an asynchronous call | pool threads, request handlers |
| session, users (`session.cc` 207-328) | `m_user_name`; files `./crud/<user>-pwd/password`, `./crud/admin/ip_usr` | `handle_signup`, `handle_signin`, `handle_update_user`, `handle_get_user`, `check_authorized_access` | files shared by all sessions |
| CRUD handler (`crud_request_handler.cc`) | files `<root>/<user>/<id>` | GET of a directory or file, POST, PUT, DELETE | files shared by all threads |
| routing (`server.cc` 13-61, `session.cc` 183-205) | location map, routes | `match`, the server's constructor | configuration |
| static, echo, health, sleep, not-found, Markdown handlers | none | `serve` | session |
| configuration parser (`config_parser.cc`) | token and parser state | `ParseToken`, `Parse`, `GetLocation`, `GetPortNum` | read once by `main` |
| logger (`logger.cc`) | one instance | `log...MSG` | all |
| front end (`app.component.ts`, `blog.service.ts`, the list, edit and preview components) | the URL's hash and its queued events, `appState`, `directory`, `posts`, `currentPost`, fetches in flight | `onHashChange`, the click handlers, the callbacks of fetches | CRUD handler, by HTTP; the browser's event loop |

How they interact. Every thread of the pool runs `io_service::run`; there is no
strand and no mutex anywhere in the program. Two things are therefore shared:
a session's members, which only the order of its asynchronous calls protects,
and the files, which nothing protects.

What is hard. (a) Interleavings: any two requests of two connections, and the
end of one handler with the next handler of the same session. (b) The file
system as a shared store without locks or transactions. (c) Failure: a peer
that resets its connection at any time, an accept or open that fails when the
descriptors have run out (every POST and PUT leaks one, `write_file` line 159),
a crash between two writes. (d) Lifetime: sessions delete themselves.
(e) In the front end, responses that arrive out of order.

What makes each component correct is listed with its module below, and
`PROJECT.json` lists the hazards at their lines with the properties that watch
them.

## 2. Plan

In the order of importance; all of it is done.

1. `CrudHandler` - the handler under any number of threads; `PostStore`, what
   it promises; `CrudRefinesStore`, the refinement; `CrudHandler_proofs`.
2. `Server` - acceptor, pool and sessions; `Server_proofs`.
3. `Auth` - users; `Auth_proofs`.
4. `ConfigParser` - the automata of `ParseToken` and `Parse` with its stack;
   `ConfigGrammar`, the grammar it is checked against; `ConfigParser_proofs`.
5. `BlogApp` - the front end, whatever a server answers; `BlogSystem` - the same
   over `PostStore`, and over connections that break; `BlogApp_proofs`,
   `BlogSystem_proofs`.
6. `Routing` - `GetLocation`, the table of routes and `match`; `Connection` -
   the bytes in a session's buffer, composed with routing and with
   `CrudRefinesStore`; `CrudRefinesStore_proofs`, `Connection_proofs`.

How the modules compose: `PostStore` is the joint. Below it, `Connection`
extends `CrudRefinesStore`, which extends `CrudHandler`: from the pieces of a
request on the wire to the file, one thread implements the store, and so do
many that keep out of each other's directories. Above it,
`BlogSystem` extends `BlogApp` and puts `PostStore` behind its fetches.

## 3. What is modelled

### CrudHandler, PostStore, CrudRefinesStore

`CrudHandler`'s state is the directory tree (`dirs`, `post`) and, per thread,
the handler's program counter `pc`, request, the `id` of the path it tries,
whether its second stream is open (`fd`) and its response `out`. One action is
one system call:

| action | code |
|---|---|
| `Begin` | `serve`, the dispatch on the method (20-46) |
| `OpenDir`, `ReadFile` | `handleGet`: `read_dir`, then `read_file` (80-141, 168-189) |
| `CheckDir`, `MakeDir`, `Probe` | `handlePost`: exists, create_directory, the loop for an id (191-218) |
| `Lookup` | `handlePut`: exists (227-238) |
| `OpenFile`, `ReopenFile`, `WriteFile` | `write_file`: the stream it never uses nor closes, the one it writes, the close (143-166) |
| `Remove` | `handleDelete`: `std::remove` (248-254) |
| `Reply` | the session sends the response |

Any call of a thread in `IOFails` whose failure the code could meet may fail, the
write included, which `write_file` looks at as little as at its opens. What such a
thread is told is worth nothing, as in the code; what its failures do to the
others is what the run asks. A file name built by `get_filepath` is the pair of
directory and id; the text of a post is a sequence of cells, because only lengths
(a shorter text over a longer one) and equality matter. `deleted` and `seen` are
history.

`PostStore` is the promise: a request takes effect at one instant. A POST adds
the text under the least free id; a PUT replaces a post whole.
`CrudRefinesStore` maps one onto the other: a file that is being written counts
when it is written.

Correctness: ids are handed out without gaps (`PrefixIds`), no POST ever opens
a post that was there when it began (`PostNeverClobbers`), an id that a thread
without failures has acknowledged names a post until somebody deletes it
(`AckedPostExists`, whatever fails for the others), no id ever tried or taken
exceeds the number of POSTs begun, so that the probe loop is bounded
(`IdsBounded`), every request is answered (`Answered`), and one thread alone
implements the store (`ImplementsPostStore`).

### Connection, Routing

One connection after another, on one thread. `Connection` adds to
`CrudHandler` the session's buffer (`data`) and what goes through it: `sent`,
what the peer asks for; `wire`, the cells of it that have not been read; and,
while a request is handled, `location`, what `match` has found. A cell is some
bytes: a request is the first and the last part of its head (`Header`), then
the cells of its text.

| action | code |
|---|---|
| `Ask`, `Reconnect` | the peer; a new session's `data_` is whatever the memory held (the constructor, 7-14, does not initialize it) |
| `Refuse` | a piece that is not the whole head, or begins in the text: 400, `data_` stays as it is (58-86) |
| `Dispatch` | the body, `data_ + bytes_parsed` as a C string up to the first NUL (92-97), and the handler: that of `/` for a sign-up or sign-in (119-138, 330-371), otherwise that of the location matched; `ToCrud`, `ToOther`, `ToNotFound` when the request is blocked or its handler fails, `NoFactory` for a null pointer (139-161) |
| `Handle` | the CRUD handler, one system call per step |
| `Finish` | the `memset` (171) |

`async_read_some` returns as many cells as it likes, so a request arrives in
any pieces; each is parsed as a request of its own. Behind `data_` lies `SIGN`,
which `send_res` has just set to false: there the string ends at the latest.
The head never occurs inside a text, and requests are not pipelined. On one
thread the `memset` cannot meet the next request; that race is `Server`'s.
What follows a location in a target is not spelled out: it is the directory and
id of the request that stands beside the target. A target is a sign-up's or
sign-in's (`Signs`) when it contains one of `Forms`; what that does to the
users' files is `Auth`'s subject.

`Routing` is the pure part: `GetLocation` folds the statements of a
configuration into a map from URL to handler (59-93 of `config_parser.cc`), a
later statement replacing an earlier one; `Routes` is the table of factories
that `server`'s constructor makes (23-60 of `server.cc`); `match` takes the
first location in reverse alphabetical order that begins the target, skipping
an echo location that is not all of it (183-205). A URL is a sequence of
numbers in the order of its characters, because the order is what `match`
depends on. The path a location is given is dropped, only its presence is kept
(`rooted`).

Correctness: the longest location wins although nothing in the code compares
lengths (`LongestMatch`); with at least one location and handlers the server
knows, nothing is called through a null pointer, but for a sign-up or sign-in
where no location is `/` (`HandlerFound`); a request on a connection whose last
request parsed is served with exactly the part of its text that arrived in one
piece with its head, all of it if the request is in one piece (`BodyIsSent`); on
any other connection what an older piece, or nobody at all, has put in the
buffer may follow that part, but it never comes before it, nor where no part has
arrived (`BodyBegins`); and through all of that one thread still implements
`PostStore` (`ImplementsPostStore`), each request with the text it is served
with.

### BlogApp, BlogSystem

State: `location.hash` (`hash`) and the number of `hashchange` events that have
been queued and not handled (`events`), the members of `AppComponent`
(`appState`, `directory`, `posts`, `currentPost`), the preview's rendered text
(`body`) and the fetches in flight (`call`, with directory, id and text as
their callbacks close over them). `lastList`, `lastGet`, `listNewest`,
`postNewest`, `cleanList` and `cleanPost` are history: whether what is shown is
the answer to the newest fetch, and whether anything changed under that fetch.
One step is one turn of the event loop:

| action | code |
|---|---|
| `HashChange`: `OnList`, `OnPost`, `OnElse` | `onHashChange` (`app.component.ts` 68-108) with the `get` or `fetchPosts` it calls; it reads the hash of now, not the event's |
| `listPost`, `newPost`, `openPost` | clicks in the list component |
| `Type`, `previewPost`, `savePost`, `DeletePost` | the text area and the buttons of the edit component |
| `editPost` | the button of the preview component |
| `Navigate` | a typed URL, the browser's back button, a link |
| `ListSettles`, `GetSettles`, `CreateSettles`, `SetSettles`, `DeleteSettles` | the callbacks, of a response that is ok or of any failure |

Assigning the hash queues an event if it changes the hash (`Assign`), and that
event is handled in a later turn: clicks and answers come in between. The
preview renders when it is created and when its input is another object
(`Rendered`: `ngOnInit`, `ngOnChanges`). A text is a sequence of pieces, each
marked with the post it was written for, since whose they are is all that texts
are compared for.

In `BlogApp` a fetch is answered at any time and in any way, except that the
text of a post is its own. `BlogSystem` puts `PostStore` behind it, a worker
per connection: a request waits in the browser (`Send`), takes effect (`Serve`)
and is answered (`Answer`); a connection may break at any point (`Break`), the
promise is rejected, and the server, which does not notice, still serves the
request. The store is what one thread promises; that two POSTs at once may get
one id is the subject of `crud_ids` and not repeated here. The user of this
browser is the only one who changes posts.

Correctness: once the events are handled, component and directory are those of
the URL (`RouteSettled`); at rest, edit and preview show the post of the URL
(`ShownIsRouted`); no text is saved as (`SavesOwnText`) or stored as
(`NoCrossWrite`) another post's; the preview is the current post's
(`PreviewShowsPost`); at rest the list and the post are those of the server
(`ListFresh`, `PostFresh`); and handlers that assign the hash and handlers that
react to it do not keep each other going (`WindsDown`). `ShownIsRouted`,
`ListFresh` and `PostFresh` carry the conditions under which the code can keep
them: the newest fetch was answered last, and no change was under way when it
was sent. The code does not establish these conditions: `savePost` and
`newPost`, for instance, fetch the list on another connection than the change,
in the same turn.

### Server

State: the outstanding accept (`listening`), the session objects (`object`:
none, allocated, deleted), the calls outstanding per session (`op`), the
completions waiting for a thread (`queue`), the threads (`pc`, `cur`), the
response (`res`), the sessions whose buffer was wiped (`wiped`) and the peers
(`client`, `asked`, `read`, `got`). `CompleteAccept`, `CompleteRead`,
`CompleteWrite` are the operating system's, `Send` and `Leave` the peer's;
everything else is a thread's: `Take` a completion, `HandleAccept` and
`StartAccept` (84-109), `SendRes` -> `Serve` -> `LogMetrics` -> `HandleWrite` ->
`ClearBuffer` (`send_res`), `WriteCallback`. `send_res` is split where another
thread or the peer can interfere: the parse, the handler, the question for the
peer's address, the start of the write, and the `memset` after it.

The `memset` (171) is a data race with the next request of the same session. Its
outcomes are modelled: the request in the buffer is parsed before it is cleared,
or is cleared first and then does not parse. (Parse, 56, and copy of the body, 96,
are one step: a `memset` between them would empty the body, and bodies are
`Connection`'s.) The model also reaches a `memset` on a session that another
thread has deleted, at 394 or 179, when the write, or the read behind it, has
failed. That is undefined, and what it leads to is left out.

A thread `Uses` a session while it is in one of its handlers, up to the call
that hands it on or deletes it (`Busy`), and at the `memset` (`AtMemset`).

Correctness: but for threads at the `memset`, one thing at a time goes on in a
session (`OneActivity`); no outstanding call and no completion refers to a
deleted one, and no thread uses one, again but for the `memset` (`NoDangling`;
in a pool of one the exception falls away); the response stays put while it is
written (`ResponseStable`), answers come in order and an invalid request is
refused (`InOrder`), a peer that stays is answered (`Answered`), an accepted
connection does not end the listening (`AcceptsAgain`), and sessions end with
their peers (`SessionsEnd`). What keeps a session alive is only that somebody
will call it back: `NothingForgotten` says that every session object is listened
on, awaited or in a thread's hands until it is deleted, and that the server
listens, or is about to, until an accept fails.

A handler's result is a code from `Answers`: a failing handler is answered by
the not-found handler. Requests are good (they parse) or bad; a peer sends the
next one when it has its answer, so requests are not pipelined.

### Auth

Names are whatever a client signs up with: `handle_signup` checks nothing, so one
may be empty and one may be an address. State: the files (`folder`, `pwd`,
`home`, `log`), and per session the next
system call, the request, `m_user_name` (`user`), how far `handle_get_user` has
read the log (`pos`) and its answer. `last` and `proven` are history: the user
last logged for an address, and who has signed up or in from where. Passwords
are sequences of characters, because a second sign-up's write may overlay the
first's.

Actions follow the code line by line: `Receive` and `Lookup` (308-328; the log is
read a line per step, so other sessions append meanwhile), `Check` (207-224 and
the dispatch), `Exists`, `MakeDir`, `Truncate`, `Write`, `MakeHome`
(`handle_signup`), `ReadPassword` (`handle_signin`), `AppendAddress` and
`AppendName` (`handle_update_user`: each `std::endl` is a write of its own),
`Reply`. Opens and writes may fail (`IOFails`), and nothing notices: an update may
write one of its two lines only. `Crash` ends the process at any point; the files
stay. A directory that cannot be created throws out of `handle_signup` and ends
the process, which is a `Crash` too. `Reconnect` is a new session on a new
connection.

The log is meant to be address, name, address, name. `Paired` says that it is;
two updates at once, one cut in half by a crash or a failing write, or a name
that is an address break it for good. What can be relied
on is therefore stated while the log is paired: a look-up ends with the user
last logged for the address (`LookupFaithful`), and only the entitled are
served (`Entitled`). A finished account's password is final (`PasswordFinal`),
paired or not.

### ConfigParser, ConfigGrammar

State: of `ParseToken`, its state (`lex`, with the mark of the quotation it is
in), the token so far (`value`) and the character it has peeked at or put back
(`ahead`); of `Parse`, `last_token_type` (`last`), the `stack` of open
configurations and the `result`. `tokens` and `error` are history. The file is
not a variable: each step reads some character, so TLC runs through all files.
`White`, `Quotation`, `Escape`, `Comment` and `InWord` are the cases of
`ParseToken`'s switch (175-275); the two quotation marks have equal states and
share one. When a token is complete, the same step gives it to `Parse` (`Give`:
`Word`, `StatementEnd`, `StartBlock`, `EndBlock`, 316-367). `AtEnd` is the end
of the file (279-287, 368-381). A word or a quotation that ends in a backslash
at the end of the file is dropped there, not rejected. Popping or using an
empty stack is undefined behaviour and a result of its own.

Correctness is stated in `ConfigGrammar`, which only TLC uses because it is
recursive: `Parse` accepts exactly the grammar and rejects in time
(`AcceptsExactly`), and what it has built, written out by `ToString`, is what
it has read (`RoundTrip`). `AcceptsBalanced`, in `ConfigParser`, says without
recursion what `Parse` accepts: every statement ends and the braces balance.
`TokenShape` is about `ParseToken`.

## 4. What is checked

Every module comes with faulty variants of some of its definitions (`EmptyAny`,
`FirstMatch`, ...), each a plausible bug; `PROJECT.json` names for every
property a variant that makes TLC report it violated.

| run | instance | shows |
|---|---|---|
| `crud_two` | 2 threads, 1 directory, 2 POSTs, calls of one thread may fail | `TypeOK`, `PrefixIds`, `PostNeverClobbers`, `AckedPostExists`, `IdsBounded`, `IInv` (the invariant of the proofs), `Answered` |
| `crud_ids` | 2 threads, 1 directory, 2 POSTs, no failures | violation of `DistinctIds` |
| `connection` | 1 thread, 1 directory, 2 POSTs, 4 configurations, 6 targets of which 2 sign up, a buffer of 4 cells that starts full of text, texts of up to 3 cells | the properties of `Connection` and the refinement of `PostStore` |
| `blog` | 2 directories, one of which the routes match, ids 1 to 3, 1 post at the start, 3 fetches at once, 2 clicks, keystrokes or navigations, 1 broken connection, texts of length 0-1, 5 fragments | the properties of `BlogApp` and `BlogSystem` |
| `server_safe` | 2 threads, 2 sessions, 2 requests each | the safety properties of `Server` |
| `server_live` | 2 threads, 2 sessions, 1 request each | its liveness properties |
| `server_crash` | as `server_live` | violation of `StaysUp` |
| `server_wiped` | as `server_safe` | violation of `RefusedIsInvalid` |
| `auth` | 2 sessions at 2 addresses, 3 names (an ordinary one, the empty one, an address), 2 passwords, 2 sign-ups or sign-ins, failing opens and writes, 1 crash | the properties of `Auth` |
| `config` | files of up to 6 characters: a letter, both quotation marks, `;{}#\`, space, line feed, carriage return | the properties of `ConfigParser` and `ConfigGrammar` |
| `auth_mixed`, `auth_twice` | 2 sign-ups, no failures | violations of `MatchesUser`, `SignedUpOnce` |

Bounds. Two threads and two sessions are enough for the races, which are all
between two handlers; the proofs say the invariants do not depend on it. Two
POSTs, with PUTs and DELETEs between them without a bound, let one thread probe
past the post another is making, or fill the gap a DELETE has left. Passwords of
length one and two let a write leave a rest of a longer one. Two sign-ups or
sign-ins (`MaxSigns`) mix their lines, and any number of other requests look users
up meanwhile and afterwards; the name that is an address is that of neither
client, so that the clients stay interchangeable (once it is logged the log is no
longer paired, whoever's address it is). Six characters allow a block in a block,
two statements, a word after a block, and an escaped mark inside a quotation that
is followed by a token; white space before a token and the character after a
quotation are not counted. A buffer of four cells (`MaxLength`) holds a head and
two cells of text: a text of three does not fit and comes in pieces always, one
that fits comes in pieces or whole, and one of a single cell leaves room for what
was there before. The four configurations have no location; three with an echo
location among them; a handler's name that nobody knows and a location without a
root; and one URL twice. Three fetches (`Conn`) allow a change and the list
fetched behind it while an older get is still in flight; two acts (`MaxActs`) on
top of the page's opening give two handlers that overlap, such as a save or a
delete while another post is opened. One broken connection (`MaxBreaks`) leaves a
request at the server that the browser has given up. Longer texts (`MaxText`) add
nothing: pieces are told apart by their post only. One directory is enough for the
refinement's run: that two do not disturb each other is part of `ApartIsAtomic`.
`MaxPosts`, `MaxRequests`, `MaxSigns`, `MaxCrashes`, `MaxActs` and `MaxBreaks`
bound only how often something begins.

Symmetry is used in safety runs only (threads, sessions or connections are
interchangeable); in `auth` sessions and their addresses are swapped together.

Deadlock is not checked in `ConfigParser`, which stops when `Parse` has
returned; in `Server`, where everything may stop: the peers have left, the
bound on session objects is reached, or the process is down; in `BlogSystem`,
which comes to rest; and in `Connection`, which stops when a request has no
factory.

Fairness. A pool thread that can take a step takes one (`WF` of `Serve` per
thread in `CrudHandler`, of `Run` per thread in `Server`, of `Handle` or
`Finish` per thread in `Connection`): threads are scheduled by the operating
system and never wait for each other. The operating system completes reads and
writes that can complete. Nothing is assumed of peers, of new connections, nor
of `accept`. `Auth` claims no liveness. `BlogApp` needs no fairness: that it
comes to rest is stated as a measure that every step except the user's makes
smaller (`WindsDown`), which holds however the browser schedules its events.

The five violations are disagreements of the code with what
it says of itself (`PROJECT.json`, findings). For all but the second a theorem
(section 5) says that what is named here is all it takes: without it the property
holds, at any size.

- two POSTs at once are answered with the same id and share one post
  (`handlePost` probes and opens in two calls). Where POSTs to one directory
  follow each other, ids are distinct (`SerialPostsDistinct`);
- a peer's reset between its request and the answer terminates the process
  (`remote_endpoint` throws at line 163 outside any try);
- the `memset` after the write has been started wipes the next request, which
  is then refused with 400 although it is valid. A thread that comes to it in time
  does no harm (`TimelyRefusedIsInvalid`), nor does a pool of one
  (`OneThreadRefusedIsInvalid`);
- two sign-ins at once mix their lines in the log, and look-ups go wrong from
  then on. Updates that do not overlap, are not cut in half by a crash or a failing
  write, and bring no name that is an address keep the log right
  (`SerialLogPaired`, `SerialMatchesUser`);
- two sign-ups of one name at once both succeed. One that comes to its test when
  no other is between its test and its `mkdir` finds out (`SerialSignedUpOnce`).

## 5. What is proved

`tlapm` checks every proof to its leaves. The proofs hold for every set of
threads, sessions, users, bodies and every value of the bounds, from the
assumptions on constants named in the modules (all are facts about the input:
bodies are sequences, no address is the empty string, passwords are not empty,
letters are not marks, neither NUL nor a request's head is in a text). A theorem
that needs more says so in its statement: `OneThread` (all workers are one, and
its calls do not fail), `IOFails = {}` with `Apart` in every state (below), `Id =
Nat \ {0}` (the store's ids do not run out), and the theorems about a race that
does not happen (`SerialPosts`, `SerialUpdates` with `WholeUpdates` and
`NoAddressNames`, `SerialSignUps`, `ClearsInTime`). The last are conditions on
schedules, and one on input, which the code does not enforce: each excludes one
event, and behaviours that meet it do everything else the code does. One thread
that takes a request at a time meets all but `WholeUpdates`, which is about
crashes and failing writes, and `NoAddressNames`.

- `CrudHandler_proofs`: `TypeCorrect`, `PrefixIdsHolds`,
  `PostNeverClobbersHolds`, `AckedPostExistsHolds`, all from `CrudInvariant`.
  Its heart is `ProbeInv`: every id below the one a thread tries has been used.
  It must hold while the thread sleeps between two calls and others delete, so
  it speaks of ids ever used (`Used`), a set no step shrinks. `PrefixIds` alone
  is not inductive: the step that creates a post needs to know what the probe
  loop has seen. `IInvHolds` is the invariant itself, which the run checks.
  `IdsBoundedHolds` is the safety half of `Answered`'s hard case, that the probe
  loop ends although others create posts in front of it: it counts. The ids used
  or settled on in a directory (`Taken`), and the POSTs still looking for one
  (`Trying`), are together no more than the POSTs begun (`CountInv`); while a
  POST sees an id taken it is itself one of those still looking, so there is
  room for one round more. `ServedInBound` makes a measure of it: `Left(w)`, the
  steps a request still needs at most, gets smaller with every step of its own
  thread and does not change with any step of another, so a request ends within
  `MaxPosts + 6` steps of its thread; that the thread runs is all `Answered` adds.
  `SerialPostsDistinct` is about `crud_ids`: if no two POSTs are ever at work in
  one directory (`SerialPosts`), an id is answered once. `KnownInv` is why: a POST
  at work has seen every post acknowledged before it, since the other one was
  done when it began, and it never opens what it has seen.
- `CrudRefinesStore_proofs`: `ApartIsAtomic` - any number of threads, on any
  number of directories, start as `PostStore` does, and every system call is one
  of its steps or a stutter, if no system call fails and in every state two
  threads are at work in one directory only when both of them just read
  (`Apart`). So what goes wrong in `crud_ids` takes two requests of which one
  writes, at once, in one user's directory: users do not disturb each other.
  `AloneInv` is what a thread may then rely on between two calls: that nobody
  has touched the path it has looked at, nor what it has truncated. `AllMapped`
  says what the store's state is in each directory: the tree's, with the text of
  the one thread that writes there. A step changes that in its own directory
  and exchange only (`Local`, from `BarElsewhere`). `Apart` cannot be dropped,
  as `crud_ids` shows, and the code does not enforce it: a user with two open
  pages breaks it. `OneThreadIsAtomic` (under `OneThread`) is a corollary.
- `Connection_proofs`: `LongestMatchHolds` from `FirstIsLongest`: of two
  beginnings of one string the shorter is the smaller (`ShorterIsLess`), so the
  first from the end is the longest. `ConnTypeCorrect`, `HandlerFoundHolds`,
  `BodyIsSentHolds` and `BodyBeginsHolds` (under `OneThread`), the last two from
  `ConnInv`: what is unread is the end of what was sent (`WireInv`), so a piece
  that parses is its beginning, the head occurring nowhere else; while the session
  reads, the buffer is all NUL when the last request parsed (`BufferInv`); and
  what is served begins with what of the text came with the head (`TextInv`).
  `BodyIsSent` alone says nothing of the buffer between two requests.
  `ConnectionIsAtomic` composes the two modules: each step of the connection is a
  step of `CrudHandler` or leaves it alone, hence one of `PostStore` or a stutter.
- `BlogApp_proofs`: `TypeCorrect`; `RouteSettledHolds` and
  `PreviewShowsPostHolds`, both inductive with the types; `ShownIsRoutedHolds`,
  from `GetInv`: while nothing is queued, the newest get in flight is for the
  post of the URL, which is what makes its answer the right one to show;
  `SavesOwnTextHolds`; and `WindsDownHolds`, by comparing for each action the
  deletes in flight, what the hash has still to cause, and the events and
  fetches left, in that order.
- `BlogSystem_proofs` (under `Id = Nat \ {0}`): `SystemImplementsApp`,
  `SystemSpec => Spec`, so that everything proved of `BlogApp` holds with the
  server behind it (`SystemShowsAndSaves`), and `NoCrossWriteHolds`. `BlogApp`
  takes for granted that no answer brings another post's text; that the store
  never gives one is `SystemInv`: posts hold their own texts (`StoreInv`), so
  do requests and answers (`RequestInv`), and the request at the server is the
  one its connection is waiting for, unless that has broken (`LinkInv`).
  `ListFreshHolds` and `PostFreshHolds` follow a change and the fetch behind it
  through connection, store and answer (`FreshInv`): while the newest fetch is
  clean, whatever carries it holds what the store held when it was served, and
  no change of that directory or post is under way behind it (`CleanInv`).
- `ConfigParser_proofs`: `TypeCorrect` and `TokenShapeHolds`, from `LexInv`:
  what `ParseToken` has gathered in each state is an open word or an open
  quotation, and whether it is in an escape state is the parity of the
  backslashes at its end (`Escaped`). `AcceptsBalancedHolds`, from `BraceInv`:
  until one too many is closed, the stack is one deeper than braces are open.
  The two other theorems are about the grammar. `Grammar` and `Writes` are its
  rules, as closure conditions on a set of token sequences and on a relation
  between configurations and token sequences; the least such set or relation is
  what the recursive definition computes, so neither theorem needs induction over
  data. `AcceptsGrammarHolds`: `Parse` returns true exactly for the sequences in
  every set closed under the rules, by `BuildInv` in one direction and, in the
  other, because the balanced sequences are such a set. While it goes on, its
  stack is empty exactly when the tokens are not the beginning of such a sequence.
  For that `Completes`, about token sequences alone, keeps with what is open
  all that can end it (`Ending`): a token of a beginning turns an ending of the
  longer sequence into one of the shorter. `BuildsHolds`: the pair
  of the configuration returned and the tokens read is in every relation closed
  under the rules. `BuildInv` is their invariant: the tokens fall into one piece
  per configuration on the stack, which begins at the brace that opened it, and
  each piece spells the configuration there, its last statement unended.
- `Server_proofs`: `TypeCorrect`, `OneActivityHolds`, `NoDanglingHolds`,
  `ResponseStableHolds`, from `SessionInvariant`. None of them is inductive alone:
  deleting a session is harmless because the deleting thread is its only activity,
  and it is the only activity because an object is never allocated twice while it
  has one. The `memset` is no activity in this sense, and both statements name it
  as their exception; `OneThreadNoDangling` drops it, since the only thread
  deletes nothing while it is there. `Alone(s)` states both for one session; every
  step changes one session and leaves the others' `Alone` untouched (`Elsewhere`).
  `InOrderHolds` follows a request from the buffer to the wire in addition:
  `Ordered(s)` says for each place at which the session's one activity can be (a
  completion, a thread, a write) how many of the peer's requests have been read
  and answered there, and what the response is. `NothingForgottenHolds` is the
  converse of `NoDangling`: what is not deleted is referred to. It needs to know
  that the server's accept is in one place only, outstanding, completed or in a
  handler (`OneAccept`), or `start_accept` could drop a session that is still
  listened on; and that nobody is connected to a session whose accept has failed
  (`Away`). `TimelyRefusedIsInvalid` follows each 400 back to the request it
  answers (`JustInv`); `ClearsInTime` says that no thread comes to the `memset`
  when the next request is already in the buffer. In a pool of one it cannot
  (`OneThreadRefusedIsInvalid`, from `ClearsAlone`): the thread that has to read
  the next request is still in `send_res`.
- `Auth_proofs`: `TypeCorrect`, `PasswordFinalHolds` (a step argument), and
  `EntitledHolds` and `LookupFaithfulHolds` from `AuthInvariant`. `LogInv` says
  of a paired log that only the session that appended its last address is about
  to append a name, and that every name in it has been proven; `LastInv` ties
  `last` to the log's last entry for an address; `ScanInv` is the loop
  invariant of `handle_get_user`: of the lines read so far, the last that is
  the address decides. An appended line never repairs a log (`PairedAppend`),
  which is why all three may be conditioned on `Paired`. `SerialLogPaired` says
  what keeps it paired: no two sessions in `handle_update_user` at once
  (`SerialUpdates`), no update of which only the address is written, for a crash or
  a failing write (`WholeUpdates`), and no name that is an address, which the log
  could not tell from one (`NoAddressNames`). The
  invariant is `SerialLog`: the log ends with an address just while somebody is
  about to append the name. `SerialMatchesUser` concludes that look-ups then find
  the right user. `SerialSignedUpOnce` needs `SignUpInv`: of the sessions that
  have made a name's directory or are bound to (`Signing`) there is one, and who
  has made it keeps the next from passing the test.

Only model-checked: `AcceptsExactly` and `RoundTrip` as they are written, with a
recursive grammar and the particular completions `CanBecomeValid` tries (what
they say is proved as `AcceptsGrammar` and `Builds`); the fairness half of
`ImplementsPostStore` (the theorems are about its initial states and steps);
everything about liveness, which is out of the prover's reach, as is `ENABLED`:
of `Answered`, `SessionsEnd` and `AcceptsAgain` the safety halves are proved
(`ServedInBound`, `NothingForgotten`).

## 6. What is not modelled

- The parsing of names and passwords out of a target (`session.cc` 226-300):
  `Auth` starts from the name and the password. A target without a password
  part makes the code read past a vector's end, which has no outcomes to
  enumerate.
- `GetPortNum`, which searches the serialized configuration for a number, and a
  configuration file that cannot be opened.
- The static handler's path arithmetic, the other handlers without state, the
  Markdown handler, and the vendored Markdown library. For `Server` and
  `Connection` they are a result.
- What a `memset` into a session that another thread has deleted leads to, a
  `memset` between the parse of a request and the copy of its body, and descriptors
  as a number: their exhaustion is an open or an accept that fails.
- In the front end, what the code promises nothing about: text typed after a
  get was sent is gone when the answer replaces the post, a list fetched while
  a create or delete is under way may stay stale, and a get answered late
  replaces a newer one's post. Also other users' changes, the sign-in page and
  the access check in front of the handler, a URL's optional last slash, and
  commonmark's rendering.
- The logger (output only; `main` creates it before the pool starts), `main`
  itself, the tests and the build files.
- Posts are deleted and created through the CRUD handler only; a directory that
  sign-up creates is the `dirs` `CrudHandler` starts with (any subset).
