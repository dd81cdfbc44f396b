-------------------------------- MODULE Server --------------------------------
(* The server (src/server.cc) and its sessions (src/session.cc): a pool of    *)
(* threads runs the completion handlers of one io_service.  A session object  *)
(* is a chain of handlers, each of which starts the next asynchronous call;   *)
(* no lock and no strand protects it, and it deletes itself on an error.      *)
(*                                                                            *)
(* What a request says is left to other modules: here it parses (good) or     *)
(* does not (bad), and a handler answers it 200 or 404.                       *)
EXTENDS Naturals, Sequences

CONSTANTS
  Thread,      \* the pool: one per hardware thread
  Session,     \* BOUND: session objects that are ever allocated
  NoSession,   \* not a session
  MaxRequests  \* BOUND: requests a client sends on one connection

ASSUME NoSessionAssumption == NoSession \notin Session
ASSUME MaxRequestsAssumption == MaxRequests \in Nat

VARIABLES
  up,        \* the process has not been terminated
  listening, \* the session of the outstanding async_accept
  object,    \* object[s]: has s been allocated, has it been deleted?
  op,        \* op[s]: the asynchronous calls outstanding on s's socket
  queue,     \* completions no thread has taken yet
  pc,        \* pc[t]: where thread t is in a handler
  cur,       \* cur[t]: the completion t handles
  res,       \* res[s]: m_res, the response of s (0: none yet)
  client,    \* client[s]: the peer of s's socket
  asked,     \* asked[s]: the requests the peer has sent
  read,      \* read[s]: how many of them have been read
  got,       \* got[s]: the status codes the peer has received
  wiped      \* sessions whose buffer was cleared before it was parsed

sys  == <<up, listening, object, op, queue, pc, cur, res, read, wiped>>
vars == <<up, listening, object, op, queue, pc, cur, res, client, asked, read, got, wiped>>

Completion(o, s, a) == [op |-> o, s |-> s, arg |-> a]

Completions ==
       [op : {"accept", "write"}, s : Session, arg : {"ok", "error"}]
  \cup [op : {"read"}, s : Session, arg : {"good", "bad", "error"}]

Nothing == Completion("none", NoSession, "ok")

Goto(t, l) == pc' = [pc EXCEPT ![t] = l] /\ UNCHANGED cur
Return(t)  == pc' = [pc EXCEPT ![t] = "idle"] /\ cur' = [cur EXCEPT ![t] = Nothing]
Start(o, s)  == op' = [op EXCEPT ![s] = @ \cup {o}]
Finish(o, s) == op' = [op EXCEPT ![s] = @ \ {o}]
DeleteNot(s) == UNCHANGED object
Delete(s)    == object' = [object EXCEPT ![s] = "deleted"]
-----------------------------------------------------------------------------
(* The constructor has started the first accept. *)
Init ==
  /\ up = TRUE
  /\ listening \in Session
  /\ object = [s \in Session |-> IF s = listening THEN "allocated" ELSE "none"]
  /\ op = [s \in Session |-> {}]
  /\ queue = {}
  /\ pc = [t \in Thread |-> "idle"]
  /\ cur = [t \in Thread |-> Nothing]
  /\ res = [s \in Session |-> 0]
  /\ client = [s \in Session |-> "away"]
  /\ asked = [s \in Session |-> <<>>]
  /\ read = [s \in Session |-> 0]
  /\ got = [s \in Session |-> <<>>]
  /\ wiped = {}

(* ---- the peers ---------------------------------------------------------- *)

(* A peer sends its next request when the last one has been answered. *)
Send(s) ==
  /\ up /\ client[s] = "open"
  /\ Len(asked[s]) = Len(got[s]) /\ Len(asked[s]) < MaxRequests
  /\ \E k \in {"good", "bad"} : asked' = [asked EXCEPT ![s] = Append(@, k)]
  /\ UNCHANGED <<sys, client, got>>

(* It may close its side in good order, and it may reset the connection. *)
Leave(s) ==
  /\ up
  /\ \/ client[s] = "open" /\ client' = [client EXCEPT ![s] = "closed"]
     \/ client[s] \in {"open", "closed"} /\ client' = [client EXCEPT ![s] = "reset"]
  /\ UNCHANGED <<sys, asked, got>>

(* ---- the operating system completes a call ------------------------------ *)

(* A connection arrives; accepting it can fail (no descriptor is left). *)
CompleteAccept ==
  LET s == listening IN
  /\ up /\ s # NoSession
  /\ \/ /\ client' = [client EXCEPT ![s] = "open"]
        /\ queue' = queue \cup {Completion("accept", s, "ok")}
     \/ /\ queue' = queue \cup {Completion("accept", s, "error")}
        /\ UNCHANGED client
  /\ listening' = NoSession
  /\ UNCHANGED <<up, object, op, pc, cur, res, asked, read, got, wiped>>

CompleteRead(s) ==
  /\ up /\ "read" \in op[s]
  /\ Finish("read", s)
  /\ \/ /\ read[s] < Len(asked[s]) /\ client[s] # "reset"
        /\ read' = [read EXCEPT ![s] = @ + 1]
        /\ queue' = queue \cup {Completion("read", s, asked[s][read[s] + 1])}
     \/ /\ client[s] = "reset" \/ (client[s] = "closed" /\ read[s] = Len(asked[s]))
        /\ queue' = queue \cup {Completion("read", s, "error")}
        /\ UNCHANGED read
  /\ UNCHANGED <<up, listening, object, pc, cur, res, client, asked, got, wiped>>

(* What is sent is the response m_res points to when the call completes. *)
CompleteWrite(s) ==
  /\ up /\ "write" \in op[s]
  /\ Finish("write", s)
  /\ \/ /\ client[s] # "reset"
        /\ got' = [got EXCEPT ![s] = Append(@, res[s])]
        /\ queue' = queue \cup {Completion("write", s, "ok")}
     \/ /\ client[s] = "reset"
        /\ queue' = queue \cup {Completion("write", s, "error")}
        /\ UNCHANGED got
  /\ UNCHANGED <<up, listening, object, pc, cur, res, client, asked, read, wiped>>

(* ---- the threads -------------------------------------------------------- *)

(* io_service::run: an idle thread takes any completion. *)
Take(t) ==
  /\ up /\ pc[t] = "idle"
  /\ \E c \in queue : /\ queue' = queue \ {c}
                      /\ cur' = [cur EXCEPT ![t] = c]
                      /\ pc' = [pc EXCEPT ![t] = c.op]
  /\ UNCHANGED <<up, listening, object, op, res, read, client, asked, got, wiped>>

(* Where handle_accept goes once the session has started. *)
ListenNot(t)   == Return(t)
ListenAgain(t) == Goto(t, "rearm")

(* server::handle_accept: the session starts reading; on an error its object  *)
(* is deleted and the server does not listen again.                           *)
HandleAccept(t) ==
  LET s == cur[t].s IN
  /\ up /\ pc[t] = "accept"
  /\ \/ cur[t].arg = "ok" /\ Start("read", s) /\ ListenAgain(t) /\ UNCHANGED object
     \/ cur[t].arg = "error" /\ Delete(s) /\ Return(t) /\ UNCHANGED op
  /\ UNCHANGED <<up, listening, queue, res, read, client, asked, got, wiped>>

(* The model's bound on session objects is reached. *)
Exhausted == \A s \in Session : object[s] # "none"

(* server::start_accept, with a session object that is new. *)
StartAccept(t) ==
  /\ up /\ pc[t] = "rearm"
  /\ \/ \E s \in Session : /\ object[s] = "none"
                           /\ object' = [object EXCEPT ![s] = "allocated"]
                           /\ listening' = s
     \/ Exhausted /\ UNCHANGED <<listening, object>>
  /\ Return(t)
  /\ UNCHANGED <<up, op, queue, res, read, client, asked, got, wiped>>

RefuseNot(s) == UNCHANGED res
Refuse(s)    == res' = [res EXCEPT ![s] = 400]

(* session::send_res: an error ends the session; what does not parse is       *)
(* answered 400 at once, a buffer of zeroes included; any other request goes  *)
(* to its handler.  The buffer is read twice, to parse it (56) and to copy    *)
(* the body (96), which is one step here: a memset in between empties the     *)
(* body of the request only, and bodies are Connection's.                     *)
SendRes(t) ==
  LET s == cur[t].s IN
  /\ up /\ pc[t] = "read"
  /\ \/ cur[t].arg = "error" /\ Delete(s) /\ Return(t) /\ UNCHANGED res
     \/ /\ cur[t].arg = "bad" \/ (cur[t].arg = "good" /\ s \in wiped)
        /\ Refuse(s) /\ Goto(t, "log") /\ UNCHANGED object
     \/ cur[t].arg = "good" /\ s \notin wiped /\ Goto(t, "serve") /\ UNCHANGED <<object, res>>
  /\ wiped' = wiped \ {s}
  /\ UNCHANGED <<up, listening, op, queue, read, client, asked, got>>

(* The handler of the request's location; a failure becomes a 404. *)
AnswersRaw == {0, 1, 200}
Answers    == {200, 404}

Serve(t) ==
  /\ up /\ pc[t] = "serve"
  /\ \E code \in Answers : res' = [res EXCEPT ![cur[t].s] = code]
  /\ Goto(t, "log")
  /\ UNCHANGED <<up, listening, object, op, queue, read, client, asked, got, wiped>>

(* The log line asks the socket for the peer's address.  That throws when the *)
(* connection has been reset; nothing between here and the thread's main      *)
(* function catches it, so the process is terminated.                         *)
LogMetrics(t) ==
  /\ up /\ pc[t] = "log"
  /\ IF client[cur[t].s] = "reset"
       THEN up' = FALSE /\ UNCHANGED <<pc, cur>>
       ELSE UNCHANGED up /\ Goto(t, "respond")
  /\ UNCHANGED <<listening, object, op, queue, res, read, client, asked, got, wiped>>

(* What handle_write starts. *)
WriteAndRead(s) == op' = [op EXCEPT ![s] = @ \cup {"read", "write"}]
ReadOnly(s)     == Start("read", s)
Write(s)        == Start("write", s)

(* session::handle_write starts the write.  After a request that parsed, and  *)
(* so was not refused, the buffer is cleared, when the write may already have *)
(* completed and another thread be in the session.                            *)
HandleWrite(t) ==
  /\ up /\ pc[t] = "respond"
  /\ Write(cur[t].s)
  /\ IF res[cur[t].s] # 400 THEN Goto(t, "clear") ELSE Return(t)
  /\ UNCHANGED <<up, listening, object, queue, res, read, client, asked, got, wiped>>

(* s has read a request that no thread has parsed yet. *)
Unparsed(s) ==
  \/ \E c \in queue : c.op = "read" /\ c.s = s
  \/ \E u \in Thread : pc[u] = "read" /\ cur[u].s = s

(* The memset: if the next request is in the buffer by now, it is gone.  If   *)
(* the session has been deleted by now, it writes to freed memory; what that  *)
(* leads to is undefined and left out.                                        *)
ClearAll(t) ==
  /\ up /\ pc[t] = "clear"
  /\ Return(t)
  /\ res' = [res EXCEPT ![cur[t].s] = 0]
  /\ UNCHANGED <<up, listening, object, op, queue, read, client, asked, got, wiped>>

ClearBuffer(t) ==
  /\ up /\ pc[t] = "clear"
  /\ Return(t)
  /\ wiped' = IF Unparsed(cur[t].s) THEN wiped \cup {cur[t].s} ELSE wiped
  /\ UNCHANGED <<up, listening, object, op, queue, res, read, client, asked, got>>

(* What write_callback goes on with, given the outcome of the write. *)
OnwardAlways(s, a) == Start("read", s)
OnwardNot(s, a)    == UNCHANGED op
Onward(s, a)       == IF a = "ok" THEN Start("read", s) ELSE UNCHANGED op

(* session::write_callback: read the next request, or end the session. *)
WriteCallback(t) ==
  LET s == cur[t].s IN
  /\ up /\ pc[t] = "write"
  /\ Onward(s, cur[t].arg)
  /\ \/ cur[t].arg = "ok" /\ UNCHANGED object
     \/ cur[t].arg = "error" /\ Delete(s)
  /\ Return(t)
  /\ UNCHANGED <<up, listening, queue, res, read, client, asked, got, wiped>>

Run(t) ==
  \/ Take(t) \/ HandleAccept(t) \/ StartAccept(t) \/ SendRes(t) \/ Serve(t)
  \/ LogMetrics(t) \/ HandleWrite(t) \/ ClearBuffer(t) \/ WriteCallback(t)

Next ==
  \/ CompleteAccept
  \/ \E s \in Session : Send(s) \/ Leave(s) \/ CompleteRead(s) \/ CompleteWrite(s)
  \/ \E t \in Thread : Run(t)

(* Threads run, and the operating system completes reads and writes that can  *)
(* be completed.  Peers owe nothing, and nobody need ever connect.            *)
Fairness ==
  /\ \A t \in Thread : WF_vars(Run(t))
  /\ \A s \in Session : WF_vars(CompleteRead(s)) /\ WF_vars(CompleteWrite(s))

Spec == Init /\ [][Next]_vars /\ Fairness
-----------------------------------------------------------------------------
Working == {"read", "serve", "log", "respond", "write"}

ThreadsOK ==
  /\ pc \in [Thread -> {"idle", "accept", "rearm", "clear"} \cup Working]
  /\ cur \in [Thread -> Completions \cup {Nothing}]
  /\ \A t \in Thread : cur[t] = Nothing <=> pc[t] = "idle"

TypeOK ==
  /\ up \in BOOLEAN
  /\ listening \in Session \cup {NoSession}
  /\ object \in [Session -> {"none", "allocated", "deleted"}]
  /\ op \in [Session -> SUBSET {"read", "write"}]
  /\ queue \subseteq Completions
  /\ ThreadsOK
  /\ res \in [Session -> {0, 200, 400, 404}]
  /\ client \in [Session -> {"away", "open", "closed", "reset"}]
  /\ asked \in [Session -> Seq({"good", "bad"})]
  /\ read \in [Session -> Nat]
  /\ got \in [Session -> Seq({0, 200, 400, 404})]
  /\ wiped \subseteq Session

(* Thread t is in a handler of s that has yet to start s's next call, or to   *)
(* delete s.                                                                  *)
Busy(t, s) == cur[t].s = s /\ pc[t] \in {"accept"} \cup Working

(* Thread t has started s's next call, but is still going to clear its data_. *)
AtMemset(t, s) == cur[t].s = s /\ pc[t] = "clear"

(* Thread t is still going to use s. *)
Uses(t, s) == Busy(t, s) \/ AtMemset(t, s)

(* One session, one activity: the accept or call outstanding on its socket,   *)
(* its completion in the queue, or one thread that uses it, never two, except *)
(* for threads at the memset (session.cc:171), which comes after the next     *)
(* call is started.  The chaining of async calls in session.cc is what keeps  *)
(* pool threads from using one session at the same time; nothing else does.   *)
(* What the memset can do to it is RefusedIsInvalid's.                        *)
OneActivity ==
  /\ \A s \in Session : \A o, p \in op[s] : o = p
  /\ \A c, d \in queue : c.s = d.s => c = d
  /\ \A s \in Session, t, u \in Thread :
       Uses(t, s) /\ Uses(u, s) => t = u \/ AtMemset(t, s) \/ AtMemset(u, s)
  /\ \A c \in queue : /\ op[c.s] = {} /\ c.s # listening
                       /\ \A t \in Thread : Uses(t, c.s) => AtMemset(t, c.s)
  /\ \A s \in Session, t \in Thread :
       Uses(t, s) => (op[s] = {} /\ s # listening) \/ AtMemset(t, s)
  /\ listening # NoSession => op[listening] = {}

(* A session is deleted ("delete this" in send_res and write_callback,        *)
(* "delete new_session" in the server) only when nothing will call it back:   *)
(* no outstanding call and no completion refers to a deleted session, and the *)
(* only thread that may still use one is a thread at the memset: the write it *)
(* has started, or the read after that, has failed and another thread deleted *)
(* the session before the memset is done.  Then the memset writes to freed    *)
(* memory.                                                                    *)
NoDangling ==
  /\ \A s \in Session : op[s] # {} => object[s] = "allocated"
  /\ \A c \in queue : object[c.s] = "allocated"
  /\ \A s \in Session, t \in Thread :
       Uses(t, s) => object[s] = "allocated" \/ AtMemset(t, s)
  /\ listening # NoSession => object[listening] = "allocated"

(* The response async_write sends from stays alive and unchanged until the    *)
(* write completes ("assign to memeber variable to avoid out of scope issue   *)
(* after async write").                                                       *)
ResponseStable ==
  [][\A s \in Session : "write" \in op[s] => res'[s] = res[s] /\ object'[s] = object[s]]_vars

(* Answers are made in the order of the requests, each for the request it is  *)
(* sent for: one that does not parse is refused, whatever the session has     *)
(* served before it.                                                          *)
InOrder ==
  \A s \in Session : /\ Len(got[s]) <= Len(asked[s])
                     /\ \A i \in 1..Len(got[s]) : asked[s][i] = "bad" => got[s][i] = 400

(* Only what is invalid is refused ("if request data is invalid, return 400   *)
(* Bad Request").                                                             *)
RefusedIsInvalid ==
  \A s \in Session : \A i \in 1..Len(got[s]) : got[s][i] = 400 => asked[s][i] = "bad"

(* A peer that stays gets an answer to every request. *)
Answered ==
  \A s \in Session :
    Len(got[s]) < Len(asked[s]) ~> Len(got[s]) = Len(asked[s]) \/ client[s] # "open" \/ ~up

(* An accept has failed: its session is deleted although nobody connected. *)
AcceptFailed == \E s \in Session : \/ object[s] = "deleted" /\ client[s] = "away"
                                   \/ Completion("accept", s, "error") \in queue
                                   \/ \E t \in Thread : pc[t] = "accept" /\ cur[t].arg = "error"

(* Nothing is forgotten: a session that has not been deleted is listened on,  *)
(* has a call outstanding or completed, or is in a thread's handler, so that  *)
(* it goes on or is deleted, none leaks; and until an accept fails the server *)
(* listens or is about to.  Each handler must start the next call or delete,  *)
(* on every path through it, for nothing else refers to the session.          *)
NothingForgotten ==
  /\ \A s \in Session : object[s] = "allocated" =>
       \/ s = listening \/ op[s] # {}
       \/ \E c \in queue : c.s = s
       \/ \E t \in Thread : Busy(t, s)
  /\ \/ listening # NoSession \/ Exhausted \/ AcceptFailed
     \/ \E c \in queue : c.op = "accept"
     \/ \E t \in Thread : pc[t] \in {"accept", "rearm"}

(* An accepted connection never leaves the server without a listening socket. *)
AcceptsAgain ==
  \A s \in Session :
    client[s] = "open" /\ listening = NoSession
      ~> listening # NoSession \/ Exhausted \/ ~up \/ AcceptFailed

(* A session whose peer is gone is deleted: sessions do not accumulate. *)
SessionsEnd ==
  \A s \in Session : client[s] \in {"closed", "reset"} ~> object[s] = "deleted" \/ ~up

(* What a client does to its own connection does not end the server: an error *)
(* on a connection costs only that session (send_res returns 1 and the        *)
(* session is gone).                                                          *)
StaysUp == up
=============================================================================
