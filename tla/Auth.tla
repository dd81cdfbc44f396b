--------------------------------- MODULE Auth ---------------------------------
(* Users (src/session.cc): sign-up, sign-in, and the access check of requests *)
(* for /api/<user>.  A user's password is a file, "./crud/<user>-pwd/password"; *)
(* who is signed in is a log, "./crud/admin/ip_usr": a success appends the    *)
(* client's address and then the user's name, and every request reads the     *)
(* whole log for the address it comes from.  The sessions share these files   *)
(* without a lock.  That one session is used by one thread at a time is       *)
(* established in module Server; here a step is one system call of a session. *)
EXTENDS Naturals, Sequences

CONSTANTS
  Session,    \* connections
  IP,         \* client addresses
  Peer,       \* Peer[s]: the address connection s comes from
  User,       \* user names; nobody checks them, one may be an address, or empty
  NoOne,      \* the empty user name
  Char,       \* characters
  Password,   \* passwords, as sequences of characters
  NoFile,     \* there is no password file
  IOFails,    \* may opening a file, or writing to it, fail?
  MaxSigns,   \* BOUND: sign-ups and sign-ins that are requested
  MaxCrashes  \* BOUND: crashes of the server

ASSUME PeerAssumption == Peer \in [Session -> IP]
ASSUME NameAssumption == NoOne \notin IP
ASSUME PasswordAssumption == \A p \in Password : p \in Seq(Char) /\ p # <<>> /\ p # NoFile
ASSUME BoundAssumption == MaxSigns \in Nat /\ MaxCrashes \in Nat /\ IOFails \in BOOLEAN

VARIABLES
  folder,   \* the users whose "<user>-pwd" directory exists
  pwd,      \* pwd[u]: what u's password file contains
  home,     \* the users whose directory of posts sign-up has created
  log,      \* the lines of ip_usr
  pc,       \* pc[s]: the next step of session s
  req,      \* req[s]: the request it serves
  user,     \* user[s]: m_user_name
  pos,      \* pos[s]: the lines of ip_usr it has read
  out,      \* out[s]: its answer to the request
  signs,    \* BOUND: sign-ups and sign-ins requested so far
  crashes,  \* BOUND: crashes so far
  last,     \* HISTORY: last[a]: the user whose name was last logged for a
  proven    \* HISTORY: <<a, u>>: a client at a has signed up or in as u

files == <<folder, pwd, home, log>>
hist  == <<last, proven>>
vars  == <<folder, pwd, home, log, pc, req, user, pos, out, signs, crashes, last, proven>>

Request ==
       [kind : {"sign-up", "sign-in"}, user : User, password : Password]
  \cup [kind : {"api"}, user : User, password : {<<>>}]

NoRequest == [kind |-> "none", user |-> NoOne, password |-> <<>>]

Goto(s, l) == pc' = [pc EXCEPT ![s] = l]
Answer(s, a) == Goto(s, "reply") /\ out' = [out EXCEPT ![s] = a]
-----------------------------------------------------------------------------
Init ==
  /\ folder = {} /\ pwd = [u \in User |-> NoFile] /\ home = {} /\ log = <<>>
  /\ pc = [s \in Session |-> "idle"]
  /\ req = [s \in Session |-> NoRequest]
  /\ user = [s \in Session |-> NoOne]
  /\ pos = [s \in Session |-> 0]
  /\ out = [s \in Session |-> "none"]
  /\ signs = 0 /\ crashes = 0
  /\ last = [a \in IP |-> NoOne] /\ proven = {}

(* A request arrives; its client is looked up in the log from the start, if   *)
(* the log can be opened.                                                     *)
Receive(s) ==
  /\ pc[s] = "idle"
  /\ \E r \in Request :
       /\ r.kind # "api" => signs < MaxSigns
       /\ signs' = IF r.kind = "api" THEN signs ELSE signs + 1
       /\ req' = [req EXCEPT ![s] = r]
  /\ \/ Goto(s, "lookup")
     \/ IOFails /\ Goto(s, "check")
  /\ UNCHANGED <<files, user, pos, out, crashes, hist>>

LookedUp(s) == Goto(s, "check") /\ pos' = [pos EXCEPT ![s] = 0]
ReadOn(s, n) == UNCHANGED pc /\ pos' = [pos EXCEPT ![s] = n]

(* Where reading continues after n lines, the last of which is a name. *)
FirstMatch(s, n) == LookedUp(s)
LastMatch(s, n)  == ReadOn(s, n)

(* handle_get_user, one turn of its loop.  The line after the address is the  *)
(* user name, whatever it is; where there is none yet the name is empty and   *)
(* the loop ends, as it does at the end of the log.                           *)
Lookup(s) ==
  LET n == pos[s] + 1 IN
  /\ pc[s] = "lookup"
  /\ \/ n > Len(log) /\ LookedUp(s) /\ UNCHANGED user
     \/ n <= Len(log) /\ log[n] # Peer[s] /\ ReadOn(s, n) /\ UNCHANGED user
     \/ /\ n < Len(log) /\ log[n] = Peer[s]
        /\ user' = [user EXCEPT ![s] = log[n + 1]] /\ LastMatch(s, n + 1)
     \/ /\ n = Len(log) /\ log[n] = Peer[s]
        /\ user' = [user EXCEPT ![s] = NoOne] /\ LookedUp(s)
  /\ UNCHANGED <<files, req, out, signs, crashes, hist>>

AdmittedAny(s) == TRUE
Admitted(s)    == user[s] = req[s].user /\ user[s] # NoOne

(* check_authorized_access for /api/<user>, and the dispatch of sign-up and   *)
(* sign-in.  Serving an admitted request is module CrudHandler's.             *)
Check(s) ==
  /\ pc[s] = "check"
  /\ \/ req[s].kind = "api" /\ Admitted(s) /\ Answer(s, "served")
     \/ req[s].kind = "api" /\ ~Admitted(s) /\ Answer(s, "refused")
     \/ req[s].kind = "sign-up" /\ Goto(s, "exists") /\ UNCHANGED out
     \/ req[s].kind = "sign-in" /\ Goto(s, "password") /\ UNCHANGED out
  /\ UNCHANGED <<files, req, user, pos, signs, crashes, hist>>

(* ---- sign-up ------------------------------------------------------------ *)

(* Authentication succeeds as the user the request names. *)
Succeed(s) ==
  /\ user' = [user EXCEPT ![s] = req[s].user]
  /\ proven' = proven \cup {<<Peer[s], req[s].user>>}

TakenFile(u) == pwd[u] # NoFile
Taken(u)     == u \in folder

(* handle_signup looks for the user's password directory... *)
Exists(s) ==
  /\ pc[s] = "exists"
  /\ \/ Taken(req[s].user) /\ Answer(s, "failed") /\ UNCHANGED <<user, proven>>
     \/ ~Taken(req[s].user) /\ Succeed(s) /\ Goto(s, "mkdir") /\ UNCHANGED out
  /\ UNCHANGED <<files, req, pos, signs, crashes, last>>

(* ...and creates it, which is no error if it exists by now. *)
MakeDir(s) ==
  /\ pc[s] = "mkdir"
  /\ folder' = folder \cup {req[s].user}
  /\ Goto(s, "truncate")
  /\ UNCHANGED <<pwd, home, log, req, user, pos, out, signs, crashes, hist>>

UnopenedWrites(s) == Goto(s, "write")
Unopened(s)       == Goto(s, "home")

(* Whether the file could be opened is not looked at; if not, writing to it   *)
(* does nothing.                                                              *)
Truncate(s) ==
  /\ pc[s] = "truncate"
  /\ \/ pwd' = [pwd EXCEPT ![req[s].user] = <<>>] /\ Goto(s, "write")
     \/ IOFails /\ Unopened(s) /\ UNCHANGED pwd
  /\ UNCHANGED <<folder, home, log, req, user, pos, out, signs, crashes, hist>>

(* write(2) at offset 0.  Whether it fails is not looked at either. *)
Overlay(new, old) == new \o SubSeq(old, Len(new) + 1, Len(old))

Write(s) ==
  LET u == req[s].user IN
  /\ pc[s] = "write"
  /\ \/ pwd' = [pwd EXCEPT ![u] = Overlay(req[s].password, @)]
     \/ IOFails /\ UNCHANGED pwd
  /\ Goto(s, "home")
  /\ UNCHANGED <<folder, home, log, req, user, pos, out, signs, crashes, hist>>

(* The directory of the user's posts. *)
MakeHome(s) ==
  /\ pc[s] = "home"
  /\ home' = home \cup {req[s].user}
  /\ Goto(s, "address")
  /\ UNCHANGED <<folder, pwd, log, req, user, pos, out, signs, crashes, hist>>

(* ---- sign-in ------------------------------------------------------------ *)

MatchesAny(s) == pwd[req[s].user] # NoFile
Matches(s)    == pwd[req[s].user] = req[s].password

(* handle_signin compares the password with the file's. *)
ReadPassword(s) ==
  /\ pc[s] = "password"
  /\ \/ Matches(s) /\ Succeed(s) /\ Goto(s, "address") /\ UNCHANGED out
     \/ /\ ~Matches(s) \/ IOFails
        /\ Answer(s, "failed") /\ UNCHANGED <<user, proven>>
  /\ UNCHANGED <<files, req, pos, signs, crashes, last>>

(* ---- handle_update_user: two appends, each of one line, the first after   *)
(* the file is opened; a failure of either is not noticed ------------------ *)

AppendAddress(s) ==
  /\ pc[s] = "address"
  /\ \/ log' = Append(log, Peer[s]) /\ Goto(s, "name") /\ UNCHANGED out
     \/ IOFails /\ Answer(s, "succeeded") /\ UNCHANGED log
  /\ UNCHANGED <<folder, pwd, home, req, user, pos, signs, crashes, hist>>

AppendName(s) ==
  /\ pc[s] = "name"
  /\ \/ log' = Append(log, user[s]) /\ last' = [last EXCEPT ![Peer[s]] = user[s]]
     \/ IOFails /\ UNCHANGED <<log, last>>
  /\ Answer(s, "succeeded")
  /\ UNCHANGED <<folder, pwd, home, req, user, pos, signs, crashes, proven>>

(* ------------------------------------------------------------------------ *)

(* The answer is written and the session waits for the next request... *)
Reply(s) ==
  /\ pc[s] = "reply"
  /\ Goto(s, "idle")
  /\ req' = [req EXCEPT ![s] = NoRequest]
  /\ out' = [out EXCEPT ![s] = "none"]
  /\ UNCHANGED <<files, user, pos, signs, crashes, hist>>

(* ...or its connection is replaced by a new one, whose session is new. *)
Reconnect(s) ==
  /\ pc[s] = "idle" /\ user[s] # NoOne
  /\ user' = [user EXCEPT ![s] = NoOne]
  /\ UNCHANGED <<files, pc, req, pos, out, signs, crashes, hist>>

(* The process ends at any point and is started again: the files stay. *)
Crash ==
  /\ crashes < MaxCrashes
  /\ crashes' = crashes + 1
  /\ pc' = [s \in Session |-> "idle"]
  /\ user' = [s \in Session |-> NoOne]
  /\ req' = [s \in Session |-> NoRequest]
  /\ pos' = [s \in Session |-> 0]
  /\ out' = [s \in Session |-> "none"]
  /\ UNCHANGED <<files, signs, hist>>

Serve(s) ==
  \/ Lookup(s) \/ Check(s) \/ Exists(s) \/ MakeDir(s) \/ Truncate(s) \/ Write(s) \/ MakeHome(s)
  \/ ReadPassword(s) \/ AppendAddress(s) \/ AppendName(s) \/ Reply(s)

Next ==
  \/ \E s \in Session : Receive(s) \/ Serve(s) \/ Reconnect(s)
  \/ Crash

Spec == Init /\ [][Next]_vars
-----------------------------------------------------------------------------
Steps == {"idle", "lookup", "check", "exists", "mkdir", "truncate", "write", "home",
          "password", "address", "name", "reply"}

TypeOK ==
  /\ folder \subseteq User /\ home \subseteq User
  /\ pwd \in [User -> Seq(Char) \cup {NoFile}]
  /\ log \in Seq(IP \cup User)
  /\ pc \in [Session -> Steps]
  /\ req \in [Session -> Request \cup {NoRequest}]
  /\ user \in [Session -> IP \cup User \cup {NoOne}]
  /\ pos \in [Session -> Nat]
  /\ out \in [Session -> {"none", "served", "refused", "failed", "succeeded"}]
  /\ signs \in 0..MaxSigns /\ crashes \in 0..MaxCrashes
  /\ last \in [IP -> User \cup {NoOne}]
  /\ proven \subseteq IP \X User
  /\ \A s \in Session : /\ req[s] = NoRequest <=> pc[s] = "idle"
                        /\ pc[s] = "write" => pwd[req[s].user] \in Seq(Char)

Odd(i) == i % 2 = 1

(* The log is what an undisturbed history leaves: addresses and names         *)
(* alternate.  Two overlapping updates, one that is cut in half by a crash or *)
(* a failing write, or a user named like an address break this for good.      *)
Paired(l) == \A i \in 1..Len(l) : l[i] \in IP <=> Odd(i)

(* Session s has just been told who its client is. *)
LookupEnds(s) == pc[s] = "lookup" /\ pc'[s] = "check"

(* While the log is paired, a look-up ends with the user last logged for the  *)
(* address: the last match of handle_get_user's loop counts, so a sign-in     *)
(* replaces the one before it.  Only between the two appends of another       *)
(* sign-in from that address, or when the second of them has failed, does it  *)
(* end with no user.                                                          *)
LookupFaithful ==
  [][\A s \in Session :
       LookupEnds(s) /\ Paired(log) /\ last[Peer[s]] # NoOne =>
         \/ user'[s] = last[Peer[s]]
         \/ user'[s] = NoOne /\ log[Len(log)] = Peer[s]]_vars

(* While the log is paired, /api/<user> is served only to an address at which *)
(* someone has signed up or in as that user (check_authorized_access against  *)
(* all that handle_get_user, handle_signup and handle_signin put into         *)
(* m_user_name), whatever crashes, fails or interleaves.                      *)
Entitled ==
  \A s \in Session :
    Paired(log) /\ req[s].kind = "api" /\ out[s] = "served"
      => <<Peer[s], req[s].user>> \in proven

(* u's account is made and no sign-up is still at work on it. *)
Settled(u) ==
  /\ u \in folder
  /\ \A s \in Session :
       pc[s] \in {"mkdir", "truncate", "write"} => req[s].user # u

(* Once it is, no sign-up ever touches its password again (handle_signup      *)
(* "create a password file for the entity if this does not exists").          *)
PasswordFinal ==
  [][\A u \in User : Settled(u) => Settled(u)' /\ pwd'[u] = pwd[u]]_vars

(* Once nobody is between the two appends, what a client is taken for is the  *)
(* user last signed in at its address ("match the current ip address to the   *)
(* user name").                                                               *)
MatchesUser ==
  [][\A s \in Session :
       /\ LookupEnds(s) /\ last[Peer[s]] # NoOne
       /\ \A r \in Session : pc[r] # "name"
       => user'[s] = last[Peer[s]]]_vars

(* A name is signed up once. *)
SignedUpOnce ==
  \A s, r \in Session :
    /\ req[s].kind = "sign-up" /\ out[s] = "succeeded"
    /\ req[r].kind = "sign-up" /\ out[r] = "succeeded"
    /\ req[s].user = req[r].user
    => s = r
-----------------------------------------------------------------------------
(* What makes the properties inductive.                                       *)

(* Line i of the log is an address whose name has been appended. *)
Entry(i) == Odd(i) /\ i < Len(log)

(* A session that has authenticated its client is the user's who asked. *)
SessionInv ==
  \A s \in Session :
    /\ pc[s] \in {"mkdir", "truncate", "write", "home", "address", "name"}
         => user[s] = req[s].user /\ <<Peer[s], user[s]>> \in proven
    /\ pos[s] <= Len(log)

(* While the log is paired, only the session that appended its last address   *)
(* appends a name, and all names, remembered ones too, have been proven.      *)
LogInv ==
  Paired(log) =>
    /\ \A s \in Session : pc[s] = "name" => Odd(Len(log)) /\ log[Len(log)] = Peer[s]
    /\ \A s, r \in Session : pc[s] = "name" /\ pc[r] = "name" => s = r
    /\ \A i \in 1..Len(log) : Entry(i) => <<log[i], log[i + 1]>> \in proven
    /\ \A s \in Session : user[s] = NoOne \/ <<Peer[s], user[s]>> \in proven

(* last is what the log's last entry for the address says. *)
LastInv ==
  Paired(log) =>
    \A a \in IP : last[a] # NoOne =>
      \E i \in 1..Len(log) :
        /\ Entry(i) /\ log[i] = a /\ log[i + 1] = last[a]
        /\ \A j \in i + 1..Len(log) : Entry(j) => log[j] # a

(* The loop of handle_get_user starts at the first line. *)
StartInv == \A s \in Session : pc[s] # "lookup" => pos[s] = 0

(* There is an answer only until it is sent. *)
AnswerInv == \A s \in Session : pc[s] # "reply" => out[s] = "none"

(* The loop's invariant: of the lines read so far, the last that is the       *)
(* address decides.                                                           *)
ScanInv ==
  Paired(log) =>
    \A s \in Session : pc[s] = "lookup" =>
      /\ Odd(pos[s]) => log[pos[s]] # Peer[s]
      /\ \A i \in 1..pos[s] :
           /\ Odd(i) /\ log[i] = Peer[s]
           /\ \A j \in i + 1..pos[s] : Odd(j) => log[j] # Peer[s]
           => i < pos[s] /\ user[s] = log[i + 1]

IInv == TypeOK /\ SessionInv /\ LogInv /\ LastInv /\ StartInv /\ ScanInv /\ AnswerInv /\ Entitled
=============================================================================
