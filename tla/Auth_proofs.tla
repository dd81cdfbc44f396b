------------------------------ MODULE Auth_proofs ------------------------------
(* Proofs about Auth for every set of sessions, addresses, users and          *)
(* passwords, any number of sign-ups and any number of crashes.               *)
EXTENDS Auth, SequenceTheorems, TLAPS

LEMMA Updated ==
  ASSUME NEW S, NEW T, NEW f \in [S -> T], NEW x, NEW v \in T
  PROVE  [f EXCEPT ![x] = v] \in [S -> T]
  OBVIOUS

LEMMA OverlayType ==
  ASSUME NEW S, NEW new \in Seq(S), NEW old \in Seq(S)
  PROVE  Overlay(new, old) \in Seq(S)
<1>1. SubSeq(old, Len(new) + 1, Len(old)) \in Seq(S)
  OBVIOUS
<1> QED
  BY <1>1 DEF Overlay

(* What the requests of clients look like, and the record that is none. *)
LEMMA RequestType ==
  /\ NoRequest \notin Request
  /\ \A r \in Request : /\ r.user \in User /\ r.password \in Seq(Char)
                        /\ r.kind \in {"sign-up", "sign-in", "api"}
<1>1. NoRequest.kind = "none"
  BY DEF NoRequest
<1>2. ASSUME NEW r \in Request
      PROVE  /\ r.user \in User /\ r.password \in Seq(Char)
             /\ r.kind \in {"sign-up", "sign-in", "api"}
  BY PasswordAssumption, EmptySeq DEF Request
<1> QED
  BY <1>1, <1>2

LEMMA Busy ==
  ASSUME TypeOK, NEW s \in Session, pc[s] # "idle"
  PROVE  /\ req[s] \in Request /\ req[s].user \in User /\ req[s].password \in Seq(Char)
         /\ req[s].kind \in {"sign-up", "sign-in", "api"}
<1>1. req[s] \in Request
  BY DEF TypeOK
<1> QED
  BY <1>1, RequestType
-----------------------------------------------------------------------------
(* Every step but Crash is one session's and leaves the others' own variables *)
(* alone.                                                                     *)
LEMMA OthersKeep ==
  ASSUME TypeOK, NEW s \in Session, Receive(s) \/ Serve(s) \/ Reconnect(s),
         NEW r \in Session \ {s}
  PROVE  /\ pc'[r] = pc[r] /\ req'[r] = req[r] /\ user'[r] = user[r]
         /\ pos'[r] = pos[r] /\ out'[r] = out[r]
<1> USE DEF TypeOK
<1>1. CASE Receive(s) \/ Reconnect(s) \/ Reply(s)
  BY <1>1 DEF Receive, Reconnect, Reply, Goto
<1>2. CASE Lookup(s)
  BY <1>2 DEF Lookup, LookedUp, ReadOn, LastMatch, Goto
<1>3. CASE Check(s)
  BY <1>3 DEF Check, Answer, Goto
<1>4. CASE Exists(s) \/ ReadPassword(s)
  BY <1>4 DEF Exists, ReadPassword, Answer, Goto, Succeed
<1>5. CASE MakeDir(s) \/ Truncate(s) \/ Write(s) \/ MakeHome(s)
  BY <1>5 DEF MakeDir, Truncate, Unopened, Write, MakeHome, Goto
<1>6. CASE AppendAddress(s) \/ AppendName(s)
  BY <1>6 DEF AppendAddress, AppendName, Answer, Goto
<1> QED
  BY <1>1, <1>2, <1>3, <1>4, <1>5, <1>6 DEF Serve

(* The order of a request's steps. *)
LEMMA Moves ==
  ASSUME TypeOK, NEW s \in Session, Receive(s) \/ Serve(s) \/ Reconnect(s)
  PROVE  /\ Receive(s)       => pc[s] = "idle" /\ pc'[s] \in {"lookup", "check"}
         /\ Reconnect(s)     => pc[s] = "idle" /\ pc'[s] = "idle"
         /\ Lookup(s)        => pc[s] = "lookup" /\ pc'[s] \in {"lookup", "check"}
         /\ Check(s)         => pc[s] = "check" /\ pc'[s] \in {"reply", "exists", "password"}
         /\ Exists(s)        => pc[s] = "exists" /\ pc'[s] \in {"reply", "mkdir"}
         /\ MakeDir(s)       => pc[s] = "mkdir" /\ pc'[s] = "truncate"
         /\ Truncate(s)      => pc[s] = "truncate" /\ pc'[s] \in {"write", "home"}
         /\ Write(s)         => pc[s] = "write" /\ pc'[s] = "home"
         /\ MakeHome(s)      => pc[s] = "home" /\ pc'[s] = "address"
         /\ ReadPassword(s)  => pc[s] = "password" /\ pc'[s] \in {"reply", "address"}
         /\ AppendAddress(s) => pc[s] = "address" /\ pc'[s] \in {"reply", "name"}
         /\ AppendName(s)    => pc[s] = "name" /\ pc'[s] = "reply"
         /\ Reply(s)         => pc[s] = "reply" /\ pc'[s] = "idle"
         /\ pc' \in [Session -> Steps]
<1>1. pc \in [Session -> Steps]
  BY DEF TypeOK
<1>2. \A l : Goto(s, l) => pc'[s] = l
  BY <1>1 DEF Goto
<1>3. \A l \in Steps : Goto(s, l) => pc' \in [Session -> Steps]
  BY <1>1, Updated DEF Goto
<1>4. /\ Receive(s) => pc[s] = "idle" /\ (Goto(s, "lookup") \/ Goto(s, "check"))
      /\ Reconnect(s) => pc[s] = "idle" /\ pc' = pc
      /\ Lookup(s) => pc[s] = "lookup" /\ (pc' = pc \/ Goto(s, "check"))
      /\ Check(s) => pc[s] = "check" /\ (Goto(s, "reply") \/ Goto(s, "exists") \/ Goto(s, "password"))
      /\ Exists(s) => pc[s] = "exists" /\ (Goto(s, "reply") \/ Goto(s, "mkdir"))
  BY DEF Receive, Reconnect, Lookup, LookedUp, ReadOn, LastMatch, Check, Exists, Answer
<1>5. /\ MakeDir(s) => pc[s] = "mkdir" /\ Goto(s, "truncate")
      /\ Truncate(s) => pc[s] = "truncate" /\ (Goto(s, "write") \/ Goto(s, "home"))
      /\ Write(s) => pc[s] = "write" /\ Goto(s, "home")
      /\ MakeHome(s) => pc[s] = "home" /\ Goto(s, "address")
  BY DEF MakeDir, Truncate, Unopened, Write, MakeHome
<1>6. /\ ReadPassword(s) => pc[s] = "password" /\ (Goto(s, "reply") \/ Goto(s, "address"))
      /\ AppendAddress(s) => pc[s] = "address" /\ (Goto(s, "reply") \/ Goto(s, "name"))
      /\ AppendName(s) => pc[s] = "name" /\ Goto(s, "reply")
      /\ Reply(s) => pc[s] = "reply" /\ Goto(s, "idle")
  BY DEF ReadPassword, AppendAddress, AppendName, Reply, Answer
<1>7. pc' \in [Session -> Steps]
  BY <1>1, <1>3, <1>4, <1>5, <1>6 DEF Serve, Steps
<1> QED
  BY <1>2, <1>4, <1>5, <1>6, <1>7
-----------------------------------------------------------------------------
(* Type correctness, and that a session that has authenticated its client is  *)
(* the user's who asked.                                                      *)

LEMMA InitType == Init => TypeOK /\ SessionInv
<1> SUFFICES ASSUME Init PROVE TypeOK /\ SessionInv
  OBVIOUS
<1>1. <<>> \in Seq(IP \cup User) /\ \A s \in Session : pc[s] \in Steps
  BY EmptySeq DEF Init, Steps
<1> QED
  BY <1>1, BoundAssumption DEF Init, TypeOK, SessionInv, Steps

(* Which step writes which file. *)
LEMMA FilesStep ==
  ASSUME TypeOK, SessionInv, NEW s \in Session, Receive(s) \/ Serve(s) \/ Reconnect(s)
  PROVE  /\ folder' \subseteq User /\ home' \subseteq User
         /\ pwd' \in [User -> Seq(Char) \cup {NoFile}]
         /\ \A r \in Session : pc'[r] = "write" => pwd'[req'[r].user] \in Seq(Char)
         /\ log' \in Seq(IP \cup User)
         /\ last' \in [IP -> User \cup {NoOne}]
<1>t. /\ folder \subseteq User /\ home \subseteq User
      /\ pwd \in [User -> Seq(Char) \cup {NoFile}]
      /\ log \in Seq(IP \cup User)
      /\ last \in [IP -> User \cup {NoOne}]
      /\ \A r \in Session : pc[r] = "write" => pwd[req[r].user] \in Seq(Char)
  BY DEF TypeOK
<1>p. Peer[s] \in IP
  BY PeerAssumption
<1>b. pc[s] # "idle" => req[s].user \in User /\ req[s].password \in Seq(Char)
  BY Busy
(* A password file that exists stays, and the writers' do. *)
<1>k. ASSUME pwd' \in [User -> Seq(Char) \cup {NoFile}],
             \A u \in User : pwd[u] \in Seq(Char) => pwd'[u] \in Seq(Char),
             pc'[s] = "write" => pwd'[req'[s].user] \in Seq(Char)
      PROVE  \A r \in Session : pc'[r] = "write" => pwd'[req'[r].user] \in Seq(Char)
  <2> SUFFICES ASSUME NEW r \in Session, r # s, pc'[r] = "write"
               PROVE  pwd'[req'[r].user] \in Seq(Char)
    BY <1>k
  <2>1. pc[r] = "write" /\ req'[r] = req[r]
    BY OthersKeep
  <2>2. req[r].user \in User
    BY <2>1, Busy
  <2> QED
    BY <1>t, <1>k, <2>1, <2>2
<1>1. CASE UNCHANGED <<folder, pwd, home, log, last>> /\ pc'[s] # "write"
  BY <1>1, <1>t, <1>k
<1>2. CASE MakeDir(s) \/ MakeHome(s)
  <2>1. UNCHANGED <<pwd, log, last>> /\ pc'[s] # "write"
    BY <1>2, Moves DEF MakeDir, MakeHome, hist
  <2>2. folder' \subseteq User /\ home' \subseteq User
    BY <1>2, <1>t, <1>b DEF MakeDir, MakeHome
  <2> QED
    BY <1>t, <1>k, <2>1, <2>2
<1>3. CASE Truncate(s)
  <2>1. UNCHANGED <<folder, home, log, last, req>>
    BY <1>3 DEF Truncate, hist
  <2>2. <<>> \in Seq(Char) /\ req[s].user \in User
    BY <1>3, <1>b, EmptySeq DEF Truncate
  <2>3. CASE pwd' = [pwd EXCEPT ![req[s].user] = <<>>]
    <3>1. pwd' \in [User -> Seq(Char) \cup {NoFile}]
      BY <1>t, <2>2, <2>3, Updated
    <3>2. \A u \in User : pwd[u] \in Seq(Char) => pwd'[u] \in Seq(Char)
      BY <1>t, <2>2, <2>3
    <3>3. pwd'[req'[s].user] \in Seq(Char)
      BY <1>t, <2>1, <2>2, <2>3
    <3> QED
      BY <1>t, <1>k, <2>1, <3>1, <3>2, <3>3
  <2>4. CASE pc'[s] = "home" /\ UNCHANGED pwd
    BY <1>t, <1>k, <2>1, <2>4
  <2>5. Goto(s, "home") => pc'[s] = "home"
    BY DEF Goto, TypeOK
  <2> QED
    BY <1>3, <2>3, <2>4, <2>5 DEF Truncate, Unopened
<1>4. CASE Write(s)
  <2>1. UNCHANGED <<folder, home, log, last>> /\ pc'[s] # "write"
    BY <1>4, Moves DEF Write, hist
  <2>2. /\ req[s].user \in User
        /\ Overlay(req[s].password, pwd[req[s].user]) \in Seq(Char)
    BY <1>4, <1>b, <1>t, OverlayType DEF Write
  <2>3. \/ UNCHANGED pwd
        \/ pwd' = [pwd EXCEPT ![req[s].user] = Overlay(req[s].password, pwd[req[s].user])]
    BY <1>4 DEF Write
  <2>4. pwd' \in [User -> Seq(Char) \cup {NoFile}]
    BY <1>t, <2>2, <2>3, Updated
  <2>5. \A u \in User : pwd[u] \in Seq(Char) => pwd'[u] \in Seq(Char)
    BY <1>t, <2>2, <2>3
  <2> QED
    BY <1>t, <1>k, <2>1, <2>4, <2>5
<1>5. CASE AppendAddress(s)
  <2>1. UNCHANGED <<folder, home, pwd, last>> /\ pc'[s] # "write"
    BY <1>5, Moves DEF AppendAddress, hist
  <2>2. log' \in Seq(IP \cup User)
    BY <1>5, <1>t, <1>p, AppendProperties DEF AppendAddress
  <2> QED
    BY <1>t, <1>k, <2>1, <2>2
<1>6. CASE AppendName(s)
  <2>1. UNCHANGED <<folder, home, pwd>> /\ pc'[s] # "write"
    BY <1>6, Moves DEF AppendName
  <2>2. user[s] \in User
    BY <1>6, <1>b DEF AppendName, SessionInv
  <2>3. log' \in Seq(IP \cup User)
    BY <1>6, <1>t, <2>2, AppendProperties DEF AppendName
  <2>4. last' \in [IP -> User \cup {NoOne}]
    BY <1>6, <1>t, <2>2, Updated DEF AppendName
  <2> QED
    BY <1>t, <1>k, <2>1, <2>3, <2>4
<1>7. CASE Receive(s) \/ Reconnect(s) \/ Lookup(s) \/ Check(s) \/ Exists(s) \/ ReadPassword(s) \/ Reply(s)
  <2>1. UNCHANGED <<folder, pwd, home, log, last>>
    BY <1>7 DEF Receive, Reconnect, Lookup, Check, Exists, ReadPassword, Reply, files, hist
  <2>2. pc'[s] # "write"
    BY <1>7, Moves
  <2> QED
    BY <1>1, <2>1, <2>2
<1> QED
  BY <1>2, <1>3, <1>4, <1>5, <1>6, <1>7 DEF Serve

LEMMA RequestStep ==
  ASSUME TypeOK, SessionInv, NEW s \in Session, Receive(s) \/ Serve(s) \/ Reconnect(s)
  PROVE  /\ req' \in [Session -> Request \cup {NoRequest}]
         /\ \A r \in Session : req'[r] = NoRequest <=> pc'[r] = "idle"
         /\ signs' \in 0..MaxSigns /\ crashes' \in 0..MaxCrashes
<1>t. /\ req \in [Session -> Request \cup {NoRequest}]
      /\ \A r \in Session : req[r] = NoRequest <=> pc[r] = "idle"
      /\ signs \in 0..MaxSigns /\ crashes \in 0..MaxCrashes
  BY DEF TypeOK
<1>k. ASSUME req'[s] = NoRequest <=> pc'[s] = "idle"
      PROVE  \A r \in Session : req'[r] = NoRequest <=> pc'[r] = "idle"
  BY <1>t, <1>k, OthersKeep
<1>1. CASE Receive(s)
  <2> PICK r \in Request :
         /\ r.kind # "api" => signs < MaxSigns
         /\ signs' = IF r.kind = "api" THEN signs ELSE signs + 1
         /\ req' = [req EXCEPT ![s] = r]
    BY <1>1 DEF Receive
  <2>1. UNCHANGED crashes /\ signs' \in 0..MaxSigns
    BY <1>1, <1>t, BoundAssumption DEF Receive
  <2>2. req' \in [Session -> Request \cup {NoRequest}] /\ req'[s] = r
    BY <1>t, Updated
  <2> QED
    BY <1>1, <1>t, <1>k, <2>1, <2>2, Moves, RequestType
<1>2. CASE Reply(s)
  <2>1. req' \in [Session -> Request \cup {NoRequest}] /\ req'[s] = NoRequest
    BY <1>2, <1>t, Updated DEF Reply
  <2>2. UNCHANGED <<signs, crashes>>
    BY <1>2 DEF Reply
  <2> QED
    BY <1>2, <1>t, <1>k, <2>1, <2>2, Moves
<1>3. CASE UNCHANGED <<req, signs, crashes>> /\ (pc'[s] = "idle" <=> pc[s] = "idle")
  BY <1>t, <1>k, <1>3
<1>4. CASE Reconnect(s) \/ (Serve(s) /\ ~Reply(s))
  <2>1. UNCHANGED <<req, signs, crashes>>
    BY <1>4
    DEF Reconnect, Serve, Lookup, Check, Exists, MakeDir, Truncate, Write, MakeHome,
        ReadPassword, AppendAddress, AppendName
  <2>2. pc'[s] = "idle" <=> pc[s] = "idle"
    BY <1>4, Moves DEF Serve
  <2> QED
    BY <1>3, <2>1, <2>2
<1> QED
  BY <1>1, <1>2, <1>4

LEMMA SessionStep ==
  ASSUME TypeOK, SessionInv, NEW s \in Session, Receive(s) \/ Serve(s) \/ Reconnect(s)
  PROVE  /\ user' \in [Session -> IP \cup User \cup {NoOne}]
         /\ pos' \in [Session -> Nat]
         /\ out' \in [Session -> {"none", "served", "refused", "failed", "succeeded"}]
         /\ proven' \subseteq IP \X User
         /\ proven \subseteq proven'
         /\ SessionInv'
<1> DEFINE Names == IP \cup User \cup {NoOne}
           Answers == {"none", "served", "refused", "failed", "succeeded"}
           Signed == {"mkdir", "truncate", "write", "home", "address", "name"}
           P(r) == /\ pc[r] \in Signed => user[r] = req[r].user /\ <<Peer[r], user[r]>> \in proven
                   /\ pos[r] <= Len(log)
<1>t. /\ user \in [Session -> Names] /\ pos \in [Session -> Nat] /\ out \in [Session -> Answers]
      /\ proven \subseteq IP \X User /\ log \in Seq(IP \cup User) /\ Peer[s] \in IP
      /\ \A r \in Session : P(r)
  BY PeerAssumption DEF TypeOK, SessionInv
<1>b. pc[s] # "idle" => req[s].user \in User
  BY Busy
<1>l. Len(log) <= Len(log') /\ Len(log) \in Nat /\ Len(log') \in Nat
  <2>0. Len(log) \in Nat /\ Len(log') \in Nat
    BY <1>t, FilesStep
  <2>1. CASE UNCHANGED log
    BY <1>t, <2>1
  <2>2. CASE AppendAddress(s) \/ AppendName(s)
    <3>1. UNCHANGED log \/ \E x : log' = Append(log, x)
      BY <2>2 DEF AppendAddress, AppendName
    <3> QED
      BY <1>t, <3>1
  <2> QED
    BY <2>0, <2>1, <2>2
    DEF Receive, Reconnect, Serve, Lookup, Check, Exists, MakeDir, Truncate, Write, MakeHome,
        ReadPassword, Reply, files
<1>m. \A r \in Session : pos[r] <= Len(log')
  <2> SUFFICES ASSUME NEW r \in Session PROVE pos[r] <= Len(log')
    OBVIOUS
  <2>1. pos[r] \in Nat /\ pos[r] <= Len(log)
    BY <1>t
  <2> HIDE DEF P
  <2> QED
    BY <1>l, <2>1
<1>k. ASSUME proven \subseteq proven', P(s)' PROVE SessionInv'
  <2> SUFFICES ASSUME NEW r \in Session, r # s PROVE P(r)'
    BY <1>k DEF SessionInv
  <2>1. /\ pc'[r] = pc[r] /\ req'[r] = req[r] /\ user'[r] = user[r] /\ pos'[r] = pos[r]
    BY OthersKeep
  <2>2. pos'[r] <= Len(log')
    BY <1>m, <2>1
  <2> QED
    BY <1>t, <1>k, <2>1, <2>2
<1>o. ASSUME out' = out \/ \E a \in Answers : out' = [out EXCEPT ![s] = a]
      PROVE  out' \in [Session -> Answers]
  BY <1>t, <1>o, Updated
(* The client is authenticated.                                               *)
<1>1. CASE /\ Succeed(s) /\ UNCHANGED <<req, pos, out>> /\ pc[s] # "idle"
  <2>1. user' \in [Session -> Names]
    BY <1>1, <1>t, <1>b, Updated DEF Succeed
  <2>2. user'[s] = req[s].user /\ proven' = proven \cup {<<Peer[s], req[s].user>>}
    BY <1>1, <1>t DEF Succeed
  <2>3. proven \subseteq proven' /\ proven' \subseteq IP \X User
    BY <1>1, <1>b, <1>t, <2>2
  <2>4. P(s)'
    <3>1. pos'[s] <= Len(log')
      BY <1>1, <1>m
    <3>2. user'[s] = req'[s].user /\ <<Peer[s], user'[s]>> \in proven'
      BY <1>1, <2>2
    <3> QED
      BY <3>1, <3>2
  <2> QED
    BY <1>1, <1>t, <1>k, <1>o, <2>1, <2>3, <2>4
(* Or nobody is: m_user_name and the position change in the look-up only.     *)
<1>2. CASE UNCHANGED <<user, pos, proven>> /\ (pc'[s] \in Signed => pc[s] \in Signed /\ UNCHANGED req)
  <2>1. P(s)'
    <3>1. pos'[s] <= Len(log')
      BY <1>2, <1>m
    <3> QED
      BY <1>2, <1>t, <3>1
  <2>2. SessionInv'
    BY <1>2, <1>k, <2>1
  <2>3. out' = out \/ \E a \in Answers : out' = [out EXCEPT ![s] = a]
    BY DEF Receive, Reconnect, Serve, Lookup, Check, Exists, MakeDir, Truncate, Write, MakeHome,
           ReadPassword, AppendAddress, AppendName, Reply, Answer
  <2> QED
    BY <1>2, <1>o, <1>t, <2>2, <2>3
<1>3. CASE Exists(s) \/ ReadPassword(s)
  <2>1. UNCHANGED <<req, pos>> /\ pc[s] # "idle" /\ pc[s] \notin Signed
    BY <1>3 DEF Exists, ReadPassword
  <2>2. \/ Succeed(s) /\ UNCHANGED out
        \/ Answer(s, "failed") /\ UNCHANGED <<user, proven>>
    BY <1>3 DEF Exists, ReadPassword
  <2>3. Answer(s, "failed") => pc'[s] = "reply"
    BY DEF Answer, Goto, TypeOK
  <2> QED
    BY <1>1, <1>2, <2>1, <2>2, <2>3
<1>4. CASE Reconnect(s)
  <2>1. user' \in [Session -> Names]
    BY <1>4, <1>t, Updated DEF Reconnect
  <2>2. UNCHANGED <<pos, out, proven>>
    BY <1>4 DEF Reconnect, hist
  <2>3. P(s)'
    <3>1. pos'[s] <= Len(log') /\ pc'[s] = "idle"
      BY <1>4, <1>m, <2>2, Moves
    <3> QED
      BY <3>1
  <2> QED
    BY <1>t, <1>k, <2>1, <2>2, <2>3
<1>5. CASE Lookup(s)
  <2>1. UNCHANGED <<log, out, proven>>
    BY <1>5 DEF Lookup, files, hist
  <2>2. user' \in [Session -> Names]
    <3>1. \/ user' = user \/ user' = [user EXCEPT ![s] = NoOne]
          \/ /\ pos[s] + 1 < Len(log)
             /\ user' = [user EXCEPT ![s] = log[pos[s] + 2]]
      BY <1>5, <1>t DEF Lookup
    <3>2. pos[s] + 1 < Len(log) => log[pos[s] + 2] \in Names
      BY <1>t
    <3> QED
      BY <1>t, <3>1, <3>2, Updated
  <2>3. \E n \in Nat : n <= Len(log) /\ pos' = [pos EXCEPT ![s] = n]
    <3>1. pos' = [pos EXCEPT ![s] = 0]
          \/ (pos[s] + 1 <= Len(log) /\ pos' = [pos EXCEPT ![s] = pos[s] + 1])
          \/ (pos[s] + 1 < Len(log) /\ pos' = [pos EXCEPT ![s] = pos[s] + 1 + 1])
      BY <1>5 DEF Lookup, LookedUp, ReadOn, LastMatch
    <3>2. pos[s] \in Nat /\ Len(log) \in Nat
      BY <1>t
    <3> QED
      BY <3>1, <3>2
  <2>4. pos' \in [Session -> Nat] /\ pos'[s] <= Len(log)
    BY <1>t, <2>3
  <2>5. P(s)'
    BY <1>5, <2>1, <2>4, Moves
  <2> QED
    BY <1>t, <1>k, <2>1, <2>2, <2>4, <2>5
<1>6. CASE Receive(s) \/ Check(s) \/ MakeDir(s) \/ Truncate(s) \/ Write(s) \/ MakeHome(s)
           \/ AppendAddress(s) \/ AppendName(s) \/ Reply(s)
  <2>1. UNCHANGED <<user, pos, proven>>
    BY <1>6 DEF Receive, Check, MakeDir, Truncate, Write, MakeHome, AppendAddress, AppendName,
                Reply, hist
  <2>2. pc'[s] \in Signed => pc[s] \in Signed /\ ~Receive(s) /\ ~Reply(s)
    BY <1>6, Moves
  <2>3. Receive(s) \/ Reply(s) \/ UNCHANGED req
    BY <1>6 DEF Check, MakeDir, Truncate, Write, MakeHome, AppendAddress, AppendName
  <2> QED
    BY <1>2, <2>1, <2>2, <2>3
<1> QED
  BY <1>3, <1>4, <1>5, <1>6 DEF Serve

LEMMA NextType == TypeOK /\ SessionInv /\ [Next]_vars => TypeOK' /\ SessionInv'
<1> SUFFICES ASSUME TypeOK, SessionInv, [Next]_vars PROVE TypeOK' /\ SessionInv'
  OBVIOUS
<1>1. ASSUME NEW s \in Session, Receive(s) \/ Serve(s) \/ Reconnect(s)
      PROVE  TypeOK' /\ SessionInv'
  <2>1. pc' \in [Session -> Steps]
    BY <1>1, Moves
  <2> QED
    BY <1>1, <2>1, FilesStep, RequestStep, SessionStep DEF TypeOK
<1>2. CASE Crash
  <2>1. /\ UNCHANGED <<folder, pwd, home, log, signs, last, proven>>
        /\ pc' = [s \in Session |-> "idle"] /\ req' = [s \in Session |-> NoRequest]
        /\ user' = [s \in Session |-> NoOne] /\ pos' = [s \in Session |-> 0]
        /\ out' = [s \in Session |-> "none"] /\ crashes' \in 0..MaxCrashes
    BY <1>2, BoundAssumption DEF Crash, files, hist, TypeOK
  <2> QED
    BY <2>1 DEF TypeOK, SessionInv, Steps
<1>3. CASE UNCHANGED vars
  BY <1>3 DEF vars, TypeOK, SessionInv
<1> QED
  BY <1>1, <1>2, <1>3 DEF Next

(* The state keeps its types: the lines of the log are addresses and names,   *)
(* and a password file a sign-up writes to is there.                          *)
THEOREM TypeCorrect == Spec => []TypeOK
<1>1. Spec => [](TypeOK /\ SessionInv)
  BY InitType, NextType, PTL DEF Spec
<1> QED
  BY <1>1, PTL
-----------------------------------------------------------------------------
(* The log.                                                                   *)

LEMMA OddNext == \A i \in Nat : Odd(i + 1) <=> ~Odd(i)
  BY DEF Odd

(* Appending to a log that is not paired never repairs it; appending to one   *)
(* that is takes the right kind of line.                                      *)
LEMMA PairedAppend ==
  ASSUME NEW S, NEW l \in Seq(S), NEW x \in S, Paired(Append(l, x))
  PROVE  Paired(l) /\ (x \in IP <=> Odd(Len(l) + 1))
<1>1. /\ Len(l) \in Nat /\ Len(Append(l, x)) = Len(l) + 1 /\ Append(l, x)[Len(l) + 1] = x
      /\ \A i \in 1..Len(l) : Append(l, x)[i] = l[i]
  BY AppendProperties
<1>2. \A i \in 1..Len(l) + 1 : Append(l, x)[i] \in IP <=> Odd(i)
  BY <1>1 DEF Paired
<1>3. Len(l) + 1 \in 1..Len(l) + 1 /\ 1..Len(l) \subseteq 1..Len(l) + 1
  BY <1>1
<1> QED
  BY <1>1, <1>2, <1>3 DEF Paired

(* What a step does to the log, if the log is paired after it. *)
LEMMA LogGrows ==
  ASSUME TypeOK, SessionInv, LogInv, NEW s \in Session, Receive(s) \/ Serve(s) \/ Reconnect(s),
         Paired(log)'
  PROVE  /\ Paired(log)
         /\ \/ UNCHANGED <<log, last>> /\ pc'[s] # "name"
            \/ /\ AppendAddress(s) /\ log' = Append(log, Peer[s])
               /\ ~Odd(Len(log)) /\ Odd(Len(log) + 1)
            \/ /\ AppendName(s) /\ log' = Append(log, user[s]) /\ user[s] \in User
               /\ Odd(Len(log)) /\ ~Odd(Len(log) + 1)
         /\ \A i \in 1..Len(log) : log'[i] = log[i]
<1>t. log \in Seq(IP \cup User) /\ Len(log) \in Nat /\ Peer[s] \in IP
  BY PeerAssumption DEF TypeOK
<1>1. CASE AppendAddress(s) /\ log' = Append(log, Peer[s])
  BY <1>1, <1>t, PairedAppend, AppendProperties, OddNext
<1>2. CASE AppendName(s) /\ log' = Append(log, user[s])
  <2>1. user[s] \in User /\ pc[s] = "name"
    BY <1>2, Busy DEF AppendName, SessionInv
  <2>2. Paired(log) /\ \A i \in 1..Len(log) : log'[i] = log[i]
    BY <1>2, <1>t, <2>1, PairedAppend, AppendProperties
  <2>3. Odd(Len(log))
    BY <2>1, <2>2 DEF LogInv
  <2> QED
    BY <1>2, <1>t, <2>1, <2>2, <2>3, OddNext
<1>3. CASE UNCHANGED <<log, last>> /\ pc'[s] # "name"
  BY <1>3
<1>4. CASE AppendAddress(s) /\ Answer(s, "succeeded") /\ UNCHANGED log
  <2>1. pc'[s] = "reply" /\ UNCHANGED last
    BY <1>4 DEF AppendAddress, Answer, Goto, TypeOK, hist
  <2> QED
    BY <1>3, <1>4, <2>1
<1>5. CASE AppendName(s) /\ UNCHANGED <<log, last>>
  BY <1>3, <1>5, Moves
<1>6. CASE ~AppendAddress(s) /\ ~AppendName(s)
  <2>1. UNCHANGED <<log, last>>
    BY <1>6
    DEF Receive, Reconnect, Serve, Lookup, Check, Exists, MakeDir, Truncate, Write, MakeHome,
        ReadPassword, Reply, files, hist
  <2>2. pc'[s] # "name"
    BY <1>6, Moves DEF Serve
  <2> QED
    BY <1>3, <2>1, <2>2
<1> QED
  BY <1>1, <1>2, <1>4, <1>5, <1>6 DEF AppendAddress, AppendName

(* What a step does to the name its session remembers. *)
LEMMA UserChanges ==
  ASSUME TypeOK, SessionInv, NEW s \in Session, Receive(s) \/ Serve(s) \/ Reconnect(s)
  PROVE  \/ user'[s] = user[s]
         \/ user'[s] = NoOne
         \/ <<Peer[s], user'[s]>> \in proven'
         \/ /\ Lookup(s) /\ pos[s] + 1 < Len(log) /\ log[pos[s] + 1] = Peer[s]
            /\ user'[s] = log[pos[s] + 2]
<1>t. user \in [Session -> IP \cup User \cup {NoOne}] /\ pos[s] \in Nat
  BY DEF TypeOK
<1>1. CASE Lookup(s)
  <2>1. \/ user' = user \/ user' = [user EXCEPT ![s] = NoOne]
        \/ /\ pos[s] + 1 < Len(log) /\ log[pos[s] + 1] = Peer[s]
           /\ user' = [user EXCEPT ![s] = log[pos[s] + 1 + 1]]
    BY <1>1 DEF Lookup
  <2>2. pos[s] + 1 + 1 = pos[s] + 2
    BY <1>t
  <2> QED
    BY <1>1, <1>t, <2>1, <2>2
<1>2. CASE Exists(s) \/ ReadPassword(s)
  <2>1. user' = user \/ Succeed(s)
    BY <1>2 DEF Exists, ReadPassword
  <2> QED
    BY <1>t, <2>1 DEF Succeed
<1>3. CASE Reconnect(s)
  BY <1>3, <1>t DEF Reconnect
<1>4. CASE ~Lookup(s) /\ ~Exists(s) /\ ~ReadPassword(s) /\ ~Reconnect(s)
  BY <1>4
  DEF Receive, Serve, Check, MakeDir, Truncate, Write, MakeHome, AppendAddress, AppendName, Reply
<1> QED
  BY <1>1, <1>2, <1>3, <1>4

LEMMA LogStep ==
  ASSUME TypeOK, SessionInv, LogInv, NEW s \in Session, Receive(s) \/ Serve(s) \/ Reconnect(s)
  PROVE  LogInv'
<1> SUFFICES ASSUME Paired(log)' PROVE LogInv'
  BY DEF LogInv
<1>t. log \in Seq(IP \cup User) /\ Len(log) \in Nat
  BY DEF TypeOK
<1>p. Paired(log) /\ proven \subseteq proven' /\ \A i \in 1..Len(log) : log'[i] = log[i]
  BY LogGrows, SessionStep
<1>i. /\ \A r \in Session : pc[r] = "name" => Odd(Len(log)) /\ log[Len(log)] = Peer[r]
      /\ \A q, r \in Session : pc[q] = "name" /\ pc[r] = "name" => q = r
      /\ \A i \in 1..Len(log) : Odd(i) /\ i < Len(log) => <<log[i], log[i + 1]>> \in proven
      /\ \A r \in Session : user[r] = NoOne \/ <<Peer[r], user[r]>> \in proven
  BY <1>p DEF LogInv, Entry
<1>o. \A r \in Session \ {s} : pc'[r] = pc[r] /\ user'[r] = user[r]
  BY OthersKeep
(* Remembered names.                                                          *)
<1>1. \A r \in Session : user'[r] = NoOne \/ <<Peer[r], user'[r]>> \in proven'
  <2>1. CASE /\ Lookup(s) /\ pos[s] + 1 < Len(log) /\ log[pos[s] + 1] = Peer[s]
             /\ user'[s] = log[pos[s] + 2]
    <3>1. pos[s] \in Nat /\ pos[s] + 1 \in 1..Len(log) /\ pos[s] + 1 + 1 = pos[s] + 2
      BY <1>t, <2>1 DEF TypeOK
    <3>2. Odd(pos[s] + 1)
      BY <1>p, <2>1, <3>1, PeerAssumption DEF Paired
    <3>3. <<log[pos[s] + 1], log[pos[s] + 2]>> \in proven
      BY <1>i, <2>1, <3>1, <3>2
    <3> QED
      BY <1>i, <1>o, <1>p, <2>1, <3>3
  <2> QED
    BY <1>i, <1>o, <1>p, <2>1, UserChanges
(* Names in the log, and the sessions that are about to append one.           *)
<1>2. CASE UNCHANGED log /\ pc'[s] # "name"
  BY <1>1, <1>2, <1>i, <1>o, <1>p DEF LogInv, Entry
<1>3. CASE /\ AppendAddress(s) /\ log' = Append(log, Peer[s])
           /\ ~Odd(Len(log)) /\ Odd(Len(log) + 1)
  <2>1. Len(log') = Len(log) + 1 /\ log'[Len(log) + 1] = Peer[s]
    BY <1>3, <1>t, PeerAssumption, AppendProperties
  <2>2. \A r \in Session : pc'[r] = "name" => r = s
    BY <1>3, <1>i, <1>o
  <2>3. \A i \in 1..Len(log') : Odd(i) /\ i < Len(log') =>
          i \in 1..Len(log) /\ i + 1 \in 1..Len(log) /\ i < Len(log)
    <3> SUFFICES ASSUME NEW i \in 1..Len(log'), Odd(i), i < Len(log')
                 PROVE  i \in 1..Len(log) /\ i + 1 \in 1..Len(log) /\ i < Len(log)
      OBVIOUS
    <3>1. i # Len(log)
      BY <1>3
    <3> QED
      BY <1>t, <2>1, <3>1
  <2> QED
    BY <1>1, <1>3, <1>i, <1>p, <2>1, <2>2, <2>3 DEF LogInv, Entry
<1>4. CASE /\ AppendName(s) /\ log' = Append(log, user[s]) /\ user[s] \in User
           /\ Odd(Len(log)) /\ ~Odd(Len(log) + 1)
  <2>1. Len(log') = Len(log) + 1 /\ log'[Len(log) + 1] = user[s]
    BY <1>4, <1>t, AppendProperties
  <2>2. pc[s] = "name" /\ pc'[s] = "reply"
    BY <1>4, Moves
  <2>3. \A r \in Session : pc'[r] # "name"
    BY <1>i, <1>o, <2>2
  <2>4. log[Len(log)] = Peer[s] /\ <<Peer[s], user[s]>> \in proven
    BY <1>i, <2>2 DEF SessionInv
  <2>5. ASSUME NEW i \in 1..Len(log'), Odd(i), i < Len(log')
        PROVE  <<log'[i], log'[i + 1]>> \in proven'
    <3>1. CASE i = Len(log)
      BY <1>p, <1>t, <2>1, <2>4, <3>1
    <3>2. CASE i < Len(log)
      <4>1. i \in 1..Len(log) /\ i + 1 \in 1..Len(log)
        BY <1>t, <3>2
      <4> QED
        BY <1>i, <1>p, <2>5, <3>2, <4>1
    <3> QED
      BY <1>t, <2>1, <2>5, <3>1, <3>2
  <2> QED
    BY <1>1, <2>3, <2>5 DEF LogInv, Entry
<1> QED
  BY <1>2, <1>3, <1>4, LogGrows
-----------------------------------------------------------------------------
(* What last says of the log.                                                 *)

LEMMA LastStep ==
  ASSUME TypeOK, SessionInv, LogInv, LastInv,
         NEW s \in Session, Receive(s) \/ Serve(s) \/ Reconnect(s)
  PROVE  LastInv'
<1> SUFFICES ASSUME Paired(log)', NEW a \in IP, last'[a] # NoOne
             PROVE  \E i \in 1..Len(log') :
                      /\ Odd(i) /\ i < Len(log') /\ log'[i] = a /\ log'[i + 1] = last'[a]
                      /\ \A j \in i + 1..Len(log') : Odd(j) /\ j < Len(log') => log'[j] # a
  BY DEF LastInv, Entry
<1>t. log \in Seq(IP \cup User) /\ Len(log) \in Nat /\ last \in [IP -> User \cup {NoOne}]
  BY DEF TypeOK
<1>p. Paired(log) /\ \A i \in 1..Len(log) : log'[i] = log[i]
  BY LogGrows
<1>l. last[a] # NoOne =>
        \E i \in 1..Len(log) :
          /\ Odd(i) /\ i < Len(log) /\ log[i] = a /\ log[i + 1] = last[a]
          /\ \A j \in i + 1..Len(log) : Odd(j) /\ j < Len(log) => log[j] # a
  BY <1>p DEF LastInv, Entry
<1>1. CASE UNCHANGED <<log, last>>
  BY <1>1, <1>l
<1>2. CASE /\ AppendAddress(s) /\ log' = Append(log, Peer[s])
           /\ ~Odd(Len(log)) /\ Odd(Len(log) + 1)
  <2>1. Len(log') = Len(log) + 1 /\ UNCHANGED last
    BY <1>2, <1>t, PeerAssumption, AppendProperties DEF AppendAddress, hist
  <2> PICK i \in 1..Len(log) :
        /\ Odd(i) /\ i < Len(log) /\ log[i] = a /\ log[i + 1] = last[a]
        /\ \A j \in i + 1..Len(log) : Odd(j) /\ j < Len(log) => log[j] # a
    BY <1>l, <2>1
  <2>2. i \in 1..Len(log') /\ i < Len(log') /\ log'[i] = a /\ log'[i + 1] = last'[a]
    BY <1>p, <1>t, <2>1
  <2>3. ASSUME NEW j \in i + 1..Len(log'), Odd(j), j < Len(log') PROVE log'[j] # a
    <3>1. j # Len(log)
      BY <1>2, <2>3
    <3>2. j \in i + 1..Len(log) /\ j < Len(log) /\ j \in 1..Len(log)
      BY <1>t, <2>1, <2>3, <3>1
    <3> QED
      BY <1>p, <2>3, <3>2
  <2> QED
    BY <2>2, <2>3
<1>3. CASE /\ AppendName(s) /\ log' = Append(log, user[s]) /\ user[s] \in User
           /\ Odd(Len(log)) /\ ~Odd(Len(log) + 1)
  <2>1. /\ Len(log') = Len(log) + 1 /\ log'[Len(log) + 1] = user[s]
        /\ pc[s] = "name" /\ last' = [last EXCEPT ![Peer[s]] = user[s]]
    BY <1>3, <1>t, AppendProperties DEF AppendName
  <2>2. log[Len(log)] = Peer[s]
    BY <1>p, <2>1 DEF LogInv
  <2>3. Len(log) \in 1..Len(log)
    <3>1. Len(log) # 0
      BY <1>3 DEF Odd
    <3> QED
      BY <1>t, <3>1
  <2>4. CASE a = Peer[s]
    <3>1. last'[a] = user[s]
      BY <1>t, <2>1, <2>4
    <3>2. Len(log) \in 1..Len(log') /\ Len(log) < Len(log') /\ log'[Len(log)] = a
      BY <1>p, <1>t, <2>1, <2>2, <2>3, <2>4
    <3>3. \A j \in Len(log) + 1..Len(log') : ~(j < Len(log'))
      BY <1>t, <2>1
    <3> QED
      BY <1>3, <2>1, <3>1, <3>2, <3>3
  <2>5. CASE a # Peer[s]
    <3>1. last'[a] = last[a]
      BY <1>t, <2>1, <2>5
    <3> PICK i \in 1..Len(log) :
          /\ Odd(i) /\ i < Len(log) /\ log[i] = a /\ log[i + 1] = last[a]
          /\ \A j \in i + 1..Len(log) : Odd(j) /\ j < Len(log) => log[j] # a
      BY <1>l, <3>1
    <3>2. i \in 1..Len(log') /\ i < Len(log') /\ log'[i] = a /\ log'[i + 1] = last'[a]
      BY <1>p, <1>t, <2>1, <3>1
    <3>3. ASSUME NEW j \in i + 1..Len(log'), Odd(j), j < Len(log') PROVE log'[j] # a
      <4>1. CASE j = Len(log)
        BY <1>p, <2>2, <2>3, <2>5, <4>1
      <4>2. CASE j # Len(log)
        <5>1. j \in i + 1..Len(log) /\ j < Len(log) /\ j \in 1..Len(log)
          BY <1>t, <2>1, <3>3, <4>2
        <5> QED
          BY <1>p, <3>3, <5>1
      <4> QED
        BY <4>1, <4>2
    <3> QED
      BY <3>2, <3>3
  <2> QED
    BY <2>4, <2>5
<1> QED
  BY <1>1, <1>2, <1>3, LogGrows
-----------------------------------------------------------------------------
(* The look-up.                                                               *)

LEMMA StartStep ==
  ASSUME TypeOK, StartInv, NEW s \in Session, Receive(s) \/ Serve(s) \/ Reconnect(s)
  PROVE  StartInv'
<1>t. pos \in [Session -> Nat] /\ \A r \in Session : pc[r] # "lookup" => pos[r] = 0
  BY DEF TypeOK, StartInv
<1>1. pc'[s] # "lookup" => pos'[s] = 0
  <2>1. CASE Lookup(s)
    <3>1. UNCHANGED pc \/ LookedUp(s)
      BY <2>1 DEF Lookup, LastMatch, ReadOn
    <3>2. LookedUp(s) => pos'[s] = 0
      BY <1>t DEF LookedUp
    <3>3. pc[s] = "lookup"
      BY <2>1 DEF Lookup
    <3> QED
      BY <3>1, <3>2, <3>3
  <2>2. CASE ~Lookup(s)
    <3>1. UNCHANGED pos
      BY <2>2 DEF Receive, Reconnect, Serve, Check, Exists, MakeDir, Truncate, Write, MakeHome,
                  ReadPassword, AppendAddress, AppendName, Reply
    <3>2. pc[s] # "lookup"
      BY <2>2, Moves DEF Serve
    <3> QED
      BY <1>t, <3>1, <3>2
  <2> QED
    BY <2>1, <2>2
<1> QED
  BY <1>1, <1>t, OthersKeep DEF StartInv

LEMMA ScanStep ==
  ASSUME TypeOK, SessionInv, LogInv, StartInv, ScanInv,
         NEW s \in Session, Receive(s) \/ Serve(s) \/ Reconnect(s)
  PROVE  ScanInv'
<1> DEFINE Scanned(r) ==
      /\ Odd(pos[r]) => log[pos[r]] # Peer[r]
      /\ \A i \in 1..pos[r] :
           /\ Odd(i) /\ log[i] = Peer[r]
           /\ \A j \in i + 1..pos[r] : Odd(j) => log[j] # Peer[r]
           => i < pos[r] /\ user[r] = log[i + 1]
<1> SUFFICES ASSUME Paired(log)', NEW r \in Session, pc'[r] = "lookup" PROVE Scanned(r)'
  BY DEF ScanInv
<1>y. /\ log \in Seq(IP \cup User)
      /\ pos \in [Session -> Nat] /\ user \in [Session -> IP \cup User \cup {NoOne}]
  BY DEF TypeOK
<1>x. pos[r] <= Len(log)
  BY DEF SessionInv
<1>t. /\ log \in Seq(IP \cup User) /\ Len(log) \in Nat
      /\ pos \in [Session -> Nat] /\ user \in [Session -> IP \cup User \cup {NoOne}]
      /\ pos[r] \in Nat /\ pos[r] <= Len(log)
  BY <1>x, <1>y
<1>p. Paired(log) /\ \A i \in 1..Len(log) : log'[i] = log[i]
  BY LogGrows
<1>s. pc[r] = "lookup" => Scanned(r)
  BY <1>p DEF ScanInv
<1>z. ~Odd(0)
  BY DEF Odd
(* The lines read so far stay what they are when others append.               *)
<1>1. CASE pc[r] = "lookup" /\ pos'[r] = pos[r] /\ user'[r] = user[r]
  <2>1. Odd(pos[r]) => log'[pos[r]] = log[pos[r]]
    <3>1. Odd(pos[r]) => pos[r] \in 1..Len(log)
      BY <1>t, <1>z
    <3> QED
      BY <1>p, <3>1
  <2>2. ASSUME NEW i \in 1..pos[r], Odd(i), log'[i] = Peer[r],
               \A j \in i + 1..pos[r] : Odd(j) => log'[j] # Peer[r]
        PROVE  i < pos[r] /\ user[r] = log'[i + 1]
    <3>1. i \in 1..Len(log) /\ \A j \in i + 1..pos[r] : j \in 1..Len(log)
      BY <1>t
    <3>2. log[i] = Peer[r] /\ \A j \in i + 1..pos[r] : Odd(j) => log[j] # Peer[r]
      BY <1>p, <2>2, <3>1
    <3>3. i < pos[r] /\ user[r] = log[i + 1]
      BY <1>1, <1>s, <2>2, <3>2
    <3>4. i + 1 \in 1..Len(log)
      BY <1>t, <3>3
    <3> QED
      BY <1>p, <3>3, <3>4
  <2> QED
    BY <1>1, <1>s, <2>1, <2>2
<1>2. CASE r # s
  BY <1>1, <1>2, OthersKeep
<1>3. CASE r = s /\ Receive(s)
  <2>1. pos'[r] = 0
    BY <1>3, <1>t, Moves DEF StartInv, Receive
  <2> QED
    BY <1>z, <2>1
<1>4. CASE r = s /\ Lookup(s)
  <2> DEFINE n == pos[s] + 1
  <2>1. UNCHANGED log /\ pc[s] = "lookup" /\ ~LookedUp(s)
    BY <1>4 DEF Lookup, files, LookedUp, Goto, TypeOK
  <2>2. CASE n <= Len(log) /\ log[n] # Peer[s] /\ pos' = [pos EXCEPT ![s] = n] /\ UNCHANGED user
    <3>1. pos'[r] = n /\ user'[r] = user[r] /\ log' = log
      BY <1>4, <1>t, <2>1, <2>2
    <3>2. ASSUME NEW i \in 1..n, Odd(i), log[i] = Peer[r],
                 \A j \in i + 1..n : Odd(j) => log[j] # Peer[r]
          PROVE  i < n /\ user[r] = log[i + 1]
      <4>1. i \in 1..pos[r]
        BY <1>4, <1>t, <2>2, <3>2
      <4>2. \A j \in i + 1..pos[r] : j \in i + 1..n
        BY <1>4, <1>t
      <4>3. i < pos[r] /\ user[r] = log[i + 1]
        BY <1>4, <1>s, <2>1, <3>2, <4>1, <4>2
      <4> QED
        BY <1>4, <1>t, <4>1, <4>3
    <3> QED
      BY <1>4, <2>2, <3>1, <3>2
  <2>3. CASE /\ n < Len(log) /\ log[n] = Peer[s]
             /\ user' = [user EXCEPT ![s] = log[n + 1]] /\ pos' = [pos EXCEPT ![s] = n + 1]
    <3>1. pos'[r] = n + 1 /\ user'[r] = log[n + 1] /\ log' = log
      BY <1>4, <1>t, <2>1, <2>3
    <3>2. n \in 1..Len(log) /\ n \in Nat
      BY <1>4, <1>t, <2>3
    <3>3. Odd(n) /\ ~Odd(n + 1)
      BY <1>p, <2>3, <3>2, PeerAssumption, OddNext DEF Paired
    <3>4. ASSUME NEW i \in 1..n + 1, Odd(i), \A j \in i + 1..n + 1 : Odd(j) => log[j] # Peer[r]
          PROVE  i = n
      <4>1. i # n + 1
        BY <3>3, <3>4
      <4>2. i < n => n \in i + 1..n + 1
        BY <3>2
      <4>3. ~(i < n)
        BY <1>4, <2>3, <3>3, <3>4, <4>2
      <4> QED
        BY <3>2, <4>1, <4>3
    <3>5. ASSUME NEW i \in 1..n + 1, i = n PROVE i < n + 1 /\ user'[r] = log[i + 1]
      BY <3>1, <3>2, <3>5
    <3> QED
      BY <3>1, <3>3, <3>4, <3>5
  <2> QED
    BY <1>4, <2>1, <2>2, <2>3 DEF Lookup, ReadOn, LastMatch
<1>5. CASE r = s /\ ~Receive(s) /\ ~Lookup(s)
  BY <1>5, Moves DEF Serve
<1> QED
  BY <1>2, <1>3, <1>4, <1>5
-----------------------------------------------------------------------------
(* Answers.                                                                   *)

LEMMA AnswerStep ==
  ASSUME TypeOK, AnswerInv, NEW s \in Session, Receive(s) \/ Serve(s) \/ Reconnect(s)
  PROVE  AnswerInv'
<1>t. \A r \in Session : pc[r] # "reply" => out[r] = "none"
  BY DEF AnswerInv
<1>o. out \in [Session -> {"none", "served", "refused", "failed", "succeeded"}]
  BY DEF TypeOK
<1>1. pc'[s] # "reply" => out'[s] = "none"
  <2>1. CASE Reply(s)
    BY <1>o, <2>1 DEF Reply
  <2>2. CASE ~Reply(s)
    <3>1. \/ UNCHANGED out
          \/ \E a : Answer(s, a)
      BY <2>2 DEF Receive, Reconnect, Serve, Lookup, Check, Exists, MakeDir, Truncate, Write, MakeHome,
                  ReadPassword, AppendAddress, AppendName
    <3>2. (\E a : Answer(s, a)) => pc'[s] = "reply"
      BY DEF Answer, Goto, TypeOK
    <3>3. pc[s] # "reply"
      BY <2>2, Moves DEF Serve
    <3> QED
      BY <1>t, <3>1, <3>2, <3>3
  <2> QED
    BY <2>1, <2>2
<1> QED
  BY <1>1, <1>t, OthersKeep DEF AnswerInv

LEMMA EntitledStep ==
  ASSUME TypeOK, SessionInv, LogInv, AnswerInv, Entitled,
         NEW s \in Session, Receive(s) \/ Serve(s) \/ Reconnect(s)
  PROVE  Entitled'
<1> SUFFICES ASSUME Paired(log)', NEW r \in Session, req'[r].kind = "api", out'[r] = "served"
             PROVE  <<Peer[r], req'[r].user>> \in proven'
  BY DEF Entitled
<1>p. Paired(log) /\ proven \subseteq proven'
  BY LogGrows, SessionStep
<1>e. req[r].kind = "api" /\ out[r] = "served" => <<Peer[r], req[r].user>> \in proven
  BY <1>p DEF Entitled
<1>1. CASE req'[r] = req[r] /\ out'[r] = out[r]
  BY <1>1, <1>e, <1>p
<1>2. CASE r # s
  BY <1>1, <1>2, OthersKeep
<1>3. CASE r = s /\ Check(s)
  <2>1. pc'[s] = "reply" /\ UNCHANGED req
    <3>1. pc'[s] \in {"reply", "exists", "password"} /\ AnswerInv' /\ UNCHANGED req
      BY <1>3, Moves, AnswerStep DEF Check
    <3> QED
      BY <1>3, <3>1 DEF AnswerInv
  <2>2. \/ Admitted(s)
        \/ Answer(s, "refused")
        \/ Goto(s, "exists")
        \/ Goto(s, "password")
    BY <1>3 DEF Check
  <2>3. /\ Answer(s, "refused") => out'[s] = "refused"
        /\ Goto(s, "exists") => pc'[s] = "exists"
        /\ Goto(s, "password") => pc'[s] = "password"
    BY DEF Answer, Goto, TypeOK
  <2>4. user[s] = req[s].user /\ user[s] # NoOne
    BY <1>3, <2>1, <2>2, <2>3 DEF Admitted
  <2>5. <<Peer[s], user[s]>> \in proven
    BY <1>p, <2>4 DEF LogInv
  <2> QED
    BY <1>3, <1>p, <2>1, <2>4, <2>5
<1>4. CASE r = s /\ ~Check(s)
  <2>1. CASE pc'[s] # "reply"
    BY <1>4, <2>1, AnswerStep DEF AnswerInv
  <2>2. CASE UNCHANGED <<req, out>>
    BY <1>1, <2>2
  <2>3. CASE \E a \in {"failed", "succeeded"} : Answer(s, a)
    BY <1>4, <2>3 DEF Answer, TypeOK
  <2>4. CASE ~Receive(s) /\ ~Reply(s)
    <3>1. UNCHANGED req
      BY <1>4, <2>4 DEF Reconnect, Serve, Lookup, Exists, MakeDir, Truncate, Write, MakeHome,
                  ReadPassword, AppendAddress, AppendName
    <3>2. UNCHANGED out \/ \E a \in {"failed", "succeeded"} : Answer(s, a)
      BY <1>4, <2>4 DEF Reconnect, Serve, Lookup, Exists, MakeDir, Truncate, Write, MakeHome,
                  ReadPassword, AppendAddress, AppendName
    <3> QED
      BY <2>2, <2>3, <3>1, <3>2
  <2>5. CASE Receive(s) \/ Reply(s)
    <3>1. pc'[s] # "reply"
      BY <2>5, Moves
    <3> QED
      BY <2>1, <3>1
  <2> QED
    BY <2>4, <2>5
<1> QED
  BY <1>2, <1>3, <1>4
-----------------------------------------------------------------------------
(* The inductive invariant.                                                   *)

LEMMA InitInv == Init => IInv
<1> SUFFICES ASSUME Init PROVE IInv
  OBVIOUS
<1>1. TypeOK /\ SessionInv
  BY InitType
<1>2. /\ Len(log) = 0 /\ \A s \in Session : pc[s] = "idle" /\ pos[s] = 0 /\ user[s] = NoOne /\ out[s] = "none"
      /\ \A a \in IP : last[a] = NoOne
  BY DEF Init
<1> QED
  BY <1>1, <1>2 DEF IInv, LogInv, LastInv, StartInv, ScanInv, AnswerInv, Entitled

LEMMA CrashStep == IInv /\ Crash => IInv'
<1> SUFFICES ASSUME IInv, Crash PROVE IInv'
  OBVIOUS
<1>1. TypeOK' /\ SessionInv'
  BY NextType DEF IInv, Next
<1>2. /\ UNCHANGED <<log, last, proven>>
      /\ \A s \in Session : pc'[s] = "idle" /\ pos'[s] = 0 /\ user'[s] = NoOne /\ out'[s] = "none"
  BY DEF Crash, files, hist
<1>3. LogInv' /\ LastInv'
  BY <1>2 DEF IInv, LogInv, LastInv, Entry
<1>4. StartInv' /\ ScanInv' /\ AnswerInv' /\ Entitled'
  BY <1>2 DEF StartInv, ScanInv, AnswerInv, Entitled
<1> QED
  BY <1>1, <1>3, <1>4 DEF IInv

LEMMA NextInv == IInv /\ [Next]_vars => IInv'
<1> SUFFICES ASSUME IInv, [Next]_vars PROVE IInv'
  OBVIOUS
<1>i. TypeOK /\ SessionInv /\ LogInv /\ LastInv /\ StartInv /\ ScanInv /\ AnswerInv /\ Entitled
  BY DEF IInv
<1>0. TypeOK' /\ SessionInv'
  BY <1>i, NextType
<1>1. ASSUME NEW s \in Session, Receive(s) \/ Serve(s) \/ Reconnect(s) PROVE IInv'
  BY <1>0, <1>1, <1>i, LogStep, LastStep, StartStep, ScanStep, AnswerStep, EntitledStep DEF IInv
<1>2. CASE Crash
  BY <1>2, CrashStep
<1>3. CASE UNCHANGED vars
  <2>1. LogInv' /\ LastInv'
    BY <1>3, <1>i DEF vars, LogInv, LastInv, Entry, Paired
  <2>2. StartInv' /\ ScanInv' /\ AnswerInv' /\ Entitled'
    BY <1>3, <1>i DEF vars, StartInv, ScanInv, AnswerInv, Entitled, Paired
  <2> QED
    BY <1>0, <2>1, <2>2 DEF IInv
<1> QED
  BY <1>1, <1>2, <1>3 DEF Next

(* As long as the log is paired, it says of every address who was signed in   *)
(* there last, and a look-up that is half way has drawn from the lines it has *)
(* read the conclusion they allow.                                            *)
THEOREM AuthInvariant == Spec => []IInv
  BY InitInv, NextInv, PTL DEF Spec

(* While the log is paired, /api/<user> is served only to an address at which *)
(* someone has signed up or in as that user.                                  *)
THEOREM EntitledHolds == Spec => []Entitled
<1>1. IInv => Entitled
  BY DEF IInv
<1> QED
  BY <1>1, AuthInvariant, PTL
-----------------------------------------------------------------------------
(* The action properties.                                                     *)

(* Where a look-up ends. *)
LEMMA LookupEndsStep ==
  ASSUME TypeOK, NEW s \in Session, [Next]_vars, LookupEnds(s)
  PROVE  \/ user'[s] = user[s] /\ pos[s] + 1 > Len(log)
         \/ user'[s] = NoOne /\ Len(log) = pos[s] + 1 /\ log[Len(log)] = Peer[s]
<1>t. user \in [Session -> IP \cup User \cup {NoOne}]
  BY DEF TypeOK
<1>1. Lookup(s)
  <2>1. CASE UNCHANGED vars \/ Crash
    BY <2>1 DEF vars, Crash, LookupEnds
  <2>2. ASSUME NEW r \in Session, Receive(r) \/ Serve(r) \/ Reconnect(r) PROVE Lookup(s)
    <3>1. r = s
      BY <2>2, OthersKeep DEF LookupEnds
    <3> QED
      BY <2>2, <3>1, Moves DEF LookupEnds, Serve
  <2> QED
    BY <2>1, <2>2 DEF Next
<1>2. pc' # pc
  BY DEF LookupEnds
<1> QED
  BY <1>1, <1>2, <1>t DEF Lookup, ReadOn, LastMatch

LEMMA LookupRight ==
  ASSUME IInv, NEW s \in Session, [Next]_vars, LookupEnds(s), Paired(log), last[Peer[s]] # NoOne
  PROVE  \/ user'[s] = last[Peer[s]]
         \/ user'[s] = NoOne /\ log[Len(log)] = Peer[s]
<1>i. TypeOK /\ SessionInv /\ LastInv /\ ScanInv
  BY DEF IInv
<1>t. Len(log) \in Nat /\ pos[s] \in Nat /\ pos[s] <= Len(log) /\ Peer[s] \in IP
  <2>1. log \in Seq(IP \cup User) /\ pos \in [Session -> Nat]
    BY <1>i DEF TypeOK
  <2>2. pos[s] <= Len(log)
    BY <1>i DEF SessionInv
  <2> QED
    BY <2>1, <2>2, PeerAssumption
<1>1. CASE user'[s] = NoOne /\ Len(log) = pos[s] + 1 /\ log[Len(log)] = Peer[s]
  BY <1>1
<1>2. CASE user'[s] = user[s] /\ pos[s] + 1 > Len(log)
  <2> PICK i \in 1..Len(log) :
        /\ Odd(i) /\ i < Len(log) /\ log[i] = Peer[s] /\ log[i + 1] = last[Peer[s]]
        /\ \A j \in i + 1..Len(log) : Odd(j) /\ j < Len(log) => log[j] # Peer[s]
    BY <1>i, <1>t DEF LastInv, Entry
  <2>1. pos[s] = Len(log)
    BY <1>2, <1>t
  <2>2. pc[s] = "lookup" /\ Odd(pos[s]) => log[pos[s]] # Peer[s]
    BY <1>i DEF ScanInv
  <2>3. pc[s] = "lookup"
    BY DEF LookupEnds
  <2>4. ASSUME NEW j \in i + 1..pos[s], Odd(j) PROVE log[j] # Peer[s]
    <3>1. CASE j = pos[s]
      BY <2>2, <2>3, <2>4, <3>1
    <3>2. CASE j # pos[s]
      <4>1. j \in i + 1..Len(log) /\ j < Len(log)
        BY <1>t, <2>1, <3>2
      <4> QED
        BY <2>4, <4>1
    <3> QED
      BY <3>1, <3>2
  <2>5. user[s] = log[i + 1]
    BY <1>i, <2>1, <2>3, <2>4 DEF ScanInv
  <2> QED
    BY <1>2, <2>5
<1> QED
  BY <1>1, <1>2, <1>i, LookupEndsStep

(* While the log is paired, the loop of handle_get_user ends with the user    *)
(* last logged for the address, or, between the two appends of another sign-  *)
(* in from it, with nobody.                                                   *)
THEOREM LookupFaithfulHolds == Spec => LookupFaithful
<1>1. IInv /\ [Next]_vars =>
        [\A s \in Session :
           LookupEnds(s) /\ Paired(log) /\ last[Peer[s]] # NoOne =>
             \/ user'[s] = last[Peer[s]]
             \/ user'[s] = NoOne /\ log[Len(log)] = Peer[s]]_vars
  BY LookupRight
<1> QED
  BY <1>1, AuthInvariant, PTL DEF Spec, LookupFaithful

LEMMA SettledStep ==
  ASSUME TypeOK, [Next]_vars, NEW u \in User, Settled(u)
  PROVE  Settled(u)' /\ pwd'[u] = pwd[u]
<1> DEFINE Making(r) == pc[r] \in {"mkdir", "truncate", "write"}
<1>t. folder \subseteq User /\ pwd \in [User -> Seq(Char) \cup {NoFile}]
  BY DEF TypeOK
<1>s. u \in folder /\ \A r \in Session : Making(r) => req[r].user # u
  BY DEF Settled
<1>1. ASSUME NEW s \in Session, Receive(s) \/ Serve(s) \/ Reconnect(s)
      PROVE  Settled(u)' /\ pwd'[u] = pwd[u]
  <2>1. u \in folder'
    BY <1>1, <1>s
    DEF Receive, Reconnect, Serve, Lookup, Check, Exists, MakeDir, Truncate, Write, MakeHome,
        ReadPassword, AppendAddress, AppendName, Reply, files
  <2>2. pwd'[u] = pwd[u]
    <3>1. CASE Truncate(s) \/ Write(s)
      <4>1. Making(s)
        BY <3>1 DEF Truncate, Write
      <4> QED
        BY <1>s, <1>t, <3>1, <4>1 DEF Truncate, Write
    <3>2. CASE ~Truncate(s) /\ ~Write(s)
      BY <1>1, <3>2
      DEF Receive, Reconnect, Serve, Lookup, Check, Exists, MakeDir, MakeHome,
          ReadPassword, AppendAddress, AppendName, Reply, files
    <3> QED
      BY <3>1, <3>2
  <2>3. Making(s)' => req'[s].user # u
    <3>1. CASE Exists(s)
      <4>1. UNCHANGED req
        BY <3>1 DEF Exists
      <4>2. Taken(req[s].user) => pc'[s] = "reply"
        BY <3>1 DEF Exists, Answer, Goto, TypeOK
      <4> QED
        BY <1>s, <4>1, <4>2 DEF Taken
    <3>2. CASE MakeDir(s) \/ Truncate(s)
      <4>1. Making(s) /\ UNCHANGED req
        BY <3>2 DEF MakeDir, Truncate
      <4> QED
        BY <1>s, <4>1
    <3>3. CASE ~Exists(s) /\ ~MakeDir(s) /\ ~Truncate(s)
      BY <1>1, <3>3, Moves DEF Serve
    <3> QED
      BY <3>1, <3>2, <3>3
  <2>4. \A r \in Session : Making(r)' => req'[r].user # u
    BY <1>1, <1>s, <2>3, OthersKeep
  <2> QED
    BY <2>1, <2>2, <2>4 DEF Settled
<1>2. CASE Crash \/ UNCHANGED vars
  BY <1>2, <1>s DEF Crash, vars, files, Settled
<1> QED
  BY <1>1, <1>2 DEF Next

(* Once an account is made and no sign-up is still at work on it, no sign-up  *)
(* touches its password again.                                                *)
THEOREM PasswordFinalHolds == Spec => PasswordFinal
<1>1. TypeOK /\ [Next]_vars =>
        [\A u \in User : Settled(u) => Settled(u)' /\ pwd'[u] = pwd[u]]_vars
  BY SettledStep
<1> QED
  BY <1>1, TypeCorrect, PTL DEF Spec, PasswordFinal
-----------------------------------------------------------------------------
(* What the updates of ip_usr cost.  The log is taken apart by three things   *)
(* only: two sessions that are in handle_update_user at once, an update of    *)
(* which only the first line is written, and a user with the name of an       *)
(* address.  Without them it is paired for ever.                              *)

Updating(s) == pc[s] \in {"address", "name"}

(* One session at a time is in handle_update_user. *)
SerialUpdates == \A s, r \in Session : Updating(s) /\ Updating(r) => s = r

(* Whoever has appended the address appends the name: neither a crash nor a   *)
(* failing write comes between.                                               *)
WholeUpdates ==
  \A s \in Session : pc[s] = "name" /\ pc'[s] # "name" => log' = Append(log, user[s])

(* Nobody who signs up or in has the name of an address. *)
NoAddressNames == \A s \in Session : Updating(s) => req[s].user \notin IP

Conditions == SerialUpdates /\ NoAddressNames

(* The log ends with an address just while someone is about to append a name. *)
HalfUpdated == \E s \in Session : pc[s] = "name"
SerialLog   == Paired(log) /\ (Odd(Len(log)) <=> HalfUpdated)

LEMMA AppendPaired ==
  ASSUME NEW S, NEW l \in Seq(S), NEW x \in S, Paired(l), x \in IP <=> Odd(Len(l) + 1)
  PROVE  Paired(Append(l, x)) /\ Len(Append(l, x)) = Len(l) + 1
<1>1. /\ Len(l) \in Nat /\ Len(Append(l, x)) = Len(l) + 1 /\ Append(l, x)[Len(l) + 1] = x
      /\ \A i \in 1..Len(l) : Append(l, x)[i] = l[i]
  BY AppendProperties
<1>2. \A i \in 1..Len(l) + 1 : i \in 1..Len(l) \/ i = Len(l) + 1
  BY <1>1
<1>3. \A i \in 1..Len(l) : l[i] \in IP <=> Odd(i)
  BY DEF Paired
<1>4. \A i \in 1..Len(l) + 1 : Append(l, x)[i] \in IP <=> Odd(i)
  BY <1>1, <1>2, <1>3
<1> QED
  BY <1>1, <1>4 DEF Paired

LEMMA SerialAddress ==
  ASSUME TypeOK, SerialLog, Conditions, NEW s \in Session, AppendAddress(s)
  PROVE  SerialLog'
<1>t. log \in Seq(IP \cup User) /\ Len(log) \in Nat /\ Peer[s] \in IP /\ pc \in [Session -> Steps]
  BY PeerAssumption DEF TypeOK
<1>1. pc[s] = "address"
  BY DEF AppendAddress
<1>2. \A r \in Session : pc[r] # "name"
  BY <1>1 DEF Conditions, SerialUpdates, Updating
<1>3. ~Odd(Len(log)) /\ Paired(log)
  BY <1>2 DEF SerialLog, HalfUpdated
<1>4. CASE log' = Append(log, Peer[s]) /\ Goto(s, "name")
  <2>1. Odd(Len(log) + 1)
    BY <1>t, <1>3, OddNext
  <2>2. Paired(log)' /\ Len(log') = Len(log) + 1
    BY <1>t, <1>3, <1>4, <2>1, AppendPaired
  <2>3. pc'[s] = "name"
    BY <1>t, <1>4 DEF Goto
  <2> QED
    BY <2>1, <2>2, <2>3 DEF SerialLog, HalfUpdated
<1>5. CASE Answer(s, "succeeded") /\ UNCHANGED log
  <2>1. \A r \in Session : pc'[r] # "name"
    BY <1>t, <1>2, <1>5 DEF Answer, Goto
  <2> QED
    BY <1>3, <1>5, <2>1 DEF SerialLog, HalfUpdated, Paired
<1> QED
  BY <1>4, <1>5 DEF AppendAddress

LEMMA SerialName ==
  ASSUME TypeOK, SessionInv, SerialLog, Conditions, NEW s \in Session, AppendName(s),
         log' = Append(log, user[s])
  PROVE  SerialLog'
<1>t. log \in Seq(IP \cup User) /\ Len(log) \in Nat /\ pc \in [Session -> Steps]
  BY DEF TypeOK
<1>1. pc[s] = "name" /\ Goto(s, "reply")
  BY DEF AppendName, Answer
<1>2. user[s] \in User /\ user[s] \notin IP
  BY <1>1, Busy DEF SessionInv, Conditions, NoAddressNames, Updating
<1>3. Odd(Len(log)) /\ Paired(log)
  BY <1>1 DEF SerialLog, HalfUpdated
<1>4. ~Odd(Len(log) + 1)
  BY <1>t, <1>3, OddNext
<1>5. Paired(log)' /\ Len(log') = Len(log) + 1
  BY <1>t, <1>1, <1>2, <1>3, <1>4, AppendPaired
<1>6. \A r \in Session : pc'[r] # "name"
  BY <1>t, <1>1 DEF Goto, Conditions, SerialUpdates, Updating
<1> QED
  BY <1>4, <1>5, <1>6 DEF SerialLog, HalfUpdated

LEMMA SerialLogStep ==
  ASSUME TypeOK, SessionInv, SerialLog, Conditions, [Next]_vars, [WholeUpdates]_vars
  PROVE  SerialLog'
<1>k. ASSUME UNCHANGED log, HalfUpdated' <=> HalfUpdated PROVE SerialLog'
  BY <1>k DEF SerialLog, Paired
<1>1. ASSUME NEW s \in Session, Receive(s) \/ Serve(s) \/ Reconnect(s),
             ~AppendAddress(s), ~AppendName(s)
      PROVE  SerialLog'
  <2>1. UNCHANGED log
    BY <1>1
    DEF Receive, Reconnect, Serve, Lookup, Check, Exists, MakeDir, Truncate, Write, MakeHome,
        ReadPassword, Reply, files
  <2>2. pc'[s] # "name" /\ pc[s] # "name"
    BY <1>1, Moves DEF Serve
  <2>3. \A r \in Session : pc'[r] = "name" <=> pc[r] = "name"
    BY <1>1, <2>2, OthersKeep
  <2> QED
    BY <1>k, <2>1, <2>3 DEF HalfUpdated
<1>2. ASSUME NEW s \in Session, AppendName(s) PROVE SerialLog'
  <2>1. /\ pc[s] = "name" /\ pc'[s] = "reply"
    BY <1>2 DEF AppendName, Answer, Goto, TypeOK
  <2>2. log' = Append(log, user[s])
    BY <2>1 DEF WholeUpdates, vars
  <2> QED
    BY <1>2, <2>2, SerialName
<1>3. CASE Crash
  <2>1. UNCHANGED log /\ \A s \in Session : pc'[s] = "idle"
    BY <1>3 DEF Crash, files
  <2>2. ~HalfUpdated
    <3> SUFFICES ASSUME NEW s \in Session, pc[s] = "name" PROVE FALSE
      BY DEF HalfUpdated
    <3>1. log' = Append(log, user[s])
      BY <2>1 DEF WholeUpdates, vars
    <3>2. log \in Seq(IP \cup User) /\ Len(log) \in Nat
      BY DEF TypeOK
    <3>3. Len(log') = Len(log) + 1
      BY <3>1, <3>2, AppendProperties, Busy DEF SessionInv
    <3> QED
      BY <2>1, <3>2, <3>3
  <2> QED
    BY <1>k, <2>1, <2>2 DEF HalfUpdated
<1>4. CASE UNCHANGED vars
  BY <1>4, <1>k DEF vars, HalfUpdated
<1> QED
  BY <1>1, <1>2, <1>3, <1>4, SerialAddress DEF Next

LEMMA SerialLogInvariant ==
  Spec /\ []Conditions /\ [][WholeUpdates]_vars => [](IInv /\ SerialLog)
<1>1. Init => SerialLog
  <2>1. ASSUME Init PROVE Len(log) = 0 /\ \A s \in Session : pc[s] = "idle"
    BY <2>1 DEF Init
  <2>2. ~Odd(0)
    BY DEF Odd
  <2> QED
    BY <2>1, <2>2 DEF SerialLog, HalfUpdated, Paired
<1>2. IInv /\ SerialLog /\ Conditions /\ [Next]_vars /\ [WholeUpdates]_vars => SerialLog'
  BY SerialLogStep DEF IInv
<1> QED
  BY <1>1, <1>2, AuthInvariant, PTL DEF Spec

(* If no two sessions are in handle_update_user at once, if whoever appends    *)
(* an address also appends the name, and if nobody signs up or in under the   *)
(* name of an address, then addresses and names alternate in ip_usr for ever, *)
(* however sign-ups, sign-ins, requests, failures of opens and writes, and    *)
(* crashes elsewhere interleave.                                              *)
THEOREM SerialLogPaired ==
  Spec /\ []SerialUpdates /\ []NoAddressNames /\ [][WholeUpdates]_vars => []Paired(log)
<1>1. SerialLog => Paired(log)
  BY DEF SerialLog
<1>2. SerialUpdates /\ NoAddressNames => Conditions
  BY DEF Conditions
<1> QED
  BY <1>1, <1>2, SerialLogInvariant, PTL

(* And then a request's client is taken for the user last signed in at its    *)
(* address, as soon as nobody is between the two appends: overlapping and     *)
(* half-written updates and names that are addresses are all that             *)
(* handle_get_user's promise fails by.                                        *)
THEOREM SerialMatchesUser ==
  Spec /\ []SerialUpdates /\ []NoAddressNames /\ [][WholeUpdates]_vars => MatchesUser
<1> DEFINE Right == \A s \in Session :
             /\ LookupEnds(s) /\ last[Peer[s]] # NoOne
             /\ \A r \in Session : pc[r] # "name"
             => user'[s] = last[Peer[s]]
<1>1. IInv /\ SerialLog /\ [Next]_vars => [Right]_vars
  <2> SUFFICES ASSUME IInv, SerialLog, [Next]_vars, NEW s \in Session,
                      LookupEnds(s), last[Peer[s]] # NoOne, \A r \in Session : pc[r] # "name"
               PROVE  user'[s] = last[Peer[s]]
    OBVIOUS
  <2>1. Paired(log) /\ ~Odd(Len(log))
    BY DEF SerialLog, HalfUpdated
  <2>2. Peer[s] \in IP
    BY PeerAssumption
  <2>3. PICK i \in 1..Len(log) : TRUE
    BY <2>1, <2>2 DEF IInv, LastInv
  <2>4. Len(log) \in Nat
    BY DEF IInv, TypeOK
  <2>5. Len(log) \in 1..Len(log)
    BY <2>3, <2>4
  <2>6. log[Len(log)] \notin IP
    BY <2>1, <2>5 DEF Paired
  <2> QED
    BY <2>1, <2>2, <2>6, LookupRight
<1> HIDE DEF Right
<1>2. Spec /\ []Conditions /\ [][WholeUpdates]_vars => [][Right]_vars
  BY <1>1, SerialLogInvariant, PTL DEF Spec
<1>3. Spec /\ []Conditions /\ [][WholeUpdates]_vars => MatchesUser
  BY <1>2 DEF MatchesUser, Right
<1>4. SerialUpdates /\ NoAddressNames => Conditions
  BY DEF Conditions
<1> QED
  BY <1>3, <1>4, PTL
-----------------------------------------------------------------------------
(* What the test and the mkdir of handle_signup cost, since they are two      *)
(* steps: a name is signed up twice only by two sign-ups of it of which one   *)
(* comes to its test between the other's test and mkdir.                      *)

SerialSignUps ==
  \A s, r \in Session :
    pc[s] = "mkdir" /\ pc[r] \in {"exists", "mkdir"} /\ req[s].user = req[r].user => s = r

(* A sign-up that has made its directory, and one that is bound to. *)
Made(s) ==
  /\ req[s].kind = "sign-up"
  /\ pc[s] \in {"truncate", "write", "home", "address", "name"} \/ out[s] = "succeeded"
Signing(s) == pc[s] = "mkdir" \/ Made(s)

SignUpInv ==
  /\ \A s \in Session : Made(s) => req[s].user \in folder
  /\ \A s \in Session : pc[s] = "password" => req[s].kind = "sign-in"
  /\ \A s, r \in Session : Signing(s) /\ Signing(r) /\ req[s].user = req[r].user => s = r

(* A session that starts nothing new, or makes its directory, keeps it. *)
LEMMA SignUpFrame ==
  ASSUME TypeOK, SignUpInv, NEW s \in Session, Receive(s) \/ Serve(s) \/ Reconnect(s),
         folder \subseteq folder',
         pc'[s] = "password" => req'[s].kind = "sign-in",
         Signing(s)' => Signing(s) /\ req'[s] = req[s],
         Made(s)' => Made(s) \/ req[s].user \in folder'
  PROVE  SignUpInv'
<1>1. \A r \in Session \ {s} : pc'[r] = pc[r] /\ req'[r] = req[r] /\ out'[r] = out[r]
  BY OthersKeep
<1>2. \A r \in Session : Signing(r)' => Signing(r) /\ req'[r] = req[r]
  BY <1>1 DEF Signing, Made
<1>3. Made(s)' => Signing(s)'
  BY DEF Signing
<1>4. \A r \in Session : Made(r)' => req'[r].user \in folder'
  <2>1. ASSUME NEW r \in Session, r # s, Made(r)' PROVE req'[r].user \in folder'
    <3>1. Made(r) /\ req'[r] = req[r]
      BY <1>1, <2>1 DEF Made
    <3> QED
      BY <3>1 DEF SignUpInv
  <2>2. Made(s)' => req'[s].user \in folder'
    BY <1>3 DEF SignUpInv
  <2> QED
    BY <2>1, <2>2
<1>5. \A r \in Session : pc'[r] = "password" => req'[r].kind = "sign-in"
  BY <1>1 DEF SignUpInv
<1>6. ASSUME NEW q \in Session, NEW r \in Session, Signing(q)', Signing(r)', req'[q].user = req'[r].user
      PROVE  q = r
  <2>1. Signing(q) /\ Signing(r) /\ req[q].user = req[r].user
    BY <1>2, <1>6
  <2> QED
    BY <2>1 DEF SignUpInv
<1> QED
  BY <1>4, <1>5, <1>6 DEF SignUpInv

(* A step after which the session is not signing up. *)
LEMMA SignUpOver ==
  ASSUME TypeOK, SignUpInv, NEW s \in Session, Receive(s) \/ Serve(s) \/ Reconnect(s),
         UNCHANGED folder,
         pc'[s] = "password" => req'[s].kind = "sign-in",
         pc'[s] \in {"idle", "lookup", "check", "exists", "password", "reply"},
         out'[s] # "succeeded"
  PROVE  SignUpInv'
<1>1. ~Signing(s)'
  BY DEF Signing, Made
<1> QED
  BY <1>1, SignUpFrame DEF Signing

(* The test passes. *)
LEMMA SignUpTest ==
  ASSUME TypeOK, AnswerInv, SignUpInv, SerialSignUps, NEW s \in Session, Exists(s),
         ~Taken(req[s].user)
  PROVE  SignUpInv'
<1>0. pc \in [Session -> Steps]
  BY DEF TypeOK
<1>1. pc[s] = "exists" /\ UNCHANGED <<req, folder>> /\ pc'[s] = "mkdir" /\ UNCHANGED out
  BY <1>0 DEF Exists, Goto, files
<1>2. out[s] = "none" /\ req[s].user \notin folder
  BY <1>1 DEF AnswerInv, Taken
<1>3. \A r \in Session \ {s} : pc'[r] = pc[r] /\ req'[r] = req[r] /\ out'[r] = out[r]
  BY OthersKeep DEF Serve
<1>4. ~Made(s)'
  BY <1>1, <1>2 DEF Made
<1>5. \A r \in Session \ {s} : (Signing(r)' <=> Signing(r)) /\ (Made(r)' <=> Made(r))
  BY <1>3 DEF Signing, Made
(* Whoever else is signing the name up would have made its directory.         *)
<1>6. \A r \in Session \ {s} : Signing(r) => req[r].user # req[s].user
  <2> SUFFICES ASSUME NEW r \in Session \ {s}, Signing(r), req[r].user = req[s].user PROVE FALSE
    OBVIOUS
  <2>1. CASE pc[r] = "mkdir"
    BY <1>1, <2>1 DEF SerialSignUps
  <2>2. CASE Made(r)
    BY <1>2, <2>2 DEF SignUpInv
  <2> QED
    BY <2>1, <2>2 DEF Signing
<1>7. \A r \in Session : Made(r)' => req'[r].user \in folder'
  BY <1>1, <1>4, <1>5 DEF SignUpInv
<1>8. \A r \in Session : pc'[r] = "password" => req'[r].kind = "sign-in"
  BY <1>1, <1>3 DEF SignUpInv
<1>9. ASSUME NEW q \in Session, NEW r \in Session, Signing(q)', Signing(r)', req'[q].user = req'[r].user
      PROVE  q = r
  <2>1. req[q].user = req[r].user
    BY <1>1, <1>9
  <2>2. CASE q # s /\ r # s
    BY <1>5, <1>9, <2>1, <2>2 DEF SignUpInv
  <2>3. CASE q = s \/ r = s
    BY <1>5, <1>6, <1>9, <2>1, <2>3
  <2> QED
    BY <2>2, <2>3
<1> QED
  BY <1>7, <1>8, <1>9 DEF SignUpInv

LEMMA SignUpStep ==
  ASSUME TypeOK, AnswerInv, SignUpInv, SerialSignUps,
         NEW s \in Session, Receive(s) \/ Serve(s) \/ Reconnect(s)
  PROVE  SignUpInv'
<1>t. pc \in [Session -> Steps]
  BY DEF TypeOK
<1>o. out \in [Session -> {"none", "served", "refused", "failed", "succeeded"}]
  BY DEF TypeOK
<1>a. pc'[s] # "reply" => out'[s] = "none"
  BY AnswerStep DEF AnswerInv
<1>1. CASE Receive(s) \/ Reconnect(s) \/ Lookup(s) \/ Reply(s)
  <2>1. UNCHANGED folder
    BY <1>1 DEF Receive, Reconnect, Lookup, Reply, files
  <2>2. pc'[s] \in {"idle", "lookup", "check"}
    BY <1>1, Moves
  <2> QED
    BY <1>a, <2>1, <2>2, SignUpOver
<1>2. CASE Check(s)
  <2>1. UNCHANGED <<folder, req>> /\ pc'[s] \in {"reply", "exists", "password"}
    BY <1>2, Moves DEF Check, files
  <2>2. pc'[s] = "password" => req'[s].kind = "sign-in"
    BY <1>2, <1>t, <2>1 DEF Check, Answer, Goto
  <2>3. out'[s] # "succeeded"
    BY <1>2, <1>t, <1>o, <1>a DEF Check, Answer, Goto
  <2> QED
    BY <2>1, <2>2, <2>3, SignUpOver
<1>3. CASE Exists(s)
  <2>1. CASE Taken(req[s].user)
    <3>1. UNCHANGED folder
      BY <1>3 DEF Exists, files
    <3>2. pc'[s] = "reply" /\ out'[s] = "failed"
      BY <1>3, <1>t, <1>o, <2>1 DEF Exists, Answer, Goto
    <3> QED
      BY <3>1, <3>2, SignUpOver
  <2>2. CASE ~Taken(req[s].user)
    BY <1>3, <2>2, SignUpTest
  <2> QED
    BY <2>1, <2>2
<1>4. CASE MakeDir(s)
  <2>1. pc[s] = "mkdir" /\ pc'[s] = "truncate" /\ UNCHANGED req
    BY <1>4, Moves DEF MakeDir
  <2>2. folder' = folder \cup {req[s].user}
    BY <1>4 DEF MakeDir
  <2> QED
    BY <2>1, <2>2, SignUpFrame DEF Signing
<1>5. CASE Truncate(s) \/ Write(s) \/ MakeHome(s) \/ AppendAddress(s) \/ AppendName(s)
  <2>1. /\ pc[s] \in {"truncate", "write", "home", "address", "name"}
        /\ pc'[s] \in {"write", "home", "address", "name", "reply"}
    BY <1>5, Moves
  <2>2. UNCHANGED <<folder, req>>
    BY <1>5 DEF Truncate, Write, MakeHome, AppendAddress, AppendName
  <2>3. Made(s)' => Made(s)
    BY <2>1, <2>2 DEF Made
  <2>4. Signing(s)' => Signing(s)
    BY <2>1, <2>3 DEF Signing
  <2> QED
    BY <2>1, <2>2, <2>3, <2>4, SignUpFrame
<1>6. CASE ReadPassword(s)
  <2>1. UNCHANGED <<folder, req>> /\ pc[s] = "password" /\ pc'[s] \in {"reply", "address"}
    BY <1>6, Moves DEF ReadPassword, files
  <2>2. req[s].kind = "sign-in"
    BY <2>1 DEF SignUpInv
  <2>3. ~Signing(s)'
    BY <2>1, <2>2 DEF Signing, Made
  <2> QED
    BY <2>1, <2>3, SignUpFrame DEF Signing
<1> QED
  BY <1>1, <1>2, <1>3, <1>4, <1>5, <1>6 DEF Serve

(* If no sign-up of a name comes to its test while another is between its     *)
(* test and its mkdir, a name is signed up once, whatever crashes, failures   *)
(* of opens and other requests there are.                                     *)
THEOREM SerialSignedUpOnce == Spec /\ []SerialSignUps => []SignedUpOnce
<1>1. Init => SignUpInv
  <2>1. ASSUME Init PROVE \A s \in Session : pc[s] = "idle" /\ out[s] = "none"
    BY <2>1 DEF Init
  <2> QED
    BY <2>1 DEF SignUpInv, Signing, Made
<1>2. IInv /\ SignUpInv /\ SerialSignUps /\ [Next]_vars => SignUpInv'
  <2> SUFFICES ASSUME IInv, SignUpInv, SerialSignUps, [Next]_vars PROVE SignUpInv'
    OBVIOUS
  <2>1. CASE Crash
    <3>1. \A s \in Session : pc'[s] = "idle" /\ out'[s] = "none"
      BY <2>1 DEF Crash
    <3> QED
      BY <3>1 DEF SignUpInv, Signing, Made
  <2>2. CASE UNCHANGED vars
    BY <2>2 DEF vars, SignUpInv, Signing, Made
  <2> QED
    BY <2>1, <2>2, SignUpStep DEF Next, IInv
<1>3. SignUpInv => SignedUpOnce
  BY DEF SignUpInv, SignedUpOnce, Signing, Made
<1> QED
  BY <1>1, <1>2, <1>3, AuthInvariant, PTL DEF Spec
=============================================================================
