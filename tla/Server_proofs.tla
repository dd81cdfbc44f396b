----------------------------- MODULE Server_proofs -----------------------------
(* Proofs about Server for every set of threads and sessions and any number   *)
(* of requests.                                                               *)
EXTENDS Server, SequenceTheorems, TLAPS

(* What a thread that is in a handler handles. *)
LEMMA Handled ==
  ASSUME TypeOK, NEW t \in Thread, pc[t] # "idle"
  PROVE  /\ cur[t] \in Completions /\ cur[t].s \in Session
         /\ cur[t].arg \in {"ok", "error", "good", "bad"}
<1>1. cur[t] \in Completions
  BY DEF TypeOK, ThreadsOK
<1> QED
  BY <1>1 DEF Completions

LEMMA CompletionType ==
  ASSUME NEW s \in Session, NEW o, NEW a
  PROVE  /\ o \in {"accept", "write"} /\ a \in {"ok", "error"} => Completion(o, s, a) \in Completions
         /\ o = "read" /\ a \in {"good", "bad", "error"} => Completion(o, s, a) \in Completions
         /\ Completion(o, s, a).s = s
  BY DEF Completion, Completions

LEMMA Updated ==
  ASSUME NEW S, NEW T, NEW f \in [S -> T], NEW x, NEW v \in T
  PROVE  [f EXCEPT ![x] = v] \in [S -> T]
  OBVIOUS

(* No completion is the empty one. *)
LEMMA NotNothing ==
  ASSUME NEW c \in Completions
  PROVE  c # Nothing /\ c.s \in Session /\ c.op \in {"accept", "read", "write"}
  BY NoSessionAssumption DEF Nothing, Completion, Completions
-----------------------------------------------------------------------------
(* Type correctness. *)

LEMMA InitType == Init => TypeOK
  BY DEF Init, TypeOK, ThreadsOK, Working

(* The two ways in which a handler step moves its thread. *)
LEMMA Moved ==
  ASSUME ThreadsOK, NEW t \in Thread, pc[t] # "idle",
         NEW l \in {"accept", "rearm", "clear"} \cup Working, Goto(t, l) \/ Return(t)
  PROVE  ThreadsOK'
<1> USE DEF ThreadsOK
<1>1. CASE Goto(t, l)
  <2>1. l # "idle"
    BY DEF Working
  <2> QED
    BY <1>1, <2>1 DEF Goto
<1>2. CASE Return(t)
  BY <1>2 DEF Return
<1> QED
  BY <1>1, <1>2

(* A call starts or ends; an object is deleted. *)
LEMMA CallType ==
  ASSUME TypeOK, NEW s \in Session, NEW o \in {"read", "write"}, Start(o, s) \/ Finish(o, s)
  PROVE  op' \in [Session -> SUBSET {"read", "write"}]
<1>1. op \in [Session -> SUBSET {"read", "write"}]
  BY DEF TypeOK
<1>2. op[s] \cup {o} \in SUBSET {"read", "write"} /\ op[s] \ {o} \in SUBSET {"read", "write"}
  BY <1>1
<1>3. \/ op' = [op EXCEPT ![s] = op[s] \cup {o}]
      \/ op' = [op EXCEPT ![s] = op[s] \ {o}]
  BY DEF Start, Finish
<1> QED
  BY <1>1, <1>2, <1>3, Updated

LEMMA ObjectType ==
  ASSUME TypeOK, NEW s, NEW v \in {"allocated", "deleted"},
         object' = [object EXCEPT ![s] = v]
  PROVE  object' \in [Session -> {"none", "allocated", "deleted"}]
<1>1. object \in [Session -> {"none", "allocated", "deleted"}]
  BY DEF TypeOK
<1> QED
  BY <1>1, Updated

LEMMA ResType ==
  ASSUME TypeOK, NEW s, NEW v \in {0, 200, 400, 404}, res' = [res EXCEPT ![s] = v]
  PROVE  res' \in [Session -> {0, 200, 400, 404}]
<1>1. res \in [Session -> {0, 200, 400, 404}]
  BY DEF TypeOK
<1> QED
  BY <1>1

LEMMA NextType == TypeOK /\ [Next]_vars => TypeOK'
<1> SUFFICES ASSUME TypeOK, [Next]_vars PROVE TypeOK'
  OBVIOUS
<1> USE DEF TypeOK
<1>0. CASE UNCHANGED vars
  BY <1>0 DEF vars, ThreadsOK
<1>1. ASSUME NEW s \in Session, Send(s) PROVE TypeOK'
  <2>1. \E k \in {"good", "bad"} : asked' = [asked EXCEPT ![s] = Append(@, k)]
    BY <1>1 DEF Send
  <2>2. asked' \in [Session -> Seq({"good", "bad"})]
    BY <2>1, AppendProperties
  <2> QED
    BY <1>1, <2>2 DEF Send, sys, ThreadsOK
<1>2. ASSUME NEW s \in Session, Leave(s) PROVE TypeOK'
  <2>1. client' \in [Session -> {"away", "open", "closed", "reset"}]
    <3>1. /\ client \in [Session -> {"away", "open", "closed", "reset"}]
          /\ "closed" \in {"away", "open", "closed", "reset"}
          /\ "reset" \in {"away", "open", "closed", "reset"}
      OBVIOUS
    <3>2. \/ client' = [client EXCEPT ![s] = "closed"]
          \/ client' = [client EXCEPT ![s] = "reset"]
      BY <1>2 DEF Leave
    <3> HIDE DEF TypeOK
    <3> QED
      BY <3>1, <3>2, Updated
  <2> QED
    BY <1>2, <2>1 DEF Leave, sys, ThreadsOK
<1>3. CASE CompleteAccept
  <2>1. queue' \subseteq Completions
    BY <1>3, CompletionType DEF CompleteAccept
  <2> QED
    BY <1>3, <2>1 DEF CompleteAccept, ThreadsOK
<1>4. ASSUME NEW s \in Session, CompleteRead(s) PROVE TypeOK'
  <2>1. queue' \subseteq Completions
    <3>1. CASE /\ read[s] < Len(asked[s])
               /\ queue' = queue \cup {Completion("read", s, asked[s][read[s] + 1])}
      <4>1. asked[s][read[s] + 1] \in {"good", "bad"}
        BY <3>1
      <4> QED
        BY <3>1, <4>1, CompletionType
    <3>2. CASE queue' = queue \cup {Completion("read", s, "error")}
      BY <3>2, CompletionType
    <3> QED
      BY <1>4, <3>1, <3>2 DEF CompleteRead
  <2>2. op' \in [Session -> SUBSET {"read", "write"}] /\ read' \in [Session -> Nat]
    <3>1. op' \in [Session -> SUBSET {"read", "write"}]
      BY <1>4, CallType DEF CompleteRead
    <3>2. read' = read \/ read' = [read EXCEPT ![s] = read[s] + 1]
      BY <1>4 DEF CompleteRead
    <3>3. read \in [Session -> Nat] /\ read[s] + 1 \in Nat
      OBVIOUS
    <3>4. read' \in [Session -> Nat]
      <4> HIDE DEF TypeOK
      <4> QED
        BY <3>2, <3>3, Updated
    <3> QED
      BY <3>1, <3>4
  <2> QED
    BY <1>4, <2>1, <2>2 DEF CompleteRead, ThreadsOK
<1>5. ASSUME NEW s \in Session, CompleteWrite(s) PROVE TypeOK'
  <2>1. queue' \subseteq Completions
    BY <1>5, CompletionType DEF CompleteWrite
  <2>2. got' \in [Session -> Seq({0, 200, 400, 404})]
    <3>1. CASE got' = [got EXCEPT ![s] = Append(@, res[s])]
      BY <3>1, AppendProperties
    <3> QED
      BY <1>5, <3>1 DEF CompleteWrite
  <2>3. op' \in [Session -> SUBSET {"read", "write"}]
    BY <1>5, CallType DEF CompleteWrite
  <2> QED
    BY <1>5, <2>1, <2>2, <2>3 DEF CompleteWrite, ThreadsOK
<1>6. ASSUME NEW t \in Thread, Run(t) PROVE TypeOK'
  <2>h. ThreadsOK /\ (pc[t] # "idle" => cur[t].s \in Session)
    BY Handled
  <2>u. /\ op \in [Session -> SUBSET {"read", "write"}]
        /\ object \in [Session -> {"none", "allocated", "deleted"}]
        /\ res \in [Session -> {0, 200, 400, 404}]
        /\ up \in BOOLEAN /\ listening \in Session \cup {NoSession}
    OBVIOUS
  <2> HIDE DEF TypeOK
  <2>1. CASE Take(t)
    <3> PICK c \in queue : /\ queue' = queue \ {c}
                           /\ cur' = [cur EXCEPT ![t] = c]
                           /\ pc' = [pc EXCEPT ![t] = c.op]
      BY <2>1 DEF Take
    <3>1. c # Nothing /\ c \in Completions /\ c.op \in {"accept", "read", "write"}
      BY NotNothing DEF TypeOK
    <3>2. ThreadsOK'
      BY <2>h, <3>1 DEF ThreadsOK, Working
    <3> QED
      BY <2>1, <3>2 DEF Take, TypeOK
  <2>2. CASE HandleAccept(t)
    <3>1. ThreadsOK'
      BY <2>2, <2>h, Moved DEF HandleAccept, ListenAgain
    <3>2. op' \in [Session -> SUBSET {"read", "write"}]
      BY <2>2, <2>u, <2>h, CallType DEF HandleAccept
    <3>3. object' \in [Session -> {"none", "allocated", "deleted"}]
      BY <2>2, <2>u, ObjectType DEF HandleAccept, Delete
    <3> QED
      BY <2>2, <3>1, <3>2, <3>3 DEF HandleAccept, TypeOK
  <2>3. CASE StartAccept(t)
    <3>1. ThreadsOK'
      BY <2>3, <2>h, Moved DEF StartAccept
    <3>2. object' \in [Session -> {"none", "allocated", "deleted"}]
      BY <2>3, <2>u, ObjectType DEF StartAccept
    <3>3. listening' \in Session \cup {NoSession}
      BY <2>3, <2>u DEF StartAccept
    <3> QED
      BY <2>3, <3>1, <3>2, <3>3 DEF StartAccept, TypeOK
  <2>4. CASE SendRes(t)
    <3>1. ThreadsOK'
      BY <2>4, <2>h, Moved DEF SendRes, Working
    <3>2. object' \in [Session -> {"none", "allocated", "deleted"}]
      BY <2>4, <2>u, ObjectType DEF SendRes, Delete
    <3>3. res' \in [Session -> {0, 200, 400, 404}]
      BY <2>4, <2>u, ResType DEF SendRes, Refuse
    <3> QED
      BY <2>4, <3>1, <3>2, <3>3 DEF SendRes, TypeOK
  <2>5. CASE Serve(t)
    <3>1. ThreadsOK'
      BY <2>5, <2>h, Moved DEF Serve, Working
    <3>2. res' \in [Session -> {0, 200, 400, 404}]
      <4> PICK code \in Answers : res' = [res EXCEPT ![cur[t].s] = code]
        BY <2>5 DEF Serve
      <4>1. code \in {0, 200, 400, 404}
        BY DEF Answers
      <4> QED
        BY <4>1, <2>u, Updated
    <3> QED
      BY <2>5, <3>1, <3>2 DEF Serve, TypeOK
  <2>6. CASE LogMetrics(t)
    <3>1. ThreadsOK'
      <4>1. CASE UNCHANGED <<pc, cur>>
        BY <2>h, <4>1 DEF ThreadsOK
      <4>2. CASE Goto(t, "respond")
        BY <2>6, <4>2, <2>h, Moved DEF LogMetrics, Working
      <4> QED
        BY <2>6, <4>1, <4>2 DEF LogMetrics
    <3>2. up' \in BOOLEAN
      BY <2>6, <2>u DEF LogMetrics
    <3> QED
      BY <2>6, <3>1, <3>2 DEF LogMetrics, TypeOK
  <2>7. CASE HandleWrite(t)
    <3>1. ThreadsOK'
      BY <2>7, <2>h, Moved DEF HandleWrite
    <3>2. op' \in [Session -> SUBSET {"read", "write"}]
      BY <2>7, <2>u, <2>h, CallType DEF HandleWrite, Write
    <3> QED
      BY <2>7, <3>1, <3>2 DEF HandleWrite, TypeOK
  <2>8. CASE ClearBuffer(t)
    <3>1. ThreadsOK'
      BY <2>8, <2>h, Moved DEF ClearBuffer
    <3>2. wiped' \subseteq Session
      <4>1. wiped' = wiped \/ wiped' = wiped \cup {cur[t].s}
        BY <2>8 DEF ClearBuffer
      <4>2. cur[t].s \in Session /\ wiped \subseteq Session
        BY <2>8, <2>h, Handled DEF ClearBuffer, TypeOK
      <4> QED
        BY <4>1, <4>2
    <3> QED
      BY <2>8, <3>1, <3>2 DEF ClearBuffer, TypeOK
  <2>9. CASE WriteCallback(t)
    <3>1. ThreadsOK'
      BY <2>9, <2>h, Moved DEF WriteCallback
    <3>2. op' \in [Session -> SUBSET {"read", "write"}]
      BY <2>9, <2>u, <2>h, CallType DEF WriteCallback, Onward
    <3>3. object' \in [Session -> {"none", "allocated", "deleted"}]
      BY <2>9, <2>u, ObjectType DEF WriteCallback, Delete
    <3> QED
      BY <2>9, <3>1, <3>2, <3>3 DEF WriteCallback, TypeOK
  <2> QED
    BY <1>6, <2>1, <2>2, <2>3, <2>4, <2>5, <2>6, <2>7, <2>8, <2>9 DEF Run
<1> QED
  BY <1>0, <1>1, <1>2, <1>3, <1>4, <1>5, <1>6 DEF Next

(* The state keeps its types; in particular every response a peer receives is *)
(* one that send_res has assigned.                                            *)
THEOREM TypeCorrect == Spec => []TypeOK
<1> QED
  BY InitType, NextType, PTL DEF Spec
-----------------------------------------------------------------------------
(* OneActivity and NoDangling together, session by session: what is going on  *)
(* for s is one thing at most, and while there is something s is allocated.   *)
(* The two need each other: deleting s is harmless because the thread that    *)
(* deletes it is the only activity of s, and the object a new accept takes    *)
(* has no activity because it has never been allocated.                       *)

Awaited(s) == op[s] # {} \/ s = listening \/ \E c \in queue : c.s = s

Alone(s) ==
  /\ \A o, p \in op[s] : o = p
  /\ op[s] # {} => s # listening
  /\ \A c \in queue : c.s = s => op[s] = {} /\ s # listening
  /\ \A c, d \in queue : c.s = s /\ d.s = s => c = d
  /\ \A t \in Thread : Busy(t, s) => ~Awaited(s) /\ object[s] = "allocated"
  /\ \A t, u \in Thread : Busy(t, s) /\ Busy(u, s) => t = u
  /\ Awaited(s) => object[s] = "allocated"

AllAlone == \A s \in Session : Alone(s)

LEMMA AloneSuffices == TypeOK => (AllAlone => OneActivity /\ NoDangling)
<1> SUFFICES ASSUME TypeOK, AllAlone PROVE OneActivity /\ NoDangling
  OBVIOUS
<1>1. \A c \in queue : c.s \in Session
  BY NotNothing DEF TypeOK
<1>2. listening # NoSession => listening \in Session
  BY DEF TypeOK
<1>3. OneActivity
  BY <1>1, <1>2 DEF AllAlone, Alone, Awaited, OneActivity, Uses
<1>4. NoDangling
  BY <1>1, <1>2 DEF AllAlone, Alone, Awaited, NoDangling, Uses
<1> QED
  BY <1>3, <1>4

LEMMA InitAlone == Init => AllAlone
<1> SUFFICES ASSUME Init, NEW s \in Session PROVE Alone(s)
  BY DEF AllAlone
<1>1. \A t \in Thread : ~Busy(t, s)
  BY DEF Init, Busy, Working
<1> QED
  BY <1>1 DEF Init, Alone, Awaited

(* A session to which nothing is added stays alone. *)
LEMMA Elsewhere ==
  ASSUME NEW s \in Session, Alone(s), object'[s] = object[s], op'[s] \subseteq op[s],
         s = listening' => s = listening,
         \A c \in queue' : c.s = s => c \in queue,
         \A t \in Thread : Busy(t, s)' => Busy(t, s)
  PROVE  Alone(s)'
<1>1. Awaited(s)' => Awaited(s)
  BY DEF Awaited
<1> QED
  BY <1>1 DEF Alone

(* The steps of the peers and of the operating system. *)
LEMMA OutsideAlone ==
  ASSUME TypeOK, AllAlone, NEW s \in Session,
         \/ CompleteAccept
         \/ \E x \in Session : Send(x) \/ Leave(x) \/ CompleteRead(x) \/ CompleteWrite(x)
  PROVE  Alone(s)'
<1>a. Alone(s)
  BY DEF AllAlone
<1>1. CASE \E x \in Session : Send(x) \/ Leave(x)
  BY <1>1, <1>a, Elsewhere DEF Send, Leave, sys, Busy
<1>2. CASE CompleteAccept
  <2>1. PICK a \in {"ok", "error"} : queue' = queue \cup {Completion("accept", listening, a)}
    BY <1>2 DEF CompleteAccept
  <2>2. UNCHANGED <<object, op, pc, cur>> /\ listening' = NoSession
    BY <1>2 DEF CompleteAccept
  <2>3. CASE s = listening
    BY <1>a, <2>1, <2>2, <2>3, NoSessionAssumption
    DEF Alone, Awaited, Busy, Completion
  <2>4. CASE s # listening
    <3>1. Completion("accept", listening, a).s = listening
      BY DEF Completion
    <3> QED
      BY <1>a, <2>1, <2>2, <2>4, <3>1, Elsewhere, NoSessionAssumption DEF Busy
  <2> QED
    BY <2>3, <2>4
<1>3. ASSUME NEW x \in Session, CompleteRead(x) \/ CompleteWrite(x) PROVE Alone(s)'
  <2>0. read[x] < Len(asked[x]) => asked[x][read[x] + 1] \in {"good", "bad"}
    BY DEF TypeOK
  <2>1. PICK o \in op[x], a \in {"ok", "good", "bad", "error"} :
               /\ queue' = queue \cup {Completion(o, x, a)}
               /\ op' = [op EXCEPT ![x] = @ \ {o}]
    BY <1>3, <2>0 DEF CompleteRead, CompleteWrite, Finish
  <2>2. UNCHANGED <<listening, object, pc, cur>>
    BY <1>3 DEF CompleteRead, CompleteWrite
  <2>b. op[x] \in SUBSET {"read", "write"} /\ op'[x] = op[x] \ {o}
        /\ \A y \in Session \ {x} : op'[y] = op[y]
    BY <2>1 DEF TypeOK
  <2>c. Completion(o, x, a).s = x
    BY DEF Completion
  <2>d. \A t \in Thread : Busy(t, s)' <=> Busy(t, s)
    BY <2>2 DEF Busy
  <2>3. CASE s = x
    <3>1. op'[s] = {} /\ s # listening /\ object[s] = "allocated"
      BY <1>a, <2>b, <2>3 DEF Alone, Awaited
    <3>2. \A c \in queue' : c.s = s => c = Completion(o, x, a)
      BY <1>a, <2>1, <2>3 DEF Alone
    <3>3. \A t \in Thread : ~Busy(t, s)
      BY <1>a, <2>3 DEF Alone, Awaited
    <3> QED
      BY <2>2, <2>d, <3>1, <3>2, <3>3 DEF Alone, Awaited
  <2>4. CASE s # x
    BY <1>a, <2>1, <2>2, <2>4, <2>b, <2>c, <2>d, Elsewhere
  <2> QED
    BY <2>3, <2>4
<1> QED
  BY <1>1, <1>2, <1>3

(* A step of one thread leaves the others where they are. *)
LEMMA OthersStay ==
  ASSUME TypeOK, NEW t \in Thread, Run(t), NEW u \in Thread \ {t}
  PROVE  pc'[u] = pc[u] /\ cur'[u] = cur[u]
<1>t. /\ pc = [v \in Thread |-> pc[v]]
      /\ cur = [v \in Thread |-> cur[v]]
  BY DEF TypeOK, ThreadsOK
<1>1. CASE Take(t)
  BY <1>1, <1>t DEF Take
<1>2. ASSUME NEW l, Goto(t, l) \/ Return(t) \/ UNCHANGED <<pc, cur>>
      PROVE  pc'[u] = pc[u] /\ cur'[u] = cur[u]
  BY <1>2, <1>t DEF Goto, Return
<1> QED
  BY <1>1, <1>2
  DEF Run, HandleAccept, ListenAgain, StartAccept, SendRes, Serve, LogMetrics,
      HandleWrite, ClearBuffer, WriteCallback

LEMMA ThreadAlone ==
  ASSUME TypeOK, AllAlone, NEW t \in Thread, Run(t), NEW s \in Session
  PROVE  Alone(s)'
<1>a. Alone(s)
  BY DEF AllAlone
<1>o. \A u \in Thread \ {t} : Busy(u, s)' <=> Busy(u, s)
  BY OthersStay DEF Busy
<1>t. /\ pc \in [Thread -> {"idle", "accept", "rearm", "clear"} \cup Working]
      /\ cur \in [Thread -> Completions \cup {Nothing}]
      /\ op \in [Session -> SUBSET {"read", "write"}]
      /\ object \in [Session -> {"none", "allocated", "deleted"}]
      /\ pc[t] # "idle" => cur[t].s \in Session
  BY Handled DEF TypeOK, ThreadsOK
(* The thread takes up the one completion of its session, which is Awaited.   *)
<1>1. CASE Take(t)
  <2> PICK c \in queue : /\ queue' = queue \ {c}
                         /\ cur' = [cur EXCEPT ![t] = c]
                         /\ pc' = [pc EXCEPT ![t] = c.op]
    BY <1>1 DEF Take
  <2>1. UNCHANGED <<listening, object, op>> /\ pc[t] = "idle"
    BY <1>1 DEF Take
  <2>2. cur'[t] = c /\ ~Busy(t, s)
    BY <1>t, <2>1 DEF Busy, Working
  <2>3. CASE c.s = s
    <3>1. /\ object[s] = "allocated" /\ op[s] = {} /\ s # listening
          /\ \A u \in Thread : ~Busy(u, s)
          /\ \A d \in queue : d.s = s => d = c
      BY <1>a, <2>3 DEF Alone, Awaited
    <3>2. ~Awaited(s)'
      BY <2>1, <3>1 DEF Awaited
    <3>3. \A u \in Thread : Busy(u, s)' => u = t
      BY <1>o, <3>1
    <3> QED
      BY <2>1, <3>1, <3>2, <3>3 DEF Alone, Awaited
  <2>4. CASE c.s # s
    <3>1. ~Busy(t, s)'
      BY <2>2, <2>4 DEF Busy
    <3> QED
      BY <1>a, <1>o, <2>1, <2>4, <3>1, Elsewhere
  <2> QED
    BY <2>3, <2>4
(* It allocates an object that nothing refers to.                             *)
<1>2. CASE StartAccept(t)
  <2>1. UNCHANGED <<op, queue>> /\ ~Busy(t, s)'
    BY <1>2, <1>t DEF StartAccept, Return, Busy, Working
  <2>2. CASE object[s] = "none" /\ object' = [object EXCEPT ![s] = "allocated"] /\ listening' = s
    <3>1. ~Awaited(s) /\ \A u \in Thread : ~Busy(u, s)
      BY <1>a, <2>2 DEF Alone
    <3>2. op[s] = {} /\ \A c \in queue : c.s # s
      BY <3>1 DEF Awaited
    <3>3. \A u \in Thread : ~Busy(u, s)'
      BY <1>o, <2>1, <3>1
    <3> QED
      BY <1>t, <2>1, <2>2, <3>2, <3>3 DEF Alone, Awaited
  <2>3. CASE object'[s] = object[s] /\ (s = listening' => s = listening)
    BY <1>a, <1>o, <2>1, <2>3, Elsewhere
  <2> QED
    BY <1>2, <1>t, <2>2, <2>3 DEF StartAccept
(* It goes on in its handler: no call is started, and nothing is deleted.     *)
<1>3. CASE UNCHANGED <<listening, object, op, queue>> /\ (Busy(t, s)' => Busy(t, s))
  BY <1>a, <1>o, <1>3, Elsewhere
(* It leaves its handler, having started a call or deleted the session.       *)
<1>4. CASE /\ UNCHANGED <<listening, queue>> /\ ~Busy(t, s)' /\ pc[t] \in {"accept"} \cup Working
           /\ \/ UNCHANGED object /\ \E o \in {"read", "write"} : Start(o, cur[t].s)
              \/ UNCHANGED op /\ Delete(cur[t].s)
  <2>1. CASE cur[t].s = s
    <3>1. Busy(t, s)
      BY <1>4, <2>1 DEF Busy
    <3>2. ~Awaited(s) /\ object[s] = "allocated" /\ \A u \in Thread \ {t} : ~Busy(u, s)
      BY <1>a, <3>1 DEF Alone
    <3>3. op[s] = {} /\ s # listening /\ \A c \in queue : c.s # s
      BY <3>2 DEF Awaited
    <3>4. \A u \in Thread : ~Busy(u, s)'
      BY <1>4, <1>o, <3>2
    <3>5. \A o, p \in op'[s] : o = p
      BY <1>4, <1>t, <2>1, <3>3 DEF Start
    <3>6. op'[s] # {} => object'[s] = "allocated"
      BY <1>4, <3>2, <3>3
    <3> QED
      BY <1>4, <3>3, <3>4, <3>5, <3>6 DEF Alone, Awaited
  <2>2. CASE cur[t].s # s
    <3>1. object'[s] = object[s] /\ op'[s] = op[s]
      BY <1>4, <1>t, <2>2 DEF Start, Delete
    <3> QED
      BY <1>4, <1>a, <1>o, <3>1, Elsewhere
  <2> QED
    BY <2>1, <2>2
<1>5. CASE HandleAccept(t)
  <2>1. ~Busy(t, s)'
    BY <1>5, <1>t DEF HandleAccept, ListenAgain, Goto, Return, Busy, Working
  <2> QED
    BY <1>4, <1>5, <2>1 DEF HandleAccept
<1>6. CASE SendRes(t)
  <2>1. CASE Delete(cur[t].s) /\ Return(t)
    BY <1>4, <1>6, <1>t, <2>1 DEF SendRes, Return, Busy, Working
  <2>2. CASE UNCHANGED object /\ (Goto(t, "log") \/ Goto(t, "serve"))
    BY <1>3, <1>6, <1>t, <2>2 DEF SendRes, Goto, Busy, Working
  <2> QED
    BY <1>6, <2>1, <2>2 DEF SendRes
<1>7. CASE Serve(t)
  BY <1>3, <1>7, <1>t DEF Serve, Goto, Busy, Working
<1>8. CASE LogMetrics(t)
  BY <1>3, <1>8, <1>t DEF LogMetrics, Goto, Busy, Working
<1>9. CASE HandleWrite(t)
  <2>1. ~Busy(t, s)'
    BY <1>9, <1>t DEF HandleWrite, Goto, Return, Busy, Working
  <2> QED
    BY <1>4, <1>9, <2>1 DEF HandleWrite, Write, Working
<1>10. CASE ClearBuffer(t)
  BY <1>3, <1>10, <1>t DEF ClearBuffer, Return, Busy, Working
<1>11. CASE WriteCallback(t)
  <2>1. ~Busy(t, s)'
    BY <1>11, <1>t DEF WriteCallback, Return, Busy, Working
  <2>2. cur[t].arg \in {"ok", "error"}
    BY <1>11 DEF WriteCallback
  <2> QED
    BY <1>4, <1>11, <2>1, <2>2 DEF WriteCallback, Onward, Working
<1> QED
  BY <1>1, <1>2, <1>5, <1>6, <1>7, <1>8, <1>9, <1>10, <1>11 DEF Run

(* The inductive invariant. *)
THEOREM SessionInvariant == Spec => [](TypeOK /\ AllAlone)
<1>1. Init => TypeOK /\ AllAlone
  BY InitType, InitAlone
<1>2. TypeOK /\ AllAlone /\ [Next]_vars => TypeOK' /\ AllAlone'
  <2> SUFFICES ASSUME TypeOK, AllAlone, [Next]_vars PROVE AllAlone'
    BY NextType
  <2> SUFFICES ASSUME NEW s \in Session PROVE Alone(s)'
    BY DEF AllAlone
  <2>1. CASE UNCHANGED vars
    BY <2>1, Elsewhere DEF vars, AllAlone, Busy
  <2>2. CASE Next
    BY <2>2, OutsideAlone, ThreadAlone DEF Next
  <2> QED
    BY <2>1, <2>2
<1> QED
  BY <1>1, <1>2, PTL DEF Spec

(* Of two threads that use one session, one is only at the memset, although   *)
(* the pool runs without locks: the chaining is enough for that.              *)
THEOREM OneActivityHolds == Spec => []OneActivity
<1>1. TypeOK /\ AllAlone => OneActivity
  BY AloneSuffices
<1> QED
  BY <1>1, SessionInvariant, PTL

(* No completion, call or accept ever refers to a deleted session, and no     *)
(* thread uses one but for the memset after its next call is started.         *)
THEOREM NoDanglingHolds == Spec => []NoDangling
<1>1. TypeOK /\ AllAlone => NoDangling
  BY AloneSuffices
<1> QED
  BY <1>1, SessionInvariant, PTL

(* The response a write sends from is neither replaced nor freed under it.    *)
THEOREM ResponseStableHolds == Spec => ResponseStable
<1> DEFINE Stable == \A s \in Session :
             "write" \in op[s] => res'[s] = res[s] /\ object'[s] = object[s]
<1>1. TypeOK /\ AllAlone /\ [Next]_vars => [Stable]_vars
  <2> SUFFICES ASSUME TypeOK, AllAlone, Next, NEW s \in Session, "write" \in op[s]
               PROVE  res'[s] = res[s] /\ object'[s] = object[s]
    OBVIOUS
  <2>a. object[s] = "allocated" /\ \A t \in Thread : ~Busy(t, s)
    BY DEF AllAlone, Alone, Awaited
  <2>1. ASSUME NEW t \in Thread, Run(t) PROVE res'[s] = res[s] /\ object'[s] = object[s]
    <3>1. CASE UNCHANGED <<res, object>>
      BY <3>1
    <3>2. CASE StartAccept(t)
      BY <2>a, <3>2 DEF StartAccept, TypeOK
    <3>3. CASE HandleAccept(t) \/ SendRes(t) \/ Serve(t) \/ WriteCallback(t)
      <4>1. pc[t] \in {"accept"} \cup Working
        BY <3>3 DEF HandleAccept, SendRes, Serve, WriteCallback, Working
      <4>2. cur[t].s # s
        BY <2>a, <4>1 DEF Busy
      <4> QED
        BY <3>3, <4>2
        DEF HandleAccept, SendRes, Serve, WriteCallback, Delete, Refuse, TypeOK
    <3> QED
      BY <2>1, <3>1, <3>2, <3>3 DEF Run, Take, LogMetrics, HandleWrite, ClearBuffer
  <2>2. CASE \E x \in Session : Send(x) \/ Leave(x) \/ CompleteRead(x) \/ CompleteWrite(x)
    BY <2>2 DEF Send, Leave, CompleteRead, CompleteWrite, sys
  <2>3. CASE CompleteAccept
    BY <2>3 DEF CompleteAccept
  <2> QED
    BY <2>1, <2>2, <2>3 DEF Next
<1> QED
  BY <1>1, SessionInvariant, PTL DEF Spec, ResponseStable
-----------------------------------------------------------------------------
(* Answers in order: what each step of the chain knows of the number of       *)
(* requests read and of answers given.                                        *)

Settled(s)  == read[s] = Len(got[s])
Owed(s)     == read[s] = Len(got[s]) + 1
ToAnswer(s) == Owed(s) /\ (asked[s][read[s]] = "bad" => res[s] = 400)

(* What a completion, in the queue or taken by a thread, says of its session. *)
Carries(c, s) ==
  c.arg # "error" =>
    IF c.op = "read" THEN Owed(s) /\ asked[s][read[s]] = c.arg ELSE Settled(s)

Handles(t, s) ==
  /\ pc[t] \in {"accept", "read", "write"} => Carries(cur[t], s) /\ cur[t].op = pc[t]
  /\ pc[t] = "serve" => Owed(s) /\ asked[s][read[s]] = "good"
  /\ pc[t] \in {"log", "respond"} => ToAnswer(s)

Ordered(s) ==
  /\ Len(got[s]) <= read[s] /\ read[s] <= Len(asked[s])
  /\ \A i \in 1..Len(got[s]) : asked[s][i] = "bad" => got[s][i] = 400
  /\ s = listening \/ object[s] = "none" \/ "read" \in op[s] => Settled(s)
  /\ "write" \in op[s] => ToAnswer(s)
  /\ \A c \in queue : c.s = s => Carries(c, s)
  /\ \A t \in Thread : Busy(t, s) => Handles(t, s)

AllOrdered == \A s \in Session : Ordered(s)

LEMMA InitOrdered == Init => AllOrdered
<1> SUFFICES ASSUME Init, NEW s \in Session PROVE Ordered(s)
  BY DEF AllOrdered
<1>1. \A t \in Thread : ~Busy(t, s)
  BY DEF Init, Busy, Working
<1>2. read[s] = 0 /\ got[s] = <<>> /\ asked[s] = <<>> /\ op[s] = {} /\ queue = {}
  BY DEF Init
<1> QED
  BY <1>1, <1>2 DEF Ordered, Settled

(* A session about which no more is claimed than before. *)
LEMMA OrderElsewhere ==
  ASSUME NEW s \in Session, Ordered(s),
         read'[s] = read[s], got'[s] = got[s], asked'[s] = asked[s], res'[s] = res[s],
         object'[s] = "none" => object[s] = "none", op'[s] \subseteq op[s],
         s = listening' => s = listening,
         \A c \in queue' : c.s = s => c \in queue,
         \A t \in Thread : Busy(t, s)' => Busy(t, s) /\ pc'[t] = pc[t] /\ cur'[t] = cur[t]
  PROVE  Ordered(s)'
  BY DEF Ordered, Settled, Owed, ToAnswer, Carries, Handles

LEMMA OutsideOrdered ==
  ASSUME TypeOK, AllAlone, AllOrdered, NEW s \in Session,
         \/ CompleteAccept
         \/ \E x \in Session : Send(x) \/ Leave(x) \/ CompleteRead(x) \/ CompleteWrite(x)
  PROVE  Ordered(s)'
<1>a. Alone(s) /\ Ordered(s)
  BY DEF AllAlone, AllOrdered
<1>t. /\ read[s] \in Nat /\ got[s] \in Seq({0, 200, 400, 404}) /\ asked[s] \in Seq({"good", "bad"})
      /\ op[s] \subseteq {"read", "write"} /\ Len(got[s]) \in Nat /\ Len(asked[s]) \in Nat
      /\ op = [x \in Session |-> op[x]] /\ read = [x \in Session |-> read[x]]
      /\ got = [x \in Session |-> got[x]] /\ asked = [x \in Session |-> asked[x]]
  BY DEF TypeOK
<1>1. ASSUME NEW x \in Session, Send(x) PROVE Ordered(s)'
  <2>1. UNCHANGED <<sys, got>> /\ \A t \in Thread : Busy(t, s)' <=> Busy(t, s)
    BY <1>1 DEF Send, sys, Busy
  <2>2. CASE x # s
    BY <1>1, <1>a, <1>t, <2>1, <2>2, OrderElsewhere DEF Send, sys
  <2>3. CASE x = s
    <3>1. PICK k \in {"good", "bad"} : asked' = [asked EXCEPT ![s] = Append(@, k)]
      BY <1>1, <2>3 DEF Send
    <3>2. Len(asked[s]) = Len(got[s])
      BY <1>1, <2>3 DEF Send
    <3>3. asked'[s] = Append(asked[s], k)
      BY <1>t, <3>1
    <3>4. Len(asked'[s]) = Len(asked[s]) + 1 /\ \A i \in 1..Len(asked[s]) : asked'[s][i] = asked[s][i]
      BY <1>t, <3>3, AppendProperties
    <3>5. Settled(s) /\ ~Owed(s)
      BY <1>a, <1>t, <3>2 DEF Ordered, Settled, Owed
    <3>6. \A c : Carries(c, s) => Carries(c, s)'
      BY <2>1, <3>5 DEF Carries, Settled, Owed, sys
    <3>7. \A t \in Thread : Handles(t, s) => Handles(t, s)'
      BY <2>1, <3>5, <3>6 DEF Handles, ToAnswer, sys
    <3>8. /\ Len(got[s]) <= read[s] /\ read[s] <= Len(asked'[s]) /\ ~ToAnswer(s)
          /\ \A i \in 1..Len(got[s]) : asked'[s][i] = "bad" => got[s][i] = 400
      BY <1>a, <1>t, <3>2, <3>4, <3>5 DEF Ordered, ToAnswer
    <3> QED
      BY <1>a, <2>1, <3>6, <3>7, <3>8 DEF sys, Ordered, Settled, ToAnswer
  <2> QED
    BY <2>2, <2>3
<1>2. ASSUME NEW x \in Session, Leave(x) PROVE Ordered(s)'
  BY <1>2, <1>a, OrderElsewhere DEF Leave, sys, Busy
<1>3. CASE CompleteAccept
  <2>1. PICK a \in {"ok", "error"} : queue' = queue \cup {Completion("accept", listening, a)}
    BY <1>3 DEF CompleteAccept
  <2>2. /\ UNCHANGED <<object, op, pc, cur, res, asked, read, got>> /\ listening' = NoSession
        /\ \A t \in Thread : Busy(t, s)' <=> Busy(t, s)
    BY <1>3 DEF CompleteAccept, Busy
  <2>3. CASE s = listening
    <3>1. Carries(Completion("accept", listening, a), s)
      BY <1>a, <2>3 DEF Ordered, Carries, Completion
    <3> QED
      BY <1>a, <2>1, <2>2, <3>1, NoSessionAssumption
      DEF Ordered, Settled, Owed, ToAnswer, Carries, Handles
  <2>4. CASE s # listening
    <3>1. Completion("accept", listening, a).s = listening
      BY DEF Completion
    <3> QED
      BY <1>a, <2>1, <2>2, <2>4, <3>1, OrderElsewhere, NoSessionAssumption
  <2> QED
    BY <2>3, <2>4
<1>4. ASSUME NEW x \in Session, CompleteRead(x) PROVE Ordered(s)'
  <2>1. PICK a : /\ queue' = queue \cup {Completion("read", x, a)}
                 /\ \/ /\ read[x] < Len(asked[x]) /\ a = asked[x][read[x] + 1]
                       /\ read' = [read EXCEPT ![x] = @ + 1]
                    \/ a = "error" /\ UNCHANGED read
    BY <1>4 DEF CompleteRead
  <2>2. /\ UNCHANGED <<listening, object, pc, cur, res, asked, got>>
        /\ op' = [op EXCEPT ![x] = @ \ {"read"}] /\ "read" \in op[x]
        /\ \A t \in Thread : Busy(t, s)' <=> Busy(t, s)
    BY <1>4 DEF CompleteRead, Finish, Busy
  <2>c. /\ Completion("read", x, a).s = x /\ Completion("read", x, a).op = "read"
        /\ Completion("read", x, a).arg = a
    BY DEF Completion
  <2>3. CASE s = x
    <3>1. /\ s # listening /\ object[s] = "allocated" /\ op'[s] = {} /\ Settled(s)
          /\ (\A t \in Thread : ~Busy(t, s)) /\ \A c \in queue : c.s # s
      BY <1>a, <1>t, <2>2, <2>3 DEF Alone, Awaited, Ordered
    <3>2. /\ a = "error" \/ (read'[s] = read[s] + 1 /\ a = asked[s][read[s] + 1])
          /\ read[s] <= read'[s] /\ read'[s] <= Len(asked[s])
      BY <1>a, <1>t, <2>1, <2>3 DEF Ordered
    <3>3. Carries(Completion("read", x, a), s)'
      BY <1>t, <2>2, <2>c, <3>1, <3>2 DEF Carries, Settled, Owed
    <3>4. Len(got[s]) <= read'[s] /\ read'[s] <= Len(asked[s])
      BY <1>a, <3>1, <3>2 DEF Settled
    <3> QED
      BY <1>a, <2>1, <2>2, <3>1, <3>3, <3>4 DEF Ordered, Carries
  <2>4. CASE s # x
    BY <1>a, <1>t, <2>1, <2>2, <2>4, <2>c, OrderElsewhere
  <2> QED
    BY <2>3, <2>4
<1>5. ASSUME NEW x \in Session, CompleteWrite(x) PROVE Ordered(s)'
  <2>1. PICK a : /\ queue' = queue \cup {Completion("write", x, a)}
                 /\ \/ a = "ok" /\ got' = [got EXCEPT ![x] = Append(@, res[x])]
                    \/ a = "error" /\ UNCHANGED got
    BY <1>5 DEF CompleteWrite
  <2>2. /\ UNCHANGED <<listening, object, pc, cur, res, asked, read>>
        /\ op' = [op EXCEPT ![x] = @ \ {"write"}] /\ "write" \in op[x]
        /\ \A t \in Thread : Busy(t, s)' <=> Busy(t, s)
    BY <1>5 DEF CompleteWrite, Finish, Busy
  <2>c. /\ Completion("write", x, a).s = x /\ Completion("write", x, a).op = "write"
        /\ Completion("write", x, a).arg = a
    BY DEF Completion
  <2>3. CASE s = x
    <3>1. /\ s # listening /\ object[s] = "allocated" /\ op'[s] = {} /\ ToAnswer(s)
          /\ (\A t \in Thread : ~Busy(t, s)) /\ \A c \in queue : c.s # s
      BY <1>a, <1>t, <2>2, <2>3 DEF Alone, Awaited, Ordered
    <3>2. CASE a = "error" /\ UNCHANGED got
      <4>1. Carries(Completion("write", x, a), s)'
        BY <2>c, <3>2 DEF Carries
      <4> QED
        BY <1>a, <2>1, <2>2, <3>1, <3>2, <4>1 DEF Ordered, Carries
    <3>3. CASE got' = [got EXCEPT ![x] = Append(@, res[x])]
      <4>1. got'[s] = Append(got[s], res[s]) /\ res[s] \in {0, 200, 400, 404}
        BY <1>t, <2>3, <3>3 DEF TypeOK
      <4>2. /\ Len(got'[s]) = Len(got[s]) + 1
            /\ \A i \in 1..Len(got[s]) : got'[s][i] = got[s][i]
            /\ got'[s][Len(got[s]) + 1] = res[s]
        BY <1>t, <4>1, AppendProperties
      <4>3. Settled(s)'
        BY <2>2, <3>1, <4>2 DEF Settled, Owed, ToAnswer
      <4>4. \A i \in 1..Len(got'[s]) : asked[s][i] = "bad" => got'[s][i] = 400
        BY <1>a, <1>t, <3>1, <4>2 DEF Ordered, ToAnswer, Owed
      <4>5. Carries(Completion("write", x, a), s)'
        BY <2>c, <4>3 DEF Carries
      <4>6. Len(got'[s]) <= read[s]
        BY <1>t, <3>1, <4>2 DEF ToAnswer, Owed
      <4> QED
        BY <1>a, <2>1, <2>2, <3>1, <4>4, <4>5, <4>6 DEF Ordered, Carries
    <3> QED
      BY <2>1, <3>2, <3>3
  <2>4. CASE s # x
    BY <1>a, <1>t, <2>1, <2>2, <2>4, <2>c, OrderElsewhere
  <2> QED
    BY <2>3, <2>4
<1> QED
  BY <1>1, <1>2, <1>3, <1>4, <1>5

(* A thread in a handler of s is all there is of s. *)
LEMMA OnlyHandler ==
  ASSUME TypeOK, AllAlone, NEW t \in Thread, NEW s \in Session, Busy(t, s)
  PROVE  /\ op[s] = {} /\ s # listening /\ object[s] = "allocated"
         /\ \A c \in queue : c.s # s
         /\ \A u \in Thread \ {t} : ~Busy(u, s)
  BY DEF AllAlone, Alone, Awaited

(* A step of its thread leaves s with what that thread, or the call it has    *)
(* started, knows of it.                                                      *)
LEMMA HandlerOrdered ==
  ASSUME TypeOK, AllAlone, NEW t \in Thread, Run(t), NEW s \in Session, Busy(t, s), Ordered(s),
         UNCHANGED <<listening, queue, asked, read, got>>,
         object'[s] # "none", op'[s] \subseteq {"read", "write"},
         "read" \in op'[s] => Settled(s),
         "write" \in op'[s] => ToAnswer(s)',
         Busy(t, s)' => Handles(t, s)'
  PROVE  Ordered(s)'
<1>1. \A u \in Thread : Busy(u, s)' => u = t
  BY OnlyHandler, OthersStay DEF Busy
<1>2. \A c \in queue' : c.s # s
  BY OnlyHandler
<1>3. s # listening'
  BY OnlyHandler
<1> QED
  BY <1>1, <1>2, <1>3 DEF Ordered, Settled

LEMMA ThreadOrdered ==
  ASSUME TypeOK, AllAlone, AllOrdered, NEW t \in Thread, Run(t), NEW s \in Session
  PROVE  Ordered(s)'
<1>a. Alone(s) /\ Ordered(s)
  BY DEF AllAlone, AllOrdered
<1>o. \A u \in Thread \ {t} : Busy(u, s)' => Busy(u, s) /\ pc'[u] = pc[u] /\ cur'[u] = cur[u]
  BY OthersStay DEF Busy
<1>t. /\ pc \in [Thread -> {"idle", "accept", "rearm", "clear"} \cup Working]
      /\ cur \in [Thread -> Completions \cup {Nothing}]
      /\ op \in [Session -> SUBSET {"read", "write"}]
      /\ object \in [Session -> {"none", "allocated", "deleted"}]
      /\ res \in [Session -> {0, 200, 400, 404}]
      /\ pc[t] # "idle" => cur[t].s \in Session
  BY Handled DEF TypeOK, ThreadsOK
<1>u. UNCHANGED <<asked, read, got>>
  BY DEF Run, Take, HandleAccept, StartAccept, SendRes, Serve, LogMetrics, HandleWrite,
         ClearBuffer, WriteCallback
<1>1. CASE Take(t)
  <2> PICK c \in queue : /\ queue' = queue \ {c}
                         /\ cur' = [cur EXCEPT ![t] = c]
                         /\ pc' = [pc EXCEPT ![t] = c.op]
    BY <1>1 DEF Take
  <2>1. UNCHANGED <<listening, object, op, res>>
    BY <1>1 DEF Take
  <2>2. cur'[t] = c /\ pc'[t] = c.op /\ c.op \in {"accept", "read", "write"}
    BY <1>t, NotNothing DEF TypeOK
  <2>3. CASE c.s = s
    <3>1. Handles(t, s)'
      BY <1>a, <1>u, <2>1, <2>2, <2>3 DEF Ordered, Handles, Carries, Settled, Owed
    <3>2. \A u \in Thread : Busy(u, s)' => u = t
      BY <1>a, <1>o, <2>3 DEF Alone, Awaited
    <3> QED
      BY <1>a, <1>u, <2>1, <3>1, <3>2 DEF Ordered, Settled, Owed, ToAnswer, Carries
  <2>4. CASE c.s # s
    <3>1. ~Busy(t, s)'
      BY <2>2, <2>4 DEF Busy
    <3> QED
      BY <1>a, <1>o, <1>u, <2>1, <3>1, OrderElsewhere
  <2> QED
    BY <2>3, <2>4
<1>2. CASE StartAccept(t)
  <2>1. UNCHANGED <<op, queue, res>> /\ ~Busy(t, s)'
    BY <1>2, <1>t DEF StartAccept, Return, Busy, Working
  <2>2. CASE object[s] = "none" /\ listening' = s
    <3>1. Settled(s)
      BY <1>a, <2>2 DEF Ordered
    <3>2. op[s] = {} /\ (\A c \in queue : c.s # s) /\ \A u \in Thread : ~Busy(u, s)'
      BY <1>a, <1>o, <2>1, <2>2 DEF Alone, Awaited
    <3> QED
      BY <1>a, <1>u, <2>1, <3>1, <3>2 DEF Ordered, Settled
  <2>3. CASE object'[s] = object[s] /\ (s = listening' => s = listening)
    BY <1>a, <1>o, <1>u, <2>1, <2>3, OrderElsewhere
  <2> QED
    BY <1>2, <1>t, <2>2, <2>3 DEF StartAccept
<1>3. CASE ClearBuffer(t)
  BY <1>3, <1>a, <1>o, <1>t, <1>u, OrderElsewhere DEF ClearBuffer, Return, Busy, Working
<1>4. CASE /\ pc[t] \in {"accept"} \cup Working /\ cur[t].s # s /\ UNCHANGED <<listening, queue>>
           /\ op'[s] = op[s] /\ object'[s] = object[s] /\ res'[s] = res[s] /\ ~Busy(t, s)'
  BY <1>4, <1>a, <1>o, <1>u, OrderElsewhere
<1>5. ASSUME HandleAccept(t) \/ SendRes(t) \/ Serve(t) \/ LogMetrics(t) \/ HandleWrite(t)
               \/ WriteCallback(t), cur[t].s # s
      PROVE  Ordered(s)'
  <2>1. pc[t] \in {"accept"} \cup Working /\ UNCHANGED <<listening, queue>>
    BY <1>5 DEF HandleAccept, SendRes, Serve, LogMetrics, HandleWrite, WriteCallback, Working
  <2>2. cur'[t] = cur[t] \/ pc'[t] = "idle"
    BY <1>5, <1>t DEF HandleAccept, ListenAgain, SendRes, Serve, LogMetrics, HandleWrite,
                      WriteCallback, Goto, Return
  <2>3. ~Busy(t, s)'
    BY <1>5, <2>2 DEF Busy, Working
  <2>4. op'[s] = op[s] /\ object'[s] = object[s]
    BY <1>5, <1>t DEF HandleAccept, SendRes, Serve, LogMetrics, HandleWrite, WriteCallback,
                      Write, Onward, Start, Delete
  <2>5. res'[s] = res[s]
    BY <1>5, <1>t DEF HandleAccept, SendRes, Serve, LogMetrics, HandleWrite, WriteCallback, Refuse
  <2> QED
    BY <1>4, <1>5, <2>1, <2>3, <2>4, <2>5
<1>6. ASSUME cur[t].s = s, pc[t] \in {"accept"} \cup Working
      PROVE  Busy(t, s) /\ Handles(t, s) /\ op[s] = {} /\ object[s] = "allocated"
  BY <1>6, <1>a, OnlyHandler DEF Ordered, Busy
<1>7. CASE HandleAccept(t) /\ cur[t].s = s
  <2>1. Busy(t, s) /\ Handles(t, s) /\ op[s] = {} /\ object[s] = "allocated"
    BY <1>6, <1>7 DEF HandleAccept
  <2>2. cur[t].arg = "ok" => Settled(s)
    BY <1>7, <2>1 DEF HandleAccept, Handles, Carries
  <2>3. ~Busy(t, s)'
    BY <1>7, <1>t DEF HandleAccept, ListenAgain, Goto, Return, Busy, Working
  <2>4. /\ object'[s] # "none"
        /\ op'[s] = {} \/ (op'[s] = {"read"} /\ Settled(s))
    BY <1>7, <1>t, <2>1, <2>2 DEF HandleAccept, Start, Delete
  <2> QED
    BY <1>7, <1>a, <1>u, <2>1, <2>3, <2>4, HandlerOrdered DEF HandleAccept
<1>8. CASE SendRes(t) /\ cur[t].s = s
  <2>1. Busy(t, s) /\ Handles(t, s) /\ op[s] = {} /\ object[s] = "allocated"
    BY <1>6, <1>8 DEF SendRes, Working
  <2>2. object'[s] # "none" /\ op'[s] = {} /\ UNCHANGED <<listening, queue>>
    BY <1>8, <1>t, <2>1 DEF SendRes, Delete
  <2>3. cur[t].arg # "error" => Owed(s) /\ asked[s][read[s]] = cur[t].arg
    BY <1>8, <2>1 DEF SendRes, Handles, Carries
  <2>4. Busy(t, s)' => Handles(t, s)'
    <3>1. CASE Return(t)
      BY <1>t, <3>1 DEF Return, Busy, Working
    <3>2. CASE Refuse(s) /\ Goto(t, "log") /\ cur[t].arg # "error"
      BY <1>t, <1>u, <2>3, <3>2 DEF Refuse, Goto, Handles, ToAnswer, Owed
    <3>3. CASE cur[t].arg = "good" /\ Goto(t, "serve")
      BY <1>t, <1>u, <2>3, <3>3 DEF Goto, Handles, Owed
    <3> QED
      BY <1>8, <3>1, <3>2, <3>3 DEF SendRes
  <2> QED
    BY <1>a, <1>u, <2>1, <2>2, <2>4, HandlerOrdered
<1>9. CASE (Serve(t) \/ LogMetrics(t)) /\ cur[t].s = s
  <2>1. Busy(t, s) /\ Handles(t, s) /\ op[s] = {} /\ object[s] = "allocated"
    BY <1>6, <1>9 DEF Serve, LogMetrics, Working
  <2>2. object'[s] # "none" /\ op'[s] = {} /\ UNCHANGED <<listening, queue>>
    BY <1>9, <2>1 DEF Serve, LogMetrics
  <2>3. Handles(t, s)'
    <3>1. CASE Serve(t)
      <4>1. Owed(s) /\ asked[s][read[s]] = "good" /\ pc'[t] = "log"
        BY <1>t, <2>1, <3>1 DEF Serve, Goto, Handles
      <4> QED
        BY <1>u, <4>1 DEF Handles, ToAnswer, Owed
    <3>2. CASE LogMetrics(t)
      <4>1. ToAnswer(s) /\ res' = res
        BY <2>1, <3>2 DEF LogMetrics, Handles
      <4>2. pc[t] = "log" /\ (pc' = pc \/ pc' = [pc EXCEPT ![t] = "respond"])
        BY <3>2 DEF LogMetrics, Goto
      <4>3. pc'[t] \in {"log", "respond"}
        BY <1>t, <4>2
      <4> QED
        BY <1>u, <4>1, <4>3 DEF Handles, ToAnswer, Owed
    <3> QED
      BY <1>9, <3>1, <3>2
  <2> QED
    BY <1>a, <1>u, <2>1, <2>2, <2>3, HandlerOrdered
<1>10. CASE HandleWrite(t) /\ cur[t].s = s
  <2>1. Busy(t, s) /\ Handles(t, s) /\ op[s] = {} /\ object[s] = "allocated"
    BY <1>6, <1>10 DEF HandleWrite, Working
  <2>2. ToAnswer(s) /\ UNCHANGED <<listening, queue, object, res>>
    BY <1>10, <2>1 DEF HandleWrite, Handles
  <2>3. ~Busy(t, s)'
    BY <1>10, <1>t DEF HandleWrite, Goto, Return, Busy, Working
  <2>4. op'[s] = {"write"}
    BY <1>10, <1>t, <2>1 DEF HandleWrite, Write, Start
  <2>5. ToAnswer(s)'
    BY <1>u, <2>2 DEF ToAnswer, Owed
  <2> QED
    BY <1>a, <1>u, <2>1, <2>2, <2>3, <2>4, <2>5, HandlerOrdered
<1>11. CASE WriteCallback(t) /\ cur[t].s = s
  <2>1. Busy(t, s) /\ Handles(t, s) /\ op[s] = {} /\ object[s] = "allocated"
    BY <1>6, <1>11 DEF WriteCallback, Working
  <2>2. cur[t].arg = "ok" => Settled(s)
    BY <1>11, <2>1 DEF WriteCallback, Handles, Carries
  <2>3. ~Busy(t, s)'
    BY <1>11, <1>t DEF WriteCallback, Return, Busy, Working
  <2>4. /\ object'[s] # "none"
        /\ op'[s] = {} \/ (op'[s] = {"read"} /\ Settled(s))
    BY <1>11, <1>t, <2>1, <2>2 DEF WriteCallback, Onward, Start, Delete
  <2> QED
    BY <1>11, <1>a, <1>u, <2>1, <2>3, <2>4, HandlerOrdered DEF WriteCallback
<1> QED
  BY <1>1, <1>2, <1>3, <1>5, <1>7, <1>8, <1>9, <1>10, <1>11 DEF Run

LEMMA OrderInvariant == Spec => [](TypeOK /\ AllAlone /\ AllOrdered)
<1>1. TypeOK /\ AllAlone /\ AllOrdered /\ [Next]_vars => AllOrdered'
  <2> SUFFICES ASSUME TypeOK, AllAlone, AllOrdered, [Next]_vars, NEW s \in Session
               PROVE  Ordered(s)'
    BY DEF AllOrdered
  <2>1. CASE UNCHANGED vars
    BY <2>1, OrderElsewhere DEF vars, AllOrdered, Busy
  <2>2. CASE Next
    BY <2>2, OutsideOrdered, ThreadOrdered DEF Next
  <2> QED
    BY <2>1, <2>2
<1> QED
  BY <1>1, InitOrdered, SessionInvariant, PTL DEF Spec

(* Every request is answered in its turn, one that does not parse with a      *)
(* refusal, whatever the pool's threads have done in between (send_res).      *)
THEOREM InOrderHolds == Spec => []InOrder
<1>1. TypeOK /\ AllOrdered => InOrder
  <2> SUFFICES ASSUME TypeOK, NEW s \in Session, Ordered(s)
               PROVE  /\ Len(got[s]) <= Len(asked[s])
                      /\ \A i \in 1..Len(got[s]) : asked[s][i] = "bad" => got[s][i] = 400
    BY DEF AllOrdered, InOrder
  <2>1. Len(got[s]) \in Nat /\ read[s] \in Nat /\ Len(asked[s]) \in Nat
    BY DEF TypeOK
  <2> QED
    BY <2>1 DEF Ordered
<1> QED
  BY <1>1, OrderInvariant, PTL
-----------------------------------------------------------------------------
(* Nothing is forgotten.  Accepting is one activity too: the outstanding      *)
(* accept, its completion, or one thread between the two.  That is why        *)
(* start_accept never drops a session that is still listened on.              *)

Accepting(t) == pc[t] \in {"accept", "rearm"}

OneAccept ==
  /\ listening # NoSession =>
       (\A c \in queue : c.op # "accept") /\ \A t \in Thread : ~Accepting(t)
  /\ \A c, d \in queue : c.op = "accept" /\ d.op = "accept" => c = d
  /\ \A c \in queue : c.op = "accept" => \A t \in Thread : ~Accepting(t)
  /\ \A t, u \in Thread : Accepting(t) /\ Accepting(u) => t = u

(* A socket to which nobody has connected has no peer. *)
Away(s) ==
  /\ object[s] = "none" \/ s = listening => client[s] = "away"
  /\ \A c \in queue : c.s = s /\ c.op = "accept" /\ c.arg = "error" => client[s] = "away"
  /\ \A t \in Thread : pc[t] = "accept" /\ cur[t].s = s /\ cur[t].arg = "error" => client[s] = "away"

Kept(s) == object[s] = "allocated" => Awaited(s) \/ \E t \in Thread : Busy(t, s)

Listens ==
  \/ listening # NoSession \/ Exhausted \/ AcceptFailed
  \/ \E c \in queue : c.op = "accept"
  \/ \E t \in Thread : Accepting(t)

ForgetInv == OneAccept /\ (\A s \in Session : Away(s) /\ Kept(s)) /\ Listens

Outside ==
  \/ CompleteAccept
  \/ \E x \in Session : Send(x) \/ Leave(x) \/ CompleteRead(x) \/ CompleteWrite(x)

(* A step inside a session: neither an accept nor the queue is concerned. *)
Inner(t) ==
  SendRes(t) \/ Serve(t) \/ LogMetrics(t) \/ HandleWrite(t) \/ ClearBuffer(t) \/ WriteCallback(t)

LEMMA ThreadMoves ==
  ASSUME TypeOK, NEW t \in Thread, Run(t)
  PROVE  /\ Take(t) => /\ pc[t] = "idle" /\ cur'[t] \in queue /\ queue' = queue \ {cur'[t]}
                       /\ pc'[t] = cur'[t].op /\ UNCHANGED <<listening, object, op>>
         /\ HandleAccept(t) => /\ pc[t] = "accept" /\ UNCHANGED <<listening, queue>>
                               /\ cur[t].arg = "ok" => pc'[t] = "rearm" /\ cur' = cur
                               /\ cur[t].arg # "ok" => pc'[t] = "idle"
         /\ StartAccept(t) => pc[t] = "rearm" /\ pc'[t] = "idle" /\ UNCHANGED <<queue, op>>
         /\ Inner(t) => /\ pc[t] \in {"clear"} \cup Working /\ pc'[t] \in {"idle", "clear"} \cup Working
                        /\ UNCHANGED <<listening, queue>>
         /\ UNCHANGED client
<1>t. /\ pc \in [Thread -> {"idle", "accept", "rearm", "clear"} \cup Working]
      /\ cur \in [Thread -> Completions \cup {Nothing}]
  BY DEF TypeOK, ThreadsOK
<1>1. CASE Take(t)
  <2>1. PICK c \in queue : /\ queue' = queue \ {c}
                           /\ cur' = [cur EXCEPT ![t] = c]
                           /\ pc' = [pc EXCEPT ![t] = c.op]
    BY <1>1 DEF Take
  <2>2. cur'[t] = c /\ pc'[t] = c.op /\ pc[t] = "idle"
    BY <1>1, <1>t, <2>1 DEF Take
  <2> QED
    BY <1>1, <2>1, <2>2
    DEF Take, HandleAccept, StartAccept, Inner, SendRes, Serve, LogMetrics, HandleWrite,
        ClearBuffer, WriteCallback
<1>2. CASE HandleAccept(t)
  BY <1>2, <1>t
  DEF HandleAccept, ListenAgain, Goto, Return, Take, StartAccept, Inner, SendRes, Serve, LogMetrics,
      HandleWrite, ClearBuffer, WriteCallback
<1>3. CASE StartAccept(t)
  BY <1>3, <1>t
  DEF StartAccept, Return, Take, HandleAccept, Inner, SendRes, Serve, LogMetrics,
      HandleWrite, ClearBuffer, WriteCallback
<1>4. CASE Inner(t)
  <2>1. pc[t] \in {"clear"} \cup Working
    BY <1>4 DEF Inner, SendRes, Serve, LogMetrics, HandleWrite, ClearBuffer, WriteCallback, Working
  <2>2. UNCHANGED <<listening, queue, client>>
    BY <1>4 DEF Inner, SendRes, Serve, LogMetrics, HandleWrite, ClearBuffer, WriteCallback
  <2>3. pc' = pc \/ Return(t) \/ \E l \in {"clear"} \cup Working : Goto(t, l)
    BY <1>4 DEF Inner, SendRes, Serve, LogMetrics, HandleWrite, ClearBuffer, WriteCallback, Working
  <2>4. pc'[t] \in {"idle", "clear"} \cup Working
    BY <1>t, <2>1, <2>3 DEF Return, Goto
  <2>5. ~Take(t) /\ ~HandleAccept(t) /\ ~StartAccept(t)
    BY <2>1 DEF Take, HandleAccept, StartAccept, Working
  <2> QED
    BY <2>1, <2>2, <2>4, <2>5
<1> QED
  BY <1>1, <1>2, <1>3, <1>4 DEF Run, Inner

(* What the peers and the operating system add to the queue. *)
LEMMA OutsideMoves ==
  ASSUME TypeOK, Outside
  PROVE  /\ UNCHANGED <<object, pc, cur>>
         /\ \/ UNCHANGED <<queue, listening, op>>
            \/ /\ CompleteAccept /\ listening # NoSession /\ listening' = NoSession /\ UNCHANGED op
               /\ \E a \in {"ok", "error"} : queue' = queue \cup {Completion("accept", listening, a)}
            \/ /\ UNCHANGED <<listening, client>>
               /\ \E x \in Session : \E o \in {"read", "write"} : \E a :
                    queue' = queue \cup {Completion(o, x, a)} /\ Finish(o, x)
<1>1. CASE CompleteAccept
  BY <1>1 DEF CompleteAccept
<1>2. ASSUME NEW x \in Session, Send(x) \/ Leave(x) PROVE UNCHANGED <<object, pc, cur, queue, listening, op>>
  BY <1>2 DEF Send, Leave, sys
<1>3. ASSUME NEW x \in Session, CompleteRead(x) \/ CompleteWrite(x)
      PROVE  /\ UNCHANGED <<object, pc, cur, listening, client>>
             /\ \E o \in {"read", "write"} : \E a : queue' = queue \cup {Completion(o, x, a)} /\ Finish(o, x)
  BY <1>3 DEF CompleteRead, CompleteWrite
<1> QED
  BY <1>1, <1>2, <1>3 DEF Outside

LEMMA OneAcceptStep ==
  ASSUME TypeOK, OneAccept, [Next]_vars
  PROVE  OneAccept'
<1>k. ASSUME \A t \in Thread : Accepting(t)' => Accepting(t),
             \A c \in queue' : c.op = "accept" => c \in queue,
             listening' = listening
      PROVE  OneAccept'
  BY <1>k DEF OneAccept
<1>1. CASE UNCHANGED vars
  BY <1>1, <1>k DEF vars, Accepting
<1>2. CASE Outside
  <2>1. \A t \in Thread : Accepting(t)' <=> Accepting(t)
    BY <1>2, OutsideMoves DEF Accepting
  <2>2. CASE UNCHANGED <<queue, listening, op>>
    BY <1>k, <2>1, <2>2
  <2>3. CASE /\ listening # NoSession /\ listening' = NoSession
             /\ \E a \in {"ok", "error"} : queue' = queue \cup {Completion("accept", listening, a)}
    <3> PICK a : queue' = queue \cup {Completion("accept", listening, a)}
      BY <2>3
    <3>1. (\A c \in queue : c.op # "accept") /\ \A t \in Thread : ~Accepting(t)
      BY <2>3 DEF OneAccept
    <3> QED
      BY <2>1, <2>3, <3>1 DEF OneAccept
  <2>4. ASSUME NEW x \in Session, NEW o \in {"read", "write"}, NEW a,
               queue' = queue \cup {Completion(o, x, a)}, listening' = listening
        PROVE  OneAccept'
    <3>1. Completion(o, x, a).op # "accept"
      BY DEF Completion
    <3> QED
      BY <1>k, <2>1, <2>4, <3>1
  <2> QED
    BY <1>2, <2>2, <2>3, <2>4, OutsideMoves
<1>3. ASSUME NEW t \in Thread, Run(t) PROVE OneAccept'
  <2>o. \A u \in Thread \ {t} : Accepting(u)' <=> Accepting(u)
    BY <1>3, OthersStay DEF Accepting
  <2>1. CASE Take(t)
    <3>1. /\ cur'[t] \in queue /\ queue' = queue \ {cur'[t]} /\ pc'[t] = cur'[t].op
          /\ listening' = listening /\ ~Accepting(t)
      BY <1>3, <2>1, ThreadMoves DEF Accepting
    <3>2. cur'[t].op \in {"accept", "read", "write"}
      BY <3>1, NotNothing DEF TypeOK
    <3>3. CASE cur'[t].op = "accept"
      <4>1. (\A u \in Thread : ~Accepting(u)) /\ \A c \in queue' : c.op # "accept"
        BY <3>1, <3>3 DEF OneAccept
      <4>2. listening' = NoSession
        BY <3>1, <3>3 DEF OneAccept
      <4> QED
        BY <2>o, <4>1, <4>2 DEF OneAccept
    <3>4. CASE cur'[t].op # "accept"
      BY <1>k, <2>o, <3>1, <3>2, <3>4 DEF Accepting
    <3> QED
      BY <3>3, <3>4
  <2>2. CASE HandleAccept(t)
    BY <1>3, <1>k, <2>2, <2>o, ThreadMoves DEF Accepting
  <2>3. CASE StartAccept(t)
    <3>1. Accepting(t) /\ ~Accepting(t)' /\ queue' = queue
      BY <1>3, <2>3, ThreadMoves DEF Accepting
    <3>2. (\A c \in queue : c.op # "accept") /\ \A u \in Thread \ {t} : ~Accepting(u)
      BY <3>1 DEF OneAccept
    <3> QED
      BY <2>o, <3>1, <3>2 DEF OneAccept
  <2>4. CASE Inner(t)
    BY <1>3, <1>k, <2>4, <2>o, ThreadMoves DEF Accepting, Working
  <2> QED
    BY <1>3, <2>1, <2>2, <2>3, <2>4 DEF Run, Inner
<1> QED
  BY <1>1, <1>2, <1>3 DEF Next, Outside

LEMMA AwayStep ==
  ASSUME TypeOK, AllAlone, [Next]_vars, NEW s \in Session, Away(s)
  PROVE  Away(s)'
<1>a. Alone(s)
  BY DEF AllAlone
<1>k. ASSUME client'[s] = client[s] \/ client[s] # "away",
             object'[s] = "none" => object[s] = "none",
             s = listening' => s = listening \/ object[s] = "none",
             \A c \in queue' : c.s = s /\ c.op = "accept" => c \in queue \/ (c.arg = "error" => s = listening),
             \A t \in Thread : pc'[t] = "accept" /\ cur'[t].s = s =>
                \/ pc[t] = "accept" /\ cur'[t] = cur[t]
                \/ cur'[t] \in queue /\ cur'[t].op = "accept"
      PROVE  Away(s)'
  BY <1>k DEF Away
<1>1. CASE UNCHANGED vars
  BY <1>1, <1>k DEF vars
<1>2. ASSUME NEW x \in Session, Send(x) PROVE Away(s)'
  BY <1>2, <1>k DEF Send, sys
<1>3. ASSUME NEW x \in Session, Leave(x) PROVE Away(s)'
  <2>1. client'[s] = client[s] \/ client[s] # "away"
    BY <1>3 DEF Leave, TypeOK
  <2> QED
    BY <1>3, <1>k, <2>1 DEF Leave, sys
<1>4. ASSUME NEW x \in Session, CompleteRead(x) \/ CompleteWrite(x) PROVE Away(s)'
  <2>1. UNCHANGED <<client, object, listening, pc, cur>>
    BY <1>4 DEF CompleteRead, CompleteWrite
  <2>2. PICK o \in {"read", "write"} : \E a : queue' = queue \cup {Completion(o, x, a)}
    BY <1>4 DEF CompleteRead, CompleteWrite
  <2>3. \A a : Completion(o, x, a).op # "accept"
    BY DEF Completion
  <2> QED
    BY <1>k, <2>1, <2>2, <2>3
(* The peer of the session that is listened on arrives; it has nothing else.  *)
<1>5. CASE CompleteAccept
  <2>1. UNCHANGED <<object, pc, cur>> /\ listening # NoSession /\ listening' = NoSession
    BY <1>5 DEF CompleteAccept
  <2>2. CASE s = listening
    <3>1. /\ object[s] # "none" /\ (\A c \in queue : c.s # s) /\ \A t \in Thread : ~Busy(t, s)
      BY <1>a, <2>2 DEF Alone, Awaited
    <3>2. /\ \A t \in Thread : ~(pc[t] = "accept" /\ cur[t].s = s)
          /\ s # listening'
      BY <2>1, <2>2, <3>1, NoSessionAssumption DEF Busy
    <3>3. CASE queue' = queue \cup {Completion("accept", s, "ok")}
      <4>1. Completion("accept", s, "ok").arg # "error"
        BY DEF Completion
      <4> QED
        BY <2>1, <3>1, <3>2, <3>3, <4>1 DEF Away
    <3>4. CASE UNCHANGED client /\ queue' = queue \cup {Completion("accept", s, "error")}
      <4>1. client'[s] = "away"
        BY <2>2, <3>4 DEF Away
      <4> QED
        BY <4>1 DEF Away
    <3> QED
      BY <1>5, <2>2, <3>3, <3>4 DEF CompleteAccept
  <2>3. CASE s # listening
    <3>1. client'[s] = client[s]
      BY <1>5, <2>3 DEF CompleteAccept, TypeOK
    <3>2. \E a : queue' = queue \cup {Completion("accept", listening, a)}
      BY <1>5 DEF CompleteAccept
    <3>3. \A a : Completion("accept", listening, a).s = listening
      BY DEF Completion
    <3>4. s # listening'
      BY <2>1, NoSessionAssumption
    <3> QED
      BY <1>k, <2>1, <2>3, <3>1, <3>2, <3>3, <3>4
  <2> QED
    BY <2>2, <2>3
<1>6. ASSUME NEW t \in Thread, Run(t) PROVE Away(s)'
  <2>o. \A u \in Thread \ {t} : pc'[u] = pc[u] /\ cur'[u] = cur[u]
    BY <1>6, OthersStay
  <2>c. client' = client
    BY <1>6, ThreadMoves
  <2>t. object \in [Session -> {"none", "allocated", "deleted"}]
    BY DEF TypeOK
  <2>1. CASE Take(t)
    <3>1. /\ cur'[t] \in queue /\ queue' = queue \ {cur'[t]} /\ pc'[t] = cur'[t].op
          /\ UNCHANGED <<listening, object>>
      BY <1>6, <2>1, ThreadMoves
    <3> QED
      BY <1>k, <2>o, <2>c, <3>1
  <2>2. CASE HandleAccept(t)
    <3>1. UNCHANGED <<listening, queue>> /\ pc'[t] # "accept"
      BY <1>6, <2>2, ThreadMoves
    <3>2. object'[s] = "none" => object[s] = "none"
      BY <2>2, <2>t DEF HandleAccept, Delete
    <3> QED
      BY <1>k, <2>o, <2>c, <3>1, <3>2
  <2>3. CASE StartAccept(t)
    <3>1. UNCHANGED queue /\ pc'[t] # "accept"
      BY <1>6, <2>3, ThreadMoves
    <3>2. /\ object'[s] = "none" => object[s] = "none"
          /\ s = listening' => s = listening \/ object[s] = "none"
      BY <2>3, <2>t DEF StartAccept
    <3> QED
      BY <1>k, <2>o, <2>c, <3>1, <3>2
  <2>4. CASE Inner(t)
    <3>1. UNCHANGED <<listening, queue>> /\ pc'[t] # "accept"
      BY <1>6, <2>4, ThreadMoves DEF Working
    <3>2. object'[s] = "none" => object[s] = "none"
      BY <2>4, <2>t DEF Inner, SendRes, Serve, LogMetrics, HandleWrite, ClearBuffer, WriteCallback, Delete
    <3> QED
      BY <1>k, <2>o, <2>c, <3>1, <3>2
  <2> QED
    BY <1>6, <2>1, <2>2, <2>3, <2>4 DEF Run, Inner
<1> QED
  BY <1>1, <1>2, <1>3, <1>4, <1>5, <1>6 DEF Next

LEMMA KeptStep ==
  ASSUME TypeOK, AllAlone, OneAccept, [Next]_vars, NEW s \in Session, Kept(s)
  PROVE  Kept(s)'
<1>k. ASSUME object'[s] = "allocated" => object[s] = "allocated",
             op[s] \subseteq op'[s],
             s = listening => s = listening',
             \A c \in queue : c.s = s => c \in queue',
             \A t \in Thread : Busy(t, s) => Busy(t, s)'
      PROVE  Kept(s)'
  BY <1>k DEF Kept, Awaited
<1>t. /\ pc \in [Thread -> {"idle", "accept", "rearm", "clear"} \cup Working]
      /\ op \in [Session -> SUBSET {"read", "write"}]
      /\ object \in [Session -> {"none", "allocated", "deleted"}]
  BY DEF TypeOK, ThreadsOK
<1>1. CASE UNCHANGED vars
  BY <1>1, <1>k DEF vars, Busy
<1>2. CASE Outside
  <2>0. UNCHANGED object /\ \A t \in Thread : Busy(t, s)' <=> Busy(t, s)
    BY <1>2, OutsideMoves DEF Busy
  <2>1. CASE UNCHANGED <<queue, listening, op>>
    BY <1>k, <2>0, <2>1
  <2>2. CASE /\ listening # NoSession /\ listening' = NoSession /\ UNCHANGED op
             /\ \E a \in {"ok", "error"} : queue' = queue \cup {Completion("accept", listening, a)}
    <3>1. \A a : Completion("accept", listening, a).s = listening
      BY DEF Completion
    <3>2. CASE s = listening
      BY <2>2, <3>1, <3>2 DEF Kept, Awaited
    <3>3. CASE s # listening
      BY <1>k, <2>0, <2>2, <3>3
    <3> QED
      BY <3>2, <3>3
  <2>3. ASSUME NEW x \in Session, NEW o \in {"read", "write"}, NEW a,
               queue' = queue \cup {Completion(o, x, a)}, Finish(o, x), listening' = listening
        PROVE  Kept(s)'
    <3>1. Completion(o, x, a).s = x
      BY DEF Completion
    <3>2. CASE s = x
      BY <2>3, <3>1, <3>2 DEF Kept, Awaited
    <3>3. CASE s # x
      <4>1. op'[s] = op[s]
        BY <1>t, <2>3, <3>3 DEF Finish
      <4> QED
        BY <1>k, <2>0, <2>3, <4>1
    <3> QED
      BY <3>2, <3>3
  <2> QED
    BY <1>2, <2>1, <2>2, <2>3, OutsideMoves
<1>3. ASSUME NEW t \in Thread, Run(t) PROVE Kept(s)'
  <2>o. \A u \in Thread \ {t} : Busy(u, s)' <=> Busy(u, s)
    BY <1>3, OthersStay DEF Busy
  <2>1. CASE Take(t)
    <3>1. /\ cur'[t] \in queue /\ queue' = queue \ {cur'[t]} /\ pc'[t] = cur'[t].op
          /\ UNCHANGED <<listening, object, op>> /\ pc[t] = "idle"
      BY <1>3, <2>1, ThreadMoves
    <3>2. cur'[t].op \in {"accept", "read", "write"}
      BY <3>1, NotNothing DEF TypeOK
    <3>3. CASE cur'[t].s = s
      <4>1. Busy(t, s)'
        BY <3>1, <3>2, <3>3 DEF Busy, Working
      <4> QED
        BY <4>1 DEF Kept
    <3>4. CASE cur'[t].s # s
      <4>1. ~Busy(t, s)
        BY <3>1 DEF Busy, Working
      <4> QED
        BY <1>k, <2>o, <3>1, <3>4, <4>1
    <3> QED
      BY <3>3, <3>4
  (* Nobody is listening when a thread starts to listen again.                *)
  <2>2. CASE StartAccept(t)
    <3>1. UNCHANGED <<queue, op>> /\ listening = NoSession /\ ~Busy(t, s)
      <4>1. pc[t] = "rearm" /\ UNCHANGED <<queue, op>>
        BY <1>3, <2>2, ThreadMoves
      <4> QED
        BY <4>1 DEF OneAccept, Accepting, Busy, Working
    <3>2. CASE listening' = s
      BY <3>2 DEF Kept, Awaited
    <3>3. CASE object'[s] = object[s]
      BY <1>k, <2>o, <3>1, <3>3, NoSessionAssumption
    <3> QED
      BY <1>t, <2>2, <3>2, <3>3 DEF StartAccept
  <2>3. CASE (HandleAccept(t) \/ Inner(t)) /\ ~Busy(t, s)
    <3>1. UNCHANGED <<listening, queue>>
      BY <1>3, <2>3, ThreadMoves
    <3>2. cur[t].s # s \/ pc[t] = "clear"
      <4>1. pc[t] \in {"accept", "clear"} \cup Working
        BY <1>3, <2>3, ThreadMoves
      <4> QED
        BY <2>3, <4>1 DEF Busy
    <3>3. op'[s] = op[s] /\ object'[s] = object[s]
      BY <1>t, <2>3, <3>2
      DEF HandleAccept, Inner, SendRes, Serve, LogMetrics, HandleWrite, ClearBuffer, WriteCallback,
          Write, Onward, Start, Delete, Working
    <3> QED
      BY <1>k, <2>3, <2>o, <3>1, <3>3
  (* The thread in a handler of s starts a call, deletes s or goes on in it.  *)
  <2>4. CASE (HandleAccept(t) \/ Inner(t)) /\ Busy(t, s)
    <3>1. cur[t].s = s /\ pc[t] \in {"accept"} \cup Working
      BY <2>4 DEF Busy
    <3>2. ASSUME NEW l \in Working, Goto(t, l) PROVE Kept(s)'
      <4>1. Busy(t, s)'
        BY <1>t, <3>1, <3>2 DEF Goto, Busy
      <4> QED
        BY <4>1 DEF Kept
    <3>3. ASSUME NEW o, Start(o, s) PROVE Kept(s)'
      <4>1. op'[s] # {}
        BY <1>t, <3>3 DEF Start
      <4> QED
        BY <4>1 DEF Kept, Awaited
    <3>4. ASSUME Delete(s) PROVE Kept(s)'
      <4>1. object'[s] = "deleted"
        BY <1>t, <3>4 DEF Delete
      <4> QED
        BY <4>1 DEF Kept
    <3>5. CASE HandleAccept(t)
      BY <3>1, <3>3, <3>4, <3>5 DEF HandleAccept
    <3>6. CASE SendRes(t)
      BY <3>1, <3>2, <3>4, <3>6 DEF SendRes, Working
    <3>7. CASE Serve(t)
      BY <3>2, <3>7 DEF Serve, Working
    <3>8. CASE LogMetrics(t)
      <4>1. CASE UNCHANGED <<pc, cur>>
        BY <2>4, <4>1 DEF Busy, Kept
      <4> QED
        BY <3>2, <3>8, <4>1 DEF LogMetrics, Working
    <3>9. CASE HandleWrite(t)
      BY <3>1, <3>3, <3>9 DEF HandleWrite, Write
    <3>10. CASE WriteCallback(t)
      BY <3>1, <3>3, <3>4, <3>10 DEF WriteCallback, Onward
    <3>11. CASE ClearBuffer(t)
      BY <3>1, <3>11 DEF ClearBuffer, Working
    <3> QED
      BY <2>4, <3>5, <3>6, <3>7, <3>8, <3>9, <3>10, <3>11 DEF Inner
  <2> QED
    BY <1>3, <2>1, <2>2, <2>3, <2>4 DEF Run, Inner
<1> QED
  BY <1>1, <1>2, <1>3 DEF Next, Outside

(* No step forgets an object, or brings one back that is deleted. *)
LEMMA ObjectsStay ==
  ASSUME TypeOK, [Next]_vars, NEW s \in Session
  PROVE  /\ object[s] # "none" => object'[s] # "none"
         /\ object[s] = "deleted" => object'[s] = "deleted"
<1>t. object \in [Session -> {"none", "allocated", "deleted"}]
  BY DEF TypeOK
<1>1. CASE UNCHANGED vars \/ Outside
  BY <1>1, OutsideMoves DEF vars
<1>2. ASSUME NEW t \in Thread, Run(t) PROVE
         \/ UNCHANGED object \/ Delete(cur[t].s)
         \/ \E x \in Session : object[x] = "none" /\ object' = [object EXCEPT ![x] = "allocated"]
  BY <1>2 DEF Run, Take, HandleAccept, StartAccept, SendRes, Serve, LogMetrics, HandleWrite,
              ClearBuffer, WriteCallback
<1> QED
  BY <1>1, <1>2, <1>t DEF Next, Outside, Delete

LEMMA ListensStep ==
  ASSUME TypeOK, AllAlone, [Next]_vars, \A s \in Session : Away(s), Listens
  PROVE  Listens'
<1>t. /\ client \in [Session -> {"away", "open", "closed", "reset"}]
      /\ object \in [Session -> {"none", "allocated", "deleted"}]
  BY DEF TypeOK
<1>1. CASE Exhausted
  BY <1>1, ObjectsStay DEF Exhausted, Listens
(* A session whose accept failed stays deleted, and nobody ever connects to it. *)
<1>2. ASSUME NEW s \in Session, object[s] = "deleted", client[s] = "away" PROVE Listens'
  <2>1. object'[s] = "deleted"
    BY <1>2, ObjectsStay
  <2>2. client'[s] = "away"
    <3>1. CASE CompleteAccept
      <4>1. s # listening
        BY <1>2 DEF AllAlone, Alone, Awaited
      <4> QED
        BY <1>t, <1>2, <3>1, <4>1 DEF CompleteAccept
    <3>2. ASSUME NEW x \in Session, Leave(x) PROVE client'[s] = "away"
      BY <1>t, <1>2, <3>2 DEF Leave
    <3>3. ASSUME NEW x \in Session, Send(x) \/ CompleteRead(x) \/ CompleteWrite(x) PROVE client' = client
      BY <3>3 DEF Send, CompleteRead, CompleteWrite
    <3>4. ASSUME NEW t \in Thread, Run(t) PROVE client' = client
      BY <3>4, ThreadMoves
    <3> QED
      BY <1>2, <3>1, <3>2, <3>3, <3>4 DEF Next, vars
  <2> QED
    BY <2>1, <2>2 DEF Listens, AcceptFailed
<1>3. CASE UNCHANGED vars
  BY <1>3 DEF vars, Listens, Exhausted, AcceptFailed, Accepting
<1>4. CASE Outside
  <2>1. \A t \in Thread : Accepting(t)' <=> Accepting(t)
    BY <1>4, OutsideMoves DEF Accepting
  <2>2. CASE CompleteAccept
    <3>1. \E a : queue' = queue \cup {Completion("accept", listening, a)}
      BY <2>2 DEF CompleteAccept
    <3>2. \A a : Completion("accept", listening, a).op = "accept"
      BY DEF Completion
    <3> QED
      BY <3>1, <3>2 DEF Listens
  <2>3. CASE ~CompleteAccept
    <3>1. listening' = listening /\ queue \subseteq queue' /\ UNCHANGED <<pc, cur>>
      BY <1>4, <2>3, OutsideMoves
    <3>2. AcceptFailed => (\E s \in Session : object[s] = "deleted" /\ client[s] = "away") \/ AcceptFailed'
      BY <3>1 DEF AcceptFailed
    <3> QED
      BY <1>1, <1>2, <2>1, <3>1, <3>2 DEF Listens
  <2> QED
    BY <2>2, <2>3
<1>5. ASSUME NEW t \in Thread, Run(t) PROVE Listens'
  <2>o. \A u \in Thread \ {t} : pc'[u] = pc[u] /\ cur'[u] = cur[u]
    BY <1>5, OthersStay
  <2>d. ASSUME NEW c \in queue, c \notin queue' PROVE Take(t) /\ c = cur'[t] /\ pc'[t] = c.op
    <3>1. Take(t)
      BY <1>5, <2>d, ThreadMoves DEF Run, Inner
    <3> QED
      BY <1>5, <2>d, <3>1, ThreadMoves
  (* What a thread takes from the queue, it has in hand.                      *)
  <2>q. ASSUME NEW c \in queue, c.op = "accept" PROVE Listens'
    <3>1. CASE c \in queue'
      BY <2>q, <3>1 DEF Listens
    <3>2. CASE c \notin queue'
      <4>1. pc'[t] = "accept"
        BY <2>d, <2>q, <3>2
      <4> QED
        BY <4>1 DEF Listens, Accepting
    <3> QED
      BY <3>1, <3>2
  <2>1. CASE listening # NoSession
    <3>1. CASE StartAccept(t)
      BY <2>1, <3>1, NoSessionAssumption DEF StartAccept, Listens
    <3>2. CASE ~StartAccept(t)
      BY <1>5, <2>1, <3>2, ThreadMoves DEF Run, Inner, Listens
    <3> QED
      BY <3>1, <3>2
  <2>2. ASSUME NEW u \in Thread, Accepting(u) PROVE Listens'
    <3>1. CASE u # t
      BY <2>2, <2>o, <3>1 DEF Listens, Accepting
    <3>2. CASE HandleAccept(t)
      <4>1. pc[t] = "accept" /\ (cur[t].arg = "ok" => pc'[t] = "rearm")
        BY <1>5, <3>2, ThreadMoves
      <4>2. CASE cur[t].arg = "ok"
        BY <4>1, <4>2 DEF Listens, Accepting
      <4>3. CASE cur[t].arg = "error" /\ Delete(cur[t].s)
        <5>1. cur[t].s \in Session
          BY <4>1, Handled
        <5>2. client[cur[t].s] = "away"
          BY <4>1, <4>3, <5>1 DEF Away
        <5>3. object'[cur[t].s] = "deleted" /\ client' = client
          BY <1>5, <1>t, <4>3, <5>1, ThreadMoves DEF Delete
        <5> QED
          BY <5>1, <5>2, <5>3 DEF Listens, AcceptFailed
      <4> QED
        BY <3>2, <4>2, <4>3 DEF HandleAccept
    <3>3. CASE StartAccept(t)
      <4>1. CASE Exhausted
        BY <1>1, <4>1
      <4>2. CASE ~Exhausted
        <5>1. PICK x \in Session : listening' = x
          BY <3>3, <4>2 DEF StartAccept
        <5> QED
          BY <5>1, NoSessionAssumption DEF Listens
      <4> QED
        BY <4>1, <4>2
    <3>4. CASE u = t /\ (Take(t) \/ Inner(t))
      BY <1>5, <2>2, <3>4, ThreadMoves DEF Accepting, Working
    <3> QED
      BY <1>5, <3>1, <3>2, <3>3, <3>4 DEF Run, Inner
  <2>3. CASE AcceptFailed
    <3>1. ASSUME NEW s \in Session, Completion("accept", s, "error") \in queue PROVE Listens'
      BY <2>q, <3>1 DEF Completion
    <3>2. ASSUME NEW u \in Thread, pc[u] = "accept" PROVE Listens'
      BY <2>2, <3>2 DEF Accepting
    <3> QED
      BY <1>2, <2>3, <3>1, <3>2 DEF AcceptFailed
  <2> QED
    BY <1>1, <2>1, <2>2, <2>3, <2>q DEF Listens
<1> QED
  BY <1>3, <1>4, <1>5 DEF Next, Outside

(* Whatever the threads and the peers do, a session that has not been deleted *)
(* has something that will call it back, and until an accept fails the server *)
(* listens or is about to: the safety half of SessionsEnd and AcceptsAgain.   *)
THEOREM NothingForgottenHolds == Spec => []NothingForgotten
<1>1. Init => ForgetInv
  <2> SUFFICES ASSUME Init PROVE ForgetInv
    OBVIOUS
  <2>1. queue = {} /\ listening \in Session /\ \A t \in Thread : pc[t] = "idle"
    BY DEF Init
  <2>2. \A s \in Session : client[s] = "away" /\ (object[s] = "allocated" => s = listening)
    BY DEF Init
  <2> QED
    BY <2>1, <2>2, NoSessionAssumption
    DEF ForgetInv, OneAccept, Away, Kept, Awaited, Listens, Accepting
<1>2. TypeOK /\ AllAlone /\ ForgetInv /\ [Next]_vars => ForgetInv'
  <2> SUFFICES ASSUME TypeOK, AllAlone, ForgetInv, [Next]_vars PROVE ForgetInv'
    OBVIOUS
  <2>0. OneAccept /\ Listens /\ \A s \in Session : Away(s) /\ Kept(s)
    BY DEF ForgetInv
  <2>1. OneAccept'
    BY <2>0, OneAcceptStep
  <2>2. \A s \in Session : Away(s)' /\ Kept(s)'
    BY <2>0, AwayStep, KeptStep
  <2>3. Listens'
    BY <2>0, ListensStep
  <2> QED
    BY <2>1, <2>2, <2>3 DEF ForgetInv
<1>3. ForgetInv => NothingForgotten
  BY DEF ForgetInv, Kept, Awaited, Listens, Accepting, NothingForgotten
<1> QED
  BY <1>1, <1>2, <1>3, SessionInvariant, PTL DEF Spec
-----------------------------------------------------------------------------
(* What the late memset of handle_write costs.  If no thread comes to it when *)
(* the session has read its next request, only what is invalid is refused.    *)

ClearsInTime == \A t \in Thread : pc[t] = "clear" => ~Unparsed(cur[t].s)

(* A thread holds, or a write sends, the answer of s. *)
Held(s) ==
  \/ "write" \in op[s]
  \/ \E t \in Thread : cur[t].s = s /\ pc[t] \in {"log", "respond"}

Just(s) ==
  /\ \A i \in 1..Len(got[s]) : got[s][i] = 400 => asked[s][i] = "bad"
  /\ Held(s) /\ res[s] = 400 => asked[s][read[s]] = "bad"

JustInv == wiped = {} /\ \A s \in Session : Just(s)

LEMMA JustElsewhere ==
  ASSUME NEW s \in Session, Just(s), Held(s)' => Held(s),
         Held(s)' => res'[s] = res[s] /\ read'[s] = read[s],
         got'[s] = got[s], asked'[s] = asked[s]
  PROVE  Just(s)'
  BY DEF Just

(* Who holds an answer owes one. *)
LEMMA HeldOwed ==
  ASSUME TypeOK, AllOrdered, NEW s \in Session, Held(s)
  PROVE  Owed(s) /\ (op[s] # {} \/ \E t \in Thread : Busy(t, s))
<1>1. CASE "write" \in op[s]
  BY <1>1 DEF AllOrdered, Ordered, ToAnswer
<1>2. ASSUME NEW t \in Thread, cur[t].s = s, pc[t] \in {"log", "respond"}
      PROVE  Owed(s) /\ Busy(t, s)
  <2>1. Busy(t, s)
    BY <1>2 DEF Busy, Working
  <2> QED
    BY <1>2, <2>1 DEF AllOrdered, Ordered, Handles, ToAnswer
<1> QED
  BY <1>1, <1>2 DEF Held

LEMMA OutsideJust ==
  ASSUME TypeOK, AllAlone, AllOrdered, Outside, NEW s \in Session, Just(s)
  PROVE  Just(s)'
<1>a. Alone(s) /\ Ordered(s)
  BY DEF AllAlone, AllOrdered
<1>t. /\ read[s] \in Nat /\ got[s] \in Seq({0, 200, 400, 404}) /\ asked[s] \in Seq({"good", "bad"})
      /\ op[s] \subseteq {"read", "write"} /\ Len(got[s]) \in Nat /\ Len(asked[s]) \in Nat
      /\ op = [x \in Session |-> op[x]] /\ read = [x \in Session |-> read[x]]
      /\ got = [x \in Session |-> got[x]] /\ asked = [x \in Session |-> asked[x]]
  BY DEF TypeOK
<1>p. UNCHANGED <<pc, cur>>
  BY OutsideMoves
<1>1. ASSUME NEW x \in Session, Send(x) PROVE Just(s)'
  <2>1. UNCHANGED <<op, res, read, got>> /\ (Held(s)' <=> Held(s))
    BY <1>1, <1>p DEF Send, sys, Held
  <2>2. CASE x # s
    BY <1>1, <1>t, <2>1, <2>2, JustElsewhere DEF Send
  <2>3. CASE x = s
    <3>1. PICK k \in {"good", "bad"} : asked' = [asked EXCEPT ![s] = Append(@, k)]
      BY <1>1, <2>3 DEF Send
    <3>2. Len(asked[s]) = Len(got[s])
      BY <1>1, <2>3 DEF Send
    <3>3. asked'[s] = Append(asked[s], k)
      BY <1>t, <3>1
    <3>4. \A i \in 1..Len(got[s]) : asked'[s][i] = asked[s][i]
      BY <1>t, <3>2, <3>3, AppendProperties
    <3>5. ~Held(s)
      BY <1>a, <1>t, <3>2, HeldOwed DEF Ordered, Owed
    <3> QED
      BY <2>1, <3>4, <3>5 DEF Just
  <2> QED
    BY <2>2, <2>3
<1>2. ASSUME \/ CompleteAccept \/ \E x \in Session : Leave(x) PROVE Just(s)'
  <2>1. UNCHANGED <<op, res, read, got, asked>>
    BY <1>2 DEF Leave, CompleteAccept, sys
  <2> QED
    BY <1>p, <2>1, JustElsewhere DEF Held
<1>3. ASSUME NEW x \in Session, CompleteRead(x) \/ CompleteWrite(x) PROVE Just(s)'
  <2>1. UNCHANGED <<res, asked>>
    BY <1>3 DEF CompleteRead, CompleteWrite
  <2>2. CASE x # s
    <3>1. op'[s] = op[s] /\ read'[s] = read[s] /\ got'[s] = got[s]
      BY <1>3, <1>t, <2>2 DEF CompleteRead, CompleteWrite, Finish
    <3> QED
      BY <1>p, <2>1, <3>1, JustElsewhere DEF Held
  <2>3. CASE x = s
    <3>1. op[s] # {} /\ \A t \in Thread : ~Busy(t, s)
      BY <1>3, <1>a, <2>3 DEF CompleteRead, CompleteWrite, Alone, Awaited
    <3>2. op'[s] = {}
      BY <1>3, <1>a, <1>t, <2>3 DEF CompleteRead, CompleteWrite, Finish, Alone
    <3>3. ~Held(s)'
      BY <1>p, <3>1, <3>2 DEF Held, Busy, Working
    <3>4. CASE got'[s] = got[s]
      BY <2>1, <3>3, <3>4, JustElsewhere
    <3>5. CASE CompleteWrite(s) /\ got' = [got EXCEPT ![s] = Append(@, res[s])]
      <4>1. Held(s)
        BY <3>5 DEF CompleteWrite, Held
      <4>2. Owed(s)
        BY <4>1, HeldOwed
      <4>3. got'[s] = Append(got[s], res[s]) /\ res[s] \in {0, 200, 400, 404}
        BY <1>t, <3>5 DEF TypeOK
      <4>4. /\ Len(got'[s]) = Len(got[s]) + 1
            /\ \A i \in 1..Len(got[s]) : got'[s][i] = got[s][i]
            /\ got'[s][Len(got[s]) + 1] = res[s]
        BY <1>t, <4>3, AppendProperties
      <4>5. \A i \in 1..Len(got'[s]) : got'[s][i] = 400 => asked[s][i] = "bad"
        BY <1>t, <4>1, <4>2, <4>4 DEF Just, Owed
      <4> QED
        BY <2>1, <3>3, <4>5 DEF Just
    <3> QED
      BY <1>3, <2>3, <3>4, <3>5 DEF CompleteRead, CompleteWrite
  <2> QED
    BY <2>2, <2>3
<1> QED
  BY <1>1, <1>2, <1>3 DEF Outside

LEMMA ThreadJust ==
  ASSUME TypeOK, AllAlone, AllOrdered, wiped = {}, NEW t \in Thread, Run(t),
         NEW s \in Session, Just(s)
  PROVE  Just(s)'
<1>o. \A u \in Thread \ {t} : pc'[u] = pc[u] /\ cur'[u] = cur[u]
  BY OthersStay
<1>t. /\ pc \in [Thread -> {"idle", "accept", "rearm", "clear"} \cup Working]
      /\ cur \in [Thread -> Completions \cup {Nothing}]
      /\ op \in [Session -> SUBSET {"read", "write"}]
      /\ res \in [Session -> {0, 200, 400, 404}]
  BY DEF TypeOK, ThreadsOK
<1>u. UNCHANGED <<asked, read, got>>
  BY DEF Run, Take, HandleAccept, StartAccept, SendRes, Serve, LogMetrics, HandleWrite,
         ClearBuffer, WriteCallback
<1>k. ASSUME "write" \in op'[s] => Held(s),
             pc'[t] \in {"log", "respond"} /\ cur'[t].s = s => Held(s),
             res'[s] = res[s]
      PROVE  Just(s)'
  <2>1. Held(s)' => Held(s)
    BY <1>k, <1>o DEF Held
  <2> QED
    BY <1>k, <1>u, <2>1, JustElsewhere
<1>w. "write" \in op[s] => Held(s)
  BY DEF Held
<1>1. CASE Take(t) \/ StartAccept(t)
  <2>1. UNCHANGED <<op, res>>
    BY <1>1 DEF Take, StartAccept
  <2>2. CASE Take(t)
    <3>1. cur'[t] \in queue /\ pc'[t] = cur'[t].op
      BY <2>2, ThreadMoves
    <3>2. cur'[t] \in Completions
      BY <3>1 DEF TypeOK
    <3>3. pc'[t] \in {"accept", "read", "write"}
      BY <3>1, <3>2, NotNothing
    <3> QED
      BY <1>k, <1>w, <2>1, <3>3
  <2>3. CASE StartAccept(t)
    <3>1. pc'[t] = "idle"
      BY <2>3, ThreadMoves
    <3> QED
      BY <1>k, <1>w, <2>1, <3>1
  <2> QED
    BY <1>1, <2>2, <2>3
<1>2. CASE HandleAccept(t) \/ WriteCallback(t) \/ ClearBuffer(t)
  <2>1. UNCHANGED res /\ ("write" \in op'[s] => "write" \in op[s])
    BY <1>2, <1>t DEF HandleAccept, WriteCallback, ClearBuffer, Onward, Start
  <2>2. pc'[t] \notin {"log", "respond"}
    BY <1>2, <1>t DEF HandleAccept, ListenAgain, WriteCallback, ClearBuffer, Goto, Return
  <2> QED
    BY <1>k, <1>w, <2>1, <2>2
<1>3. CASE SendRes(t) \/ Serve(t)
  <2>1. UNCHANGED op /\ cur[t].s \in Session
    BY <1>3, Handled DEF SendRes, Serve
  <2>2. CASE cur[t].s # s
    <3>1. res'[s] = res[s]
      BY <1>3, <2>2 DEF SendRes, Serve, Refuse, TypeOK
    <3>2. pc'[t] \in {"log", "respond"} => cur'[t].s # s
      BY <1>3, <1>t, <2>2 DEF SendRes, Serve, Goto, Return
    <3> QED
      BY <1>k, <1>w, <2>1, <3>1, <3>2
  <2>3. CASE cur[t].s = s /\ Serve(t)
    <3>1. res'[s] # 400
      BY <1>t, <2>3 DEF Serve, Answers
    <3> QED
      BY <1>u, <3>1 DEF Just
  <2>4. CASE cur[t].s = s /\ SendRes(t)
    <3>1. CASE cur[t].arg = "bad"
      <4>1. Busy(t, s) /\ pc[t] = "read"
        BY <2>4 DEF SendRes, Busy, Working
      <4>2. Carries(cur[t], s) /\ cur[t].op = "read"
        BY <4>1 DEF AllOrdered, Ordered, Handles
      <4>3. asked[s][read[s]] = "bad"
        BY <3>1, <4>2 DEF Carries
      <4> QED
        BY <1>u, <4>3 DEF Just
    <3>2. CASE cur[t].arg # "bad"
      <4>1. UNCHANGED res /\ (Return(t) \/ Goto(t, "serve"))
        BY <2>4, <3>2 DEF SendRes
      <4>2. pc'[t] \notin {"log", "respond"}
        BY <1>t, <4>1 DEF Return, Goto
      <4> QED
        BY <1>k, <1>w, <2>1, <4>1, <4>2
    <3> QED
      BY <3>1, <3>2
  <2> QED
    BY <1>3, <2>2, <2>3, <2>4
<1>4. CASE LogMetrics(t) \/ HandleWrite(t)
  <2>1. UNCHANGED res /\ pc[t] \in {"log", "respond"}
    BY <1>4 DEF LogMetrics, HandleWrite
  <2>2. cur[t].s = s => Held(s)
    BY <2>1 DEF Held
  <2>3. cur[t].s # s => op'[s] = op[s]
    BY <1>4, <1>t DEF LogMetrics, HandleWrite, Write, Start
  <2>4. pc'[t] \in {"log", "respond"} => cur'[t] = cur[t]
    BY <1>4, <1>t DEF LogMetrics, HandleWrite, Goto, Return
  <2> QED
    BY <1>k, <1>w, <2>1, <2>2, <2>3, <2>4
<1> QED
  BY <1>1, <1>2, <1>3, <1>4 DEF Run

LEMMA JustStep ==
  ASSUME TypeOK, AllAlone, AllOrdered, JustInv, ClearsInTime, [Next]_vars
  PROVE  JustInv'
<1>1. wiped' = {}
  <2>1. CASE UNCHANGED vars
    BY <2>1 DEF vars, JustInv
  <2>2. CASE Outside
    BY <2>2 DEF Outside, CompleteAccept, Send, Leave, CompleteRead, CompleteWrite, sys, JustInv
  <2>3. ASSUME NEW t \in Thread, Run(t) PROVE wiped' = {}
    BY <2>3 DEF Run, Take, HandleAccept, StartAccept, SendRes, Serve, LogMetrics, HandleWrite,
                ClearBuffer, WriteCallback, JustInv, ClearsInTime
  <2> QED
    BY <2>1, <2>2, <2>3 DEF Next, Outside
<1>2. ASSUME NEW s \in Session PROVE Just(s)'
  <2>1. CASE UNCHANGED vars
    BY <2>1, JustElsewhere DEF vars, JustInv, Held
  <2>2. CASE Next
    BY <2>2, OutsideJust, ThreadJust DEF Next, Outside, JustInv
  <2> QED
    BY <2>1, <2>2
<1> QED
  BY <1>1, <1>2 DEF JustInv

(* If no thread comes to the memset after write_callback has read the next    *)
(* request, only what does not parse is refused: the late memset is all that  *)
(* a valid request is refused by.                                             *)
THEOREM TimelyRefusedIsInvalid == Spec /\ []ClearsInTime => []RefusedIsInvalid
<1>1. Init => JustInv
  <2> SUFFICES ASSUME Init PROVE JustInv
    OBVIOUS
  <2>1. wiped = {} /\ \A s \in Session : got[s] = <<>> /\ ~Held(s)
    BY DEF Init, Held
  <2> QED
    BY <2>1 DEF JustInv, Just
<1>2. TypeOK /\ AllAlone /\ AllOrdered /\ JustInv /\ ClearsInTime /\ [Next]_vars => JustInv'
  BY JustStep
<1>3. JustInv => RefusedIsInvalid
  BY DEF JustInv, Just, RefusedIsInvalid
<1> QED
  BY <1>1, <1>2, <1>3, OrderInvariant, PTL DEF Spec

(* A thread at the memset of s: only the write it has started goes on there.  *)
WriteOnly(s) == "read" \notin op[s] /\ s # listening /\ \A c \in queue : c.s = s => c.op = "write"
ClearsAlone  == \A t \in Thread : pc[t] = "clear" => WriteOnly(cur[t].s)

LEMMA ClearsAloneStep ==
  ASSUME \A t, u \in Thread : t = u, TypeOK, AllAlone, ClearsAlone, [Next]_vars
  PROVE  ClearsAlone'
<1>t. /\ pc \in [Thread -> {"idle", "accept", "rearm", "clear"} \cup Working]
      /\ op \in [Session -> SUBSET {"read", "write"}]
  BY DEF TypeOK, ThreadsOK
<1> SUFFICES ASSUME NEW t \in Thread, pc'[t] = "clear" PROVE WriteOnly(cur[t].s)'
  BY DEF ClearsAlone
<1>1. CASE UNCHANGED vars
  BY <1>1 DEF vars, ClearsAlone, WriteOnly
<1>2. CASE Outside
  <2>1. pc[t] = "clear" /\ cur'[t] = cur[t]
    BY <1>2, OutsideMoves
  <2> PICK s \in Session : s = cur[t].s
    BY <2>1, Handled
  <2>2. WriteOnly(s)
    BY <2>1 DEF ClearsAlone
  <2>3. ASSUME UNCHANGED <<queue, listening, op>> PROVE WriteOnly(s)'
    BY <2>2, <2>3 DEF WriteOnly
  <2>4. ASSUME NEW a, queue' = queue \cup {Completion("accept", listening, a)},
               listening' = NoSession, UNCHANGED op
        PROVE  WriteOnly(s)'
    <3>1. Completion("accept", listening, a).s = listening
      BY DEF Completion
    <3> QED
      BY <2>2, <2>4, <3>1, NoSessionAssumption DEF WriteOnly
  <2>5. ASSUME NEW x \in Session, CompleteRead(x) \/ CompleteWrite(x) PROVE WriteOnly(s)'
    <3>1. PICK o \in op[x] : /\ Finish(o, x) /\ UNCHANGED listening
                             /\ \E a : queue' = queue \cup {Completion(o, x, a)}
      BY <2>5 DEF CompleteRead, CompleteWrite
    <3>2. op'[s] \subseteq op[s] /\ o \in {"read", "write"}
      BY <1>t, <2>2, <3>1 DEF Finish
    <3>3. \A a : Completion(o, x, a).s = x /\ Completion(o, x, a).op = o
      BY DEF Completion
    <3>4. x = s => o = "write"
      BY <2>2, <3>1, <3>2 DEF WriteOnly
    <3> QED
      BY <2>2, <3>1, <3>2, <3>3, <3>4 DEF WriteOnly
  <2>6. WriteOnly(s)'
    <3>1. CASE CompleteAccept
      BY <2>4, <3>1 DEF CompleteAccept
    <3>2. CASE \E x \in Session : Send(x) \/ Leave(x)
      BY <2>3, <3>2 DEF Send, Leave, sys
    <3> QED
      BY <1>2, <2>5, <3>1, <3>2 DEF Outside
  <2> QED
    BY <2>1, <2>6
<1>3. ASSUME NEW u \in Thread, Run(u) PROVE WriteOnly(cur[t].s)'
  <2>1. u = t
    OBVIOUS
  <2>2. HandleWrite(t)
    <3>1. ~Take(t) /\ ~HandleAccept(t) /\ ~StartAccept(t)
      BY <1>3, <2>1, ThreadMoves, NotNothing DEF TypeOK
    <3>2. ~SendRes(t) /\ ~Serve(t) /\ ~LogMetrics(t) /\ ~ClearBuffer(t) /\ ~WriteCallback(t)
      BY <1>t DEF SendRes, Serve, LogMetrics, ClearBuffer, WriteCallback, Goto, Return
    <3> QED
      BY <1>3, <2>1, <3>1, <3>2 DEF Run
  <2>3. /\ pc[t] = "respond" /\ UNCHANGED <<listening, queue>> /\ Start("write", cur[t].s)
        /\ cur' = cur
    BY <1>t, <2>2 DEF HandleWrite, Write, Goto, Return
  <2>4. cur[t].s \in Session /\ Busy(t, cur[t].s)
    BY <2>3, Handled DEF Busy, Working
  <2>5. op'[cur[t].s] = {"write"} /\ cur[t].s # listening /\ \A c \in queue : c.s # cur[t].s
    BY <1>t, <2>3, <2>4, OnlyHandler DEF Start
  <2> QED
    BY <2>3, <2>5 DEF WriteOnly
<1> QED
  BY <1>1, <1>2, <1>3 DEF Next, Outside

(* On a machine with one hardware thread, whose pool is one thread, only what *)
(* does not parse is refused.                                                 *)
THEOREM OneThreadRefusedIsInvalid ==
  ASSUME \A t, u \in Thread : t = u
  PROVE  Spec => []RefusedIsInvalid
<1>1. Init => ClearsAlone
  BY DEF Init, ClearsAlone
<1>2. TypeOK /\ AllAlone /\ ClearsAlone /\ [Next]_vars => ClearsAlone'
  BY ClearsAloneStep
<1>3. ClearsAlone => ClearsInTime
  <2> SUFFICES ASSUME ClearsAlone, NEW t \in Thread, pc[t] = "clear" PROVE ~Unparsed(cur[t].s)
    BY DEF ClearsInTime
  <2>1. \A u \in Thread : pc[u] # "read"
    OBVIOUS
  <2> QED
    BY <2>1 DEF ClearsAlone, WriteOnly, Unparsed
<1> QED
  BY <1>1, <1>2, <1>3, TimelyRefusedIsInvalid, SessionInvariant, PTL DEF Spec

(* On one pool thread no thread uses a deleted session, the memset included:  *)
(* only the thread that would delete it can be there.                         *)
THEOREM OneThreadNoDangling ==
  ASSUME \A t, u \in Thread : t = u
  PROVE  Spec => [](NoDangling /\ \A s \in Session, t \in Thread :
                                    Uses(t, s) => object[s] = "allocated")
<1> DEFINE Cleared == \A t \in Thread : pc[t] = "clear" => object[cur[t].s] = "allocated"
<1>1. Init => Cleared
  BY DEF Init
<1>2. TypeOK /\ AllAlone /\ Cleared /\ [Next]_vars => Cleared'
  <2> SUFFICES ASSUME TypeOK, AllAlone, Cleared, [Next]_vars, NEW t \in Thread, pc'[t] = "clear"
               PROVE  object'[cur'[t].s] = "allocated"
    OBVIOUS
  <2>t. pc \in [Thread -> {"idle", "accept", "rearm", "clear"} \cup Working]
    BY DEF TypeOK, ThreadsOK
  <2>1. CASE UNCHANGED vars
    BY <2>1 DEF vars
  <2>2. CASE Outside
    <3>1. pc[t] = "clear" /\ cur'[t] = cur[t]
      BY <2>2, OutsideMoves
    <3>2. UNCHANGED object
      BY <2>2 DEF Outside, CompleteAccept, Send, Leave, CompleteRead, CompleteWrite, sys
    <3> QED
      BY <3>1, <3>2
  <2>3. ASSUME NEW u \in Thread, Run(u) PROVE object'[cur'[t].s] = "allocated"
    <3>1. u = t
      OBVIOUS
    <3>2. HandleWrite(t)
      <4>1. ~Take(t) /\ ~HandleAccept(t) /\ ~StartAccept(t)
        BY <2>3, <3>1, ThreadMoves, NotNothing DEF TypeOK
      <4>2. ~SendRes(t) /\ ~Serve(t) /\ ~LogMetrics(t) /\ ~ClearBuffer(t) /\ ~WriteCallback(t)
        BY <2>t DEF SendRes, Serve, LogMetrics, ClearBuffer, WriteCallback, Goto, Return
      <4> QED
        BY <2>3, <3>1, <4>1, <4>2 DEF Run
    <3>3. pc[t] = "respond" /\ UNCHANGED <<object, cur>>
      BY <2>t, <3>2 DEF HandleWrite, Goto, Return
    <3>4. cur[t].s \in Session /\ Busy(t, cur[t].s)
      BY <3>3, Handled DEF Busy, Working
    <3> QED
      BY <3>3, <3>4 DEF AllAlone, Alone
  <2> QED
    BY <2>1, <2>2, <2>3 DEF Next, Outside
<1>3. TypeOK /\ AllAlone /\ Cleared =>
        NoDangling /\ \A s \in Session, t \in Thread : Uses(t, s) => object[s] = "allocated"
  BY AloneSuffices DEF AllAlone, Alone, Uses, AtMemset
<1> HIDE DEF Cleared
<1> QED
  BY <1>1, <1>2, <1>3, SessionInvariant, PTL DEF Spec
=============================================================================
