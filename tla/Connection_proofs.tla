--------------------------- MODULE Connection_proofs ---------------------------
(* Proofs about Connection for one thread: buffers of any size with whatever  *)
(* they contain, requests of any length in any pieces, any configuration.     *)
EXTENDS Connection, CrudRefinesStore_proofs, WellFoundedInduction

-----------------------------------------------------------------------------
(* match. *)

(* A bounded set of numbers has a greatest. *)
LEMMA Greatest ==
  ASSUME NEW N \in Nat, NEW S \in SUBSET (0..N), S # {}
  PROVE  \E m \in S : \A k \in S : k <= m
<1> DEFINE T == {N - k : k \in S}
<1>1. T \in SUBSET Nat
  <2>1. \A k \in S : N - k \in Nat
    OBVIOUS
  <2> QED
    BY <2>1
<1>2. T # {}
  OBVIOUS
<1>3. PICK m \in T : \A k \in T : ~(<<k, m>> \in OpToRel(<, Nat))
  BY <1>1, <1>2, WFMin, NatLessThanWellFounded
<1>4. PICK j \in S : m = N - j
  OBVIOUS
<1>5. \A k \in S : ~(N - k < m)
  <2> TAKE k \in S
  <2>1. N - k \in T /\ N - k \in Nat /\ m \in Nat
    BY <1>1
  <2> HIDE DEF T
  <2> QED
    BY <1>3, <2>1 DEF OpToRel
<1>6. \A k \in S : k <= j
  <2> TAKE k \in S
  <2>1. k \in Nat /\ j \in Nat /\ ~(N - k < N - j)
    BY <1>4, <1>5
  <2> QED
    BY <2>1
<1> QED
  BY <1>6

LEMMA PrefixMeans ==
  ASSUME NEW S, NEW p \in Seq(S), NEW t \in Seq(S)
  PROVE  Strings!IsPrefix(p, t) <=> Len(p) <= Len(t) /\ \A i \in 1..Len(p) : p[i] = t[i]
<1>1. CASE Len(p) <= Len(t)
  <2>1. /\ SubSeq(p, 1, Len(p)) \in Seq(S) /\ Len(SubSeq(p, 1, Len(p))) = Len(p)
        /\ SubSeq(t, 1, Len(p)) \in Seq(S) /\ Len(SubSeq(t, 1, Len(p))) = Len(p)
    BY <1>1
  <2>2. \A i \in 1..Len(p) : SubSeq(p, 1, Len(p))[i] = p[i] /\ SubSeq(t, 1, Len(p))[i] = t[i]
    BY <1>1
  <2> QED
    BY <1>1, <2>1, <2>2, SeqEqual DEF Strings!IsPrefix
<1> QED
  BY <1>1 DEF Strings!IsPrefix

(* Of two beginnings of one string, the shorter is the less. *)
LEMMA ShorterIsLess ==
  ASSUME NEW t \in Seq(Nat), NEW p \in Seq(Nat), NEW q \in Seq(Nat),
         Strings!IsPrefix(p, t), Strings!IsPrefix(q, t)
  PROVE  /\ Less(p, q) => Len(p) <= Len(q)
         /\ Len(p) < Len(q) => Less(p, q)
         /\ Len(p) = Len(q) => p = q
<1>1. /\ Len(p) \in Nat /\ Len(p) <= Len(t) /\ \A i \in 1..Len(p) : p[i] = t[i] /\ p[i] \in Nat
      /\ Len(q) \in Nat /\ Len(q) <= Len(t) /\ \A i \in 1..Len(q) : q[i] = t[i] /\ q[i] \in Nat
  BY PrefixMeans
<1>2. Len(p) <= Len(q) <=> Strings!IsPrefix(p, q)
  BY <1>1, PrefixMeans
<1>3. \A k \in 1..Len(p) : k <= Len(q) => ~(p[k] < q[k])
  BY <1>1
<1>4. Less(p, q) => Len(p) <= Len(q)
  BY <1>2, <1>3 DEF Less
<1>5. Len(p) < Len(q) => Less(p, q)
  BY <1>1, <1>2 DEF Less
<1>6. Len(p) = Len(q) => p = q
  BY <1>1, SeqEqual
<1> QED
  BY <1>4, <1>5, <1>6

(* The first location from the end that fits a target is the longest. *)
LEMMA FirstIsLongest ==
  ASSUME NEW S, NEW t \in Seq(Nat), S # {}, \A u \in S : u \in Seq(Nat) /\ Strings!IsPrefix(u, t)
  PROVE  First(S) \in S /\ \A u \in S : Len(u) <= Len(First(S))
<1>1. PICK v \in S : \A u \in S : Len(u) <= Len(v)
  <2> DEFINE L == {Len(u) : u \in S}
  <2>a. Len(t) \in Nat /\ \A u \in S : Len(u) \in Nat /\ Len(u) <= Len(t)
    BY DEF Strings!IsPrefix
  <2>b. \A l \in L : l \in 0..Len(t)
    BY <2>a
  <2>2. L \in SUBSET (0..Len(t)) /\ L # {} /\ Len(t) \in Nat
    BY <2>a, <2>b
  <2> HIDE DEF L
  <2>3. PICK m \in L : \A k \in L : k <= m
    BY <2>2, Greatest
  <2> QED
    BY <2>3 DEF L
<1>2. \A u \in S : u = v \/ Less(u, v)
  BY <1>1, ShorterIsLess
<1>3. First(S) \in S /\ \A u \in S : u = First(S) \/ Less(u, First(S))
  BY <1>1, <1>2 DEF First
<1> QED
  BY <1>3, ShorterIsLess

RouteInv ==
  /\ config \in Configs /\ sent \in Asked
  /\ step \in {"serve", "reply"} => location = match(Map, Wanted)

LEMMA RouteInit == ConnInit => RouteInv
  BY AskedAssumption DEF ConnInit, RouteInv

LEMMA RouteNext == RouteInv /\ [ConnNext]_connVars => RouteInv'
<1> SUFFICES ASSUME RouteInv, [ConnNext]_connVars PROVE RouteInv'
  OBVIOUS
<1>1. ASSUME NEW w \in Worker, NEW n \in 1..MaxLength, Dispatch(w, n) PROVE RouteInv'
  BY <1>1 DEF Dispatch, RouteInv, Map, Wanted
<1>2. ASSUME NEW w \in Worker, Handle(w) \/ Finish(w) PROVE RouteInv'
  BY <1>2 DEF Handle, Finish, RouteInv, conn, Map, Wanted
<1>3. ASSUME NEW n \in 1..MaxLength, Refuse(n) PROVE RouteInv'
  BY <1>3 DEF Refuse, Read, RouteInv, Map
<1>4. CASE Ask \/ Reconnect
  BY <1>4 DEF Ask, Reconnect, RouteInv, Map
<1>5. CASE UNCHANGED connVars
  BY <1>5 DEF connVars, conn, RouteInv, Map, Wanted
<1> QED
  BY <1>1, <1>2, <1>3, <1>4, <1>5 DEF ConnNext

LEMMA WantedType ==
  ASSUME sent \in Asked
  PROVE  Wanted \in Seq(Nat) /\ ~Strings!IsPrefix(NotFoundHandler, Wanted)
BY AskedAssumption, RootAssumption DEF Wanted

(* What is matched goes to the longest location that match does not skip, for *)
(* every configuration and every target (session.cc:183-205).                 *)
THEOREM LongestMatchHolds == ConnSpec => []LongestMatch
<1>1. RouteInv => LongestMatch
  <2> SUFFICES ASSUME RouteInv, step \in {"serve", "reply"},
                      NEW u \in Matching(Map, Wanted)
               PROVE  location # NotFoundHandler /\ Len(u) <= Len(location)
    BY DEF LongestMatch
  <2> DEFINE S == Matching(Map, Wanted)
  <2>1. Wanted \in Seq(Nat) /\ ~Strings!IsPrefix(NotFoundHandler, Wanted)
    BY WantedType DEF RouteInv
  <2>2. \A v \in S : v \in Seq(Nat) /\ Strings!IsPrefix(v, Wanted)
    BY ConfigAssumption DEF RouteInv, Matching, Map
  <2>3. location = First(S)
    BY DEF RouteInv, match
  <2> HIDE DEF S
  <2>4. location \in S /\ \A v \in S : Len(v) <= Len(location)
    BY <2>1, <2>2, <2>3, FirstIsLongest DEF S
  <2> QED
    BY <2>1, <2>2, <2>4 DEF S
<1> QED
  BY <1>1, RouteInit, RouteNext, PTL DEF ConnSpec
-----------------------------------------------------------------------------
(* The buffer. *)

LEMMA Texts ==
  ASSUME NEW a \in Asked
  PROVE  /\ a.req.body \in Seq(Cell) /\ Header \in Seq({"line", "end"}) /\ Len(Header) = 2
         /\ Len(a.req.body) \in Nat /\ Len(Wire(a)) = 2 + Len(a.req.body)
         /\ \A i \in 1..2 : Wire(a)[i] = Header[i]
         /\ \A i \in 3..Len(Wire(a)) : Wire(a)[i] = a.req.body[i - 2]
<1>1. a.req \in Request
  BY AskedAssumption
<1>2. a.req.body \in Seq(Cell)
  BY <1>1, BodyAssumption DEF Request
<1>3. Header \in Seq({"line", "end"}) /\ Len(Header) = 2
  BY DEF Header
<1> DEFINE C == Cell \cup {"line", "end"}
<1>4. Header \in Seq(C) /\ a.req.body \in Seq(C)
  BY <1>2, <1>3
<1>5. Wire(a) = Header \o a.req.body
  BY DEF Wire
<1> DEFINE b == a.req.body
<1> HIDE DEF C, b
<1>6. /\ Len(Header \o b) = Len(Header) + Len(b)
      /\ \A i \in 1..Len(Header) + Len(b) :
           (Header \o b)[i] = IF i <= Len(Header) THEN Header[i] ELSE b[i - Len(Header)]
  <2>1. Header \in Seq(C) /\ b \in Seq(C)
    BY <1>4 DEF b
  <2> QED
    BY <2>1, ConcatProperties
<1>7. Len(b) \in Nat /\ Wire(a) = Header \o b
  BY <1>2, <1>5 DEF b
<1> QED
  BY <1>2, <1>3, <1>6, <1>7 DEF b

(* What has been sent and not read is the end of the request; what is in a    *)
(* buffer that has been cleared, and what a request is served with.           *)
WireInv ==
  /\ Len(wire) <= Len(Wire(sent))
  /\ \A k \in 1..Len(wire) : wire[k] = Wire(sent)[Len(Wire(sent)) - Len(wire) + k]

BufferInv ==
  /\ data \in [1..MaxLength -> Bytes]
  /\ step = "read" /\ cleared => data = Clear

TextInv ==
  \A w \in Worker : step = "serve" =>
    /\ Strings!IsPrefix(Arrived, req[w].body)
    /\ Arrived = <<>> \/ cleared => req[w].body = Arrived

ConnInv ==
  /\ sent \in Asked /\ wire \in Seq(Bytes)
  /\ WireInv /\ BufferInv /\ TextInv

(* Where the string in d, a buffer of M cells, may end. *)
Unended(d, i) == \A j \in 3..i : d[j] # NUL
Ends(d, M, i) == Unended(d, i) /\ (i < M => ~Unended(d, i + 1))

LEMMA StringEnds ==
  ASSUME NEW d, NEW M \in Nat, NEW n \in 2..M, Unended(d, n)
  PROVE  \E i \in 2..M : Ends(d, M, i)
<1> DEFINE S == {i \in 0..M : n <= i /\ Unended(d, i)}
<1>1. n \in S
  OBVIOUS
<1>2. PICK m \in S : \A k \in S : k <= m
  <2> HIDE DEF S
  <2>1. S \in SUBSET (0..M)
    BY DEF S
  <2> QED
    BY <1>1, <2>1, Greatest
<1>3. m < M => ~Unended(d, m + 1)
  <2> SUFFICES ASSUME m < M, Unended(d, m + 1) PROVE FALSE
    OBVIOUS
  <2>1. m + 1 \in S /\ ~(m + 1 <= m)
    OBVIOUS
  <2> QED
    BY <1>2, <2>1
<1> QED
  BY <1>3 DEF Ends

LEMMA EndIsBehind ==
  ASSUME NEW d, NEW M \in Nat, NEW n \in 2..M, Unended(d, n), NEW e \in 2..M, Ends(d, M, e)
  PROVE  e >= n /\ ((\A i \in (n + 1)..M : d[i] = NUL) => e = n)
<1>1. ASSUME e < n PROVE FALSE
  <2>1. Unended(d, e + 1)
    BY <1>1 DEF Unended
  <2> QED
    BY <1>1, <2>1 DEF Ends
<1>2. ASSUME \A i \in (n + 1)..M : d[i] = NUL, e > n PROVE FALSE
  <2>1. n + 1 \in 3..e /\ n + 1 \in (n + 1)..M
    BY <1>2
  <2> QED
    BY <1>2, <2>1 DEF Ends, Unended
<1> QED
  BY <1>1, <1>2

(* What begins with a head is the request from its start. *)
LEMMA FromStart ==
  ASSUME ConnInv, NEW n \in 1..MaxLength, Read(n), Parses(n)
  PROVE  /\ n \in 2..Len(Wire(sent))
         /\ \A i \in 1..n : wire[i] = Wire(sent)[i]
         /\ Arrived' = SubSeq(sent.req.body, 1, n - 2) \/ sent' # sent
<1> DEFINE W == Wire(sent)  b == sent.req.body
<1>1. /\ b \in Seq(Cell) /\ Len(b) \in Nat /\ Len(W) = 2 + Len(b) /\ Len(Header) = 2
      /\ \A i \in 1..2 : W[i] = Header[i]
      /\ \A i \in 3..Len(W) : W[i] = b[i - 2]
  BY Texts DEF ConnInv
<1>2. /\ wire \in Seq(Bytes) /\ Len(wire) \in Nat /\ Len(wire) <= Len(W)
      /\ \A k \in 1..Len(wire) : wire[k] = W[Len(W) - Len(wire) + k]
  BY DEF ConnInv, WireInv
<1>3. n \in Nat /\ n >= 2 /\ n <= Len(wire) /\ wire[1] = "line"
  BY <1>1, BufferAssumption DEF Parses, Read, Header
<1>4. \A i \in 2..Len(W) : W[i] # "line"
  <2> SUFFICES ASSUME NEW i \in 2..Len(W) PROVE W[i] # "line"
    OBVIOUS
  <2>1. CASE i = 2
    BY <1>1, <2>1 DEF Header
  <2>2. CASE i # 2
    <3>1. i \in 3..Len(W) /\ i - 2 \in 1..Len(b)
      BY <1>1, <2>2
    <3>2. W[i] = b[i - 2] /\ b[i - 2] \in Cell
      BY <1>1, <3>1
    <3> QED
      BY <3>2, BufferAssumption
  <2> QED
    BY <2>1, <2>2
<1> HIDE DEF W, b
<1>5. Len(wire) = Len(W)
  <2> SUFFICES ASSUME Len(wire) # Len(W) PROVE FALSE
    OBVIOUS
  <2>1. Len(W) - Len(wire) + 1 \in 2..Len(W) /\ 1 \in 1..Len(wire)
    BY <1>1, <1>2, <1>3
  <2> QED
    BY <1>2, <1>3, <1>4, <2>1
<1>6. \A i \in 1..n : wire[i] = W[i]
  <2> TAKE i \in 1..n
  <2>1. i \in 1..Len(wire) /\ Len(W) - Len(wire) + i = i
    BY <1>1, <1>2, <1>3, <1>5
  <2> QED
    BY <1>2, <2>1
<1>7. Len(wire') = Len(wire) - n
  BY <1>2, <1>3 DEF Read
<1>8. ASSUME sent' = sent PROVE Arrived' = SubSeq(b, 1, n - 2)
  <2>1. Len(b) - Len(wire') = n - 2
    BY <1>1, <1>3, <1>5, <1>7
  <2> QED
    BY <1>8, <2>1 DEF Arrived, b
<1> QED
  BY <1>1, <1>3, <1>5, <1>6, <1>8 DEF W, b

(* The handler gets the text that has arrived, and what follows it.           *)
LEMMA TextOf ==
  ASSUME ConnInv, NEW n \in 1..MaxLength, Read(n), Parses(n), sent' = sent
  PROVE  /\ Strings!IsPrefix(Arrived', BodyOf(n))
         /\ Arrived' = <<>> \/ cleared => BodyOf(n) = Arrived'
<1> PICK b : b = SubSeq(sent.req.body, 1, n - 2)
  OBVIOUS
<1> DEFINE d == data'
           e == StringEnd'
<1>1. /\ b \in Seq(Cell) /\ Len(b) \in Nat /\ n = 2 + Len(b) /\ Len(Header) = 2
      /\ \A i \in 3..n : Wire(sent)[i] = b[i - 2]
  <2>1. /\ sent.req.body \in Seq(Cell) /\ Len(sent.req.body) \in Nat
        /\ Len(Wire(sent)) = 2 + Len(sent.req.body) /\ Len(Header) = 2
        /\ \A i \in 3..Len(Wire(sent)) : Wire(sent)[i] = sent.req.body[i - 2]
    BY Texts DEF ConnInv
  <2>2. n \in 2..Len(Wire(sent)) /\ n - 2 \in 0..Len(sent.req.body)
    BY <2>1, FromStart
  <2>3. b \in Seq(Cell) /\ Len(b) = n - 2 /\ \A i \in 1..n - 2 : b[i] = sent.req.body[i]
    BY <2>1, <2>2
  <2> QED
    BY <2>1, <2>2, <2>3
<1>2. MaxLength \in Nat /\ n \in 2..MaxLength /\ NUL \notin Cell
  BY <1>1, BufferAssumption
<1>3. (\A i \in 1..n : wire[i] = Wire(sent)[i]) /\ Arrived' = b
  BY FromStart
<1>4. /\ \A i \in 3..n : d[i] = b[i - 2] /\ d[i] # NUL
      /\ \A i \in (n + 1)..MaxLength : d[i] = data[i]
  <2>1. \A i \in 3..n : b[i - 2] \in Cell
    BY <1>1
  <2>2. d = [i \in 1..MaxLength |-> IF i <= n THEN wire[i] ELSE data[i]]
    BY DEF Read
  <2> QED
    BY <1>1, <1>2, <1>3, <2>1, <2>2
<1>5. d \in Seq(Bytes) /\ Len(d) = MaxLength
  <2>1. \A i \in 1..n : wire[i] \in Bytes
    BY DEF ConnInv, Read
  <2>2. d \in [1..MaxLength -> Bytes]
    BY <2>1 DEF ConnInv, BufferInv, Read
  <2> QED
    BY <1>2, <2>2
<1>6. e \in n..MaxLength /\ ((\A i \in (n + 1)..MaxLength : d[i] = NUL) => e = n)
  <2>1. Unended(d, n)
    BY <1>4 DEF Unended
  <2>2. e = CHOOSE i \in 2..MaxLength : Ends(d, MaxLength, i)
    BY <1>1 DEF StringEnd, InString, Ends, Unended
  <2>3. \E i \in 2..MaxLength : Ends(d, MaxLength, i)
    BY <1>2, <2>1, StringEnds
  <2> HIDE DEF d, e
  <2>4. e \in 2..MaxLength /\ Ends(d, MaxLength, e)
    BY <2>2, <2>3
  <2>5. e >= n /\ ((\A i \in (n + 1)..MaxLength : d[i] = NUL) => e = n)
    BY <1>2, <2>1, <2>4, EndIsBehind
  <2> QED
    BY <1>2, <2>4, <2>5
<1>7. String' = SubSeq(d, 3, e)
  BY <1>1 DEF String
<1>8. /\ SubSeq(d, 3, e) \in Seq(Bytes) /\ Len(SubSeq(d, 3, e)) = e - 2
      /\ \A i \in 1..(e - 2) : SubSeq(d, 3, e)[i] = d[i + 2]
  <2> HIDE DEF d, e
  <2> QED
    BY <1>2, <1>5, <1>6
<1>9. b \in Seq(Bytes)
  BY <1>1 DEF Bytes
<1>10. CASE b = <<>>
  <2>1. BodyOf(n) = <<>>
    BY <1>1, <1>10 DEF BodyOf
  <2>2. Strings!IsPrefix(<<>>, <<>>)
    BY DEF Strings!IsPrefix
  <2> QED
    BY <1>3, <1>10, <2>1, <2>2
<1>11. CASE b # <<>>
  <2>1. BodyOf(n) = SubSeq(d, 3, e)
    <3>1. Len(b) # 0
      BY <1>1, <1>11, EmptySeq
    <3>2. n > 2
      BY <1>1, <3>1
    <3> HIDE DEF d, e
    <3> QED
      BY <1>1, <1>7, <3>2 DEF BodyOf
  <2> HIDE DEF d, e
  <2>2. Len(b) <= e - 2 /\ \A i \in 1..Len(b) : b[i] = SubSeq(d, 3, e)[i]
    BY <1>1, <1>2, <1>4, <1>6, <1>8
  <2>3. Strings!IsPrefix(b, SubSeq(d, 3, e))
    BY <1>8, <1>9, <2>2, PrefixMeans
  <2>4. ASSUME cleared PROVE SubSeq(d, 3, e) = b
    <3>1. \A i \in (n + 1)..MaxLength : d[i] = NUL
      BY <1>2, <1>4, <2>4 DEF ConnInv, BufferInv, Read, Clear
    <3>2. e - 2 = Len(b)
      BY <1>1, <1>6, <3>1
    <3> QED
      BY <1>8, <1>9, <2>2, <3>2, SeqEqual
  <2> QED
    BY <1>3, <1>11, <2>1, <2>3, <2>4
<1> QED
  BY <1>10, <1>11

LEMMA ConnInvInit == ConnInit => ConnInv
<1> SUFFICES ASSUME ConnInit PROVE ConnInv
  OBVIOUS
<1>1. sent \in Asked /\ wire = <<>>
  BY AskedAssumption DEF ConnInit
<1>2. WireInv
  BY <1>1, Texts DEF WireInv
<1>3. data \in [1..MaxLength -> Bytes] /\ ~cleared /\ step = "read"
  BY BufferAssumption DEF ConnInit, Bytes
<1> QED
  BY <1>1, <1>2, <1>3 DEF ConnInv, BufferInv, TextInv

(* What a read leaves to be read, and puts into the buffer. *)
LEMMA ReadInv ==
  ASSUME ConnInv, NEW n \in 1..MaxLength, Read(n), sent' = sent
  PROVE  /\ sent' \in Asked /\ wire' \in Seq(Bytes) /\ WireInv'
         /\ data' \in [1..MaxLength -> Bytes]
<1>1. MaxLength \in Nat /\ wire \in Seq(Bytes) /\ Len(wire) \in Nat /\ n <= Len(wire)
  BY BufferAssumption DEF ConnInv, Read
<1>2. wire' \in Seq(Bytes) /\ Len(wire') = Len(wire) - n
  BY <1>1 DEF Read
<1>3. Len(wire) <= Len(Wire(sent)) /\ Len(Wire(sent)) \in Nat
  BY Texts DEF ConnInv, WireInv
<1>4. WireInv'
  <2>1. Wire(sent)' = Wire(sent)
    BY DEF Wire
  <2>2. ASSUME NEW k \in 1..Len(wire')
        PROVE  wire'[k] = Wire(sent)[Len(Wire(sent)) - Len(wire') + k]
    <3>1. wire'[k] = wire[n + k] /\ n + k \in 1..Len(wire)
      BY <1>1, <1>2 DEF Read
    <3>2. Len(Wire(sent)) - Len(wire) + (n + k) = Len(Wire(sent)) - Len(wire') + k
      BY <1>1, <1>2, <1>3
    <3>3. wire[n + k] = Wire(sent)[Len(Wire(sent)) - Len(wire) + (n + k)]
      BY <3>1 DEF ConnInv, WireInv
    <3> QED
      BY <3>1, <3>2, <3>3
  <2> QED
    BY <1>1, <1>2, <1>3, <2>1, <2>2 DEF WireInv
<1>5. data' \in [1..MaxLength -> Bytes]
  <2>1. \A i \in 1..n : wire[i] \in Bytes
    BY <1>1
  <2> QED
    BY <1>1, <2>1 DEF Read, ConnInv, BufferInv
<1> QED
  BY <1>2, <1>4, <1>5 DEF ConnInv

LEMMA AskInv == ASSUME ConnInv, Ask PROVE ConnInv'
<1>1. PICK a \in Asked : sent' = a /\ wire' = Wire(a)
  BY DEF Ask
<1>2. Wire(a) \in Seq(Bytes)
  <2>1. Header \in Seq(Bytes) /\ a.req.body \in Seq(Bytes)
    BY Texts DEF Bytes
  <2> QED
    BY <2>1 DEF Wire
<1>3. WireInv'
  <2>1. Wire(sent)' = Wire(a)
    BY <1>1 DEF Wire
  <2> QED
    BY <1>1, <2>1, Texts DEF WireInv
<1>4. UNCHANGED <<step, data, cleared>> /\ step' = "read"
  BY DEF Ask
<1> QED
  BY <1>1, <1>2, <1>3, <1>4 DEF ConnInv, BufferInv, TextInv, Clear

LEMMA ReconnectInv == ASSUME ConnInv, Reconnect PROVE ConnInv'
<1>1. sent' = sent /\ wire' = <<>> /\ step' = "read" /\ ~cleared' /\ data' \in Garbage
  BY DEF Reconnect
<1>2. WireInv'
  BY <1>1, Texts DEF WireInv, ConnInv
<1>3. data' \in [1..MaxLength -> Bytes]
  BY <1>1, BufferAssumption DEF Bytes
<1> QED
  BY <1>1, <1>2, <1>3 DEF ConnInv, BufferInv, TextInv

LEMMA DispatchInv ==
  ASSUME OneThread, ConnInv, NEW n \in 1..MaxLength, NEW w \in Worker, Dispatch(w, n)
  PROVE  ConnInv'
<1>1. Read(n) /\ Parses(n) /\ sent' = sent /\ cleared' = cleared
  BY DEF Dispatch
<1>2. /\ sent' \in Asked /\ wire' \in Seq(Bytes) /\ WireInv'
      /\ data' \in [1..MaxLength -> Bytes]
  BY <1>1, ReadInv
<1>3. step' # "read"
  BY DEF Dispatch, ToCrud, ToOther, ToNotFound, NoFactory
<1>4. ASSUME NEW v \in Worker, step' = "serve"
      PROVE  /\ Strings!IsPrefix(Arrived', req'[v].body)
             /\ Arrived' = <<>> \/ cleared => req'[v].body = Arrived'
  <2>1. v = w /\ ToCrud(w, n)
    BY <1>4 DEF OneThread, Dispatch, ToOther, ToNotFound, NoFactory
  <2>2. sent.req \in Request
    BY AskedAssumption DEF ConnInv
  <2>3. req'[v].body = BodyOf(n)
    BY <2>1, <2>2 DEF ToCrud, Request
  <2> QED
    BY <1>1, <1>4, <2>3, TextOf
<1> QED
  BY <1>1, <1>2, <1>3, <1>4 DEF ConnInv, BufferInv, TextInv

LEMMA ConnInvNext ==
  ASSUME OneThread, ConnInv, [ConnNext]_connVars
  PROVE  ConnInv'
<1>1. ASSUME NEW n \in 1..MaxLength, Refuse(n) PROVE ConnInv'
  <2>1. Read(n) /\ sent' = sent /\ step' = "read" /\ ~cleared'
    BY <1>1 DEF Refuse, Read
  <2> QED
    BY <2>1, ReadInv DEF ConnInv, BufferInv, TextInv
<1>2. ASSUME NEW w \in Worker, Handle(w) PROVE ConnInv'
  <2>1. req' = req
    BY <1>2
    DEF Handle, Serve, Other, OpenDir, ReadFile, CheckDir, MakeDir, Probe, Lookup,
        OpenFile, ReopenFile, WriteFile, Remove, Reply
  <2>2. UNCHANGED conn
    BY <1>2 DEF Handle
  <2> QED
    BY <2>1, <2>2 DEF conn, ConnInv, WireInv, BufferInv, TextInv, Wire, Clear, Arrived
<1>3. ASSUME NEW w \in Worker, Finish(w) PROVE ConnInv'
  <2>1. step' = "read" /\ data' = Clear /\ UNCHANGED <<sent, wire>>
    BY <1>3 DEF Finish, ClearedData
  <2>2. data' \in [1..MaxLength -> Bytes] /\ Clear' = Clear
    BY <2>1 DEF Clear, Bytes
  <2> QED
    BY <2>1, <2>2 DEF ConnInv, WireInv, BufferInv, TextInv, Wire
<1>4. CASE UNCHANGED connVars
  BY <1>4 DEF connVars, conn, vars, ConnInv, WireInv, BufferInv, TextInv, Wire, Clear, Arrived
<1> QED
  BY <1>1, <1>2, <1>3, <1>4, AskInv, ReconnectInv, DispatchInv DEF ConnNext

(* To the CRUD handler, a connection is a client. *)
LEMMA CrudStep == [ConnNext]_connVars => [Next]_vars
<1> SUFFICES ASSUME [ConnNext]_connVars PROVE [Next]_vars
  OBVIOUS
<1>1. ASSUME NEW w \in Worker, NEW n \in 1..MaxLength, Dispatch(w, n) PROVE [Next]_vars
  BY <1>1 DEF Dispatch, ToCrud, ToOther, ToNotFound, NoFactory, Next
<1>2. ASSUME NEW w \in Worker, Handle(w) \/ Finish(w) PROVE [Next]_vars
  BY <1>2 DEF Handle, Finish, Next, Serve
<1>3. CASE UNCHANGED vars
  BY <1>3
<1> QED
  BY <1>1, <1>2, <1>3 DEF ConnNext, Ask, Reconnect, Refuse, connVars

LEMMA ConnCrudType == ConnSpec => []TypeOK
<1>1. ConnInit => Init
  BY DEF ConnInit
<1> QED
  BY <1>1, CrudStep, InitType, NextType, PTL DEF ConnSpec

(* Every variable has its type, and the CRUD handler is at work exactly while *)
(* the session waits for it.                                                  *)
THEOREM ConnTypeCorrect ==
  ASSUME OneThread
  PROVE  ConnSpec => []ConnTypeOK
<1>1. ConnInit => ConnTypeOK
  <2> SUFFICES ASSUME ConnInit PROVE ConnTypeOK
    OBVIOUS
  <2>1. sent \in Asked /\ wire \in Seq(Bytes) /\ data \in [1..MaxLength -> Bytes]
    BY ConnInvInit DEF ConnInv, BufferInv
  <2>2. \A w \in Worker : pc[w] = "idle"
    BY DEF ConnInit, Init
  <2> QED
    BY <2>1, <2>2 DEF ConnInit, ConnTypeOK
<1>2. ConnInv /\ ConnInv' /\ ConnTypeOK /\ TypeOK /\ [ConnNext]_connVars => ConnTypeOK'
  <2> SUFFICES ASSUME ConnInv, ConnInv', ConnTypeOK, TypeOK, [ConnNext]_connVars
               PROVE  ConnTypeOK'
    OBVIOUS
  <2>a. sent' \in Asked /\ wire' \in Seq(Bytes) /\ data' \in [1..MaxLength -> Bytes]
    BY DEF ConnInv, BufferInv
  <2>b. config' = config /\ Map' = Map
    BY DEF ConnNext, Ask, Reconnect, Refuse, Read, Dispatch, Handle, Finish, conn, connVars, Map
  <2>1. ASSUME NEW w \in Worker, NEW n \in 1..MaxLength, Dispatch(w, n) PROVE ConnTypeOK'
    <3>1. location' \in DOMAIN Map \cup {NotFoundHandler}
      <4> DEFINE S == Matching(Map, Wanted)
      <4>1. Wanted \in Seq(Nat) /\ \A u \in S : u \in Seq(Nat) /\ Strings!IsPrefix(u, Wanted)
        BY WantedType, ConfigAssumption DEF ConnInv, ConnTypeOK, Matching, Map
      <4>2. S # {} => First(S) \in S
        <5> HIDE DEF S
        <5> QED
          BY <4>1, FirstIsLongest
      <4> QED
        BY <2>1, <4>2 DEF Dispatch, match, Matching
    <3>2. cleared' \in BOOLEAN
      BY <2>1 DEF Dispatch, ConnTypeOK
    <3>3. step' \in {"serve", "reply", "undefined"}
      BY <2>1 DEF Dispatch, ToCrud, ToOther, ToNotFound, NoFactory
    <3>4. ASSUME NEW v \in Worker PROVE (step' = "serve") <=> (pc'[v] # "idle")
      <4>1. v = w /\ pc[v] = "idle"
        BY <2>1 DEF OneThread, ConnTypeOK, Dispatch, Read
      <4>2. CASE ToCrud(w, n)
        <5>1. pc'[w] \in {"opendir", "exists", "lookup", "remove", "other"}
          BY <4>2 DEF ToCrud, Begin, Goto, FirstStep, Request, TypeOK
        <5> QED
          BY <4>1, <4>2, <5>1 DEF ToCrud
      <4>3. CASE ToOther \/ ToNotFound \/ NoFactory
        BY <4>1, <4>3 DEF ToOther, ToNotFound, NoFactory, vars
      <4> QED
        BY <2>1, <4>2, <4>3 DEF Dispatch
    <3> QED
      BY <2>a, <2>b, <3>1, <3>2, <3>3, <3>4 DEF ConnTypeOK
  <2>2. ASSUME NEW w \in Worker, Handle(w) PROVE ConnTypeOK'
    <3>1. \A v \in Worker : v = w /\ pc[v] # "idle"
      BY <2>2 DEF OneThread, Handle, ConnTypeOK
    <3>2. pc'[w] # "idle"
      BY <2>2, <3>1
      DEF Handle, Serve, Other, OpenDir, ReadFile, CheckDir, MakeDir, Probe, Lookup,
          OpenFile, ReopenFile, WriteFile, Remove, Reply, Goto, Respond, TypeOK
    <3>3. UNCHANGED <<step, location, cleared>> /\ step = "serve"
      BY <2>2 DEF Handle, conn
    <3> QED
      BY <2>a, <2>b, <3>1, <3>2, <3>3 DEF ConnTypeOK
  <2>3. ASSUME NEW w \in Worker, Finish(w) PROVE ConnTypeOK'
    <3>1. \A v \in Worker : pc'[v] = "idle"
      BY <2>3 DEF OneThread, Finish, Reply, Goto, vars, ConnTypeOK, TypeOK
    <3> QED
      BY <2>3, <2>a, <2>b, <3>1 DEF Finish, ConnTypeOK
  <2>4. CASE Ask \/ Reconnect \/ (\E n \in 1..MaxLength : Refuse(n)) \/ UNCHANGED connVars
    <3>1. /\ UNCHANGED <<pc, step, location>>
          /\ cleared' \in BOOLEAN
      BY <2>4 DEF Ask, Reconnect, Refuse, connVars, conn, vars, ConnTypeOK
    <3> QED
      BY <2>a, <2>b, <3>1 DEF ConnTypeOK
  <2> QED
    BY <2>1, <2>2, <2>3, <2>4 DEF ConnNext
<1> QED
  BY <1>1, <1>2, ConnInvInit, ConnInvNext, ConnCrudType, PTL DEF ConnSpec

(* With locations, all of handlers the server knows, every request has its    *)
(* handler (server.cc:22-60, session.cc:139-154), but for a sign-up or        *)
(* sign-in where no location is "/".                                          *)
THEOREM HandlerFoundHolds ==
  ASSUME OneThread
  PROVE  ConnSpec => []HandlerFound
<1>1. ConnInit => HandlerFound
  BY DEF ConnInit, HandlerFound
<1>2. ConnTypeOK' /\ HandlerFound /\ [ConnNext]_connVars => HandlerFound'
  <2> SUFFICES ASSUME ConnTypeOK', HandlerFound, [ConnNext]_connVars, Sound', step' = "undefined"
               PROVE  Signs(sent'.target) /\ Root \notin DOMAIN Map'
    BY DEF HandlerFound
  <2>1. Map' = Map /\ Sound
    BY DEF ConnNext, Ask, Reconnect, Refuse, Read, Dispatch, Handle, Finish, conn, connVars,
           Map, Sound
  <2>2. Routes(Map) = DOMAIN Map \cup {NotFoundHandler}
    BY <2>1 DEF Sound, Routes
  <2>3. ASSUME NEW w \in Worker, NEW n \in 1..MaxLength, Dispatch(w, n)
        PROVE  Signs(sent'.target) /\ Root \notin DOMAIN Map
    <3>1. NoFactory /\ sent' = sent
      BY <2>3 DEF Dispatch, ToCrud, ToOther, ToNotFound
    <3>2. Factory' \notin DOMAIN Map \cup {NotFoundHandler}
      BY <2>2, <3>1 DEF NoFactory
    <3>3. location' \in DOMAIN Map \cup {NotFoundHandler}
      BY <2>1 DEF ConnTypeOK
    <3> QED
      BY <3>2, <3>3 DEF Factory
  <2>4. CASE \E w \in Worker : Handle(w)
    BY <2>1, <2>4 DEF Handle, conn, HandlerFound
  <2>5. CASE UNCHANGED connVars
    BY <2>1, <2>5 DEF connVars, conn, HandlerFound
  <2> QED
    BY <2>1, <2>3, <2>4, <2>5 DEF ConnNext, Ask, Reconnect, Refuse, Read, Finish
<1> QED
  BY <1>1, <1>2, ConnTypeCorrect, PTL DEF ConnSpec

(* A request on a connection whose last request parsed is served with exactly *)
(* the text that has arrived with its head: the memset leaves nothing that it *)
(* could run into (session.cc:92-97 and 171).                                 *)
THEOREM BodyIsSentHolds ==
  ASSUME OneThread
  PROVE  ConnSpec => []BodyIsSent
<1>1. ConnInv => BodyIsSent
  BY DEF ConnInv, TextInv, BodyIsSent
<1> QED
  BY <1>1, ConnInvInit, ConnInvNext, PTL DEF ConnSpec

(* On every connection it is served with at least that text, and where none   *)
(* has arrived it is served without (session.cc:92).                          *)
THEOREM BodyBeginsHolds ==
  ASSUME OneThread
  PROVE  ConnSpec => []BodyBegins
<1>1. ConnInv => BodyBegins
  BY DEF ConnInv, TextInv, BodyBegins
<1> QED
  BY <1>1, ConnInvInit, ConnInvNext, PTL DEF ConnSpec
-----------------------------------------------------------------------------
(* Through a connection, whatever arrives on it, the CRUD handler is still    *)
(* the atomic store: it starts as one, and every step of the connection is a  *)
(* step of the store or not seen (session.cc:38-178 over                      *)
(* crud_request_handler.cc:20-254).                                           *)
THEOREM ConnectionIsAtomic ==
  ASSUME OneThread
  PROVE  ConnSpec => Atomic!Init /\ [][Atomic!Next]_(Atomic!vars)
<1>1. ConnInit => Init
  BY DEF ConnInit
<1>2. IOFails = {}
  BY OneIsApart
<1>3. Apart
  BY OneIsApart
<1>4. ConnSpec => [](TypeOK /\ AloneInv)
  BY <1>1, <1>2, <1>3, CrudStep, InitType, NextType, AloneInit, AloneNext, PTL DEF ConnSpec
<1>5. Apart /\ TypeOK /\ AloneInv => AllMapped
  BY MappedNow
<1>6. /\ Apart /\ Apart' /\ TypeOK /\ AloneInv /\ AloneInv' /\ AllMapped /\ AllMapped' /\ [Next]_vars
      => [Atomic!Next]_(Atomic!vars)
  BY <1>2, NextSimulates
<1>7. Init => Atomic!Init
  BY InitSimulates
<1> QED
  BY <1>1, <1>3, <1>4, <1>5, <1>6, <1>7, CrudStep, PTL DEF ConnSpec
=============================================================================
