-------------------------- MODULE ConfigParser_proofs --------------------------
(* Proofs about ConfigParser for files of any length, any letters and any     *)
(* quotation marks.                                                           *)
EXTENDS ConfigParser, FiniteSetTheorems, FunctionTheorems, SequenceTheorems, TLAPS

LEMMA Chars ==
  /\ Quote \subseteq Char /\ Letter \subseteq Char /\ Separator \subseteq Char
  /\ Mark \subseteq Separator /\ Space \subseteq Separator
  /\ "#" \in Char /\ "\\" \in Char /\ "\r" \in Char
  /\ "#" \notin Separator /\ "\\" \notin Separator /\ "\r" \notin Separator
  /\ "none" \notin Quote /\ "\\" \notin Quote /\ "#" \notin Quote /\ "\r" \notin Quote
  /\ Quote \cap Separator = {} /\ Letter \cap Separator = {} /\ Letter \cap Quote = {}
  /\ "#" \notin Letter /\ "\r" \notin Letter
  /\ "none" \notin Char /\ "eof" \notin Char
  BY CharAssumption DEF Char, Separator, Space, Mark

-----------------------------------------------------------------------------
(* What Parse does with a token changes only its own variables. *)

ParserType ==
  /\ last \in {"start", "normal", "end", "open", "close", "eof"}
  /\ result \in {"none", "true", "false", "undefined"}
  /\ tokens \in Seq(Seq(Char))
  /\ error \in BOOLEAN

LEMMA ReturnType ==
  ASSUME ParserType, NEW r \in {"true", "false", "undefined"}, Return(r)
  PROVE  /\ last' \in {"start", "normal", "end", "open", "close", "eof"}
         /\ result' \in {"none", "true", "false", "undefined"}
  BY DEF ParserType, Return

LEMMA ContinueType ==
  ASSUME ParserType, NEW s, NEW k \in {"start", "normal", "end", "open", "close", "eof"},
         Continue(k, s)
  PROVE  /\ last' \in {"start", "normal", "end", "open", "close", "eof"}
         /\ result' \in {"none", "true", "false", "undefined"}
  BY DEF ParserType, Continue, NextLast

LEMMA GiveType ==
  ASSUME ParserType, NEW t \in Seq(Char), Give(t)
  PROVE  ParserType' /\ tokens' = Append(tokens, t)
<1>0. tokens' = Append(tokens, t) /\ error' = error
  BY DEF Give
<1>1. tokens' \in Seq(Seq(Char)) /\ error' \in BOOLEAN
  BY <1>0 DEF ParserType
<1>2. \/ \E r \in {"true", "false", "undefined"} : Return(r)
      \/ \E k \in {"normal", "end", "open", "close"}, s \in {stack'} : Continue(k, s)
  <2>1. StatementEnd \/ StartBlock \/ EndBlock \/ Word(t)
    BY DEF Give
  <2>2. CASE StatementEnd
    BY <2>2 DEF StatementEnd, Continue
  <2>3. CASE StartBlock
    BY <2>3 DEF StartBlock, Continue
  <2>4. CASE EndBlock
    BY <2>4 DEF EndBlock, Continue
  <2>5. CASE Word(t)
    BY <2>5 DEF Word, Continue
  <2> QED
    BY <2>1, <2>2, <2>3, <2>4, <2>5
<1> QED
  BY <1>0, <1>1, <1>2, ReturnType, ContinueType DEF ParserType

LEMMA GiveEndType ==
  ASSUME ParserType, GiveEnd
  PROVE  ParserType' /\ tokens' = tokens
  BY DEF GiveEnd, EndOfFile, ParserType, Return, Continue, NextLast

LEMMA GiveErrorType ==
  ASSUME ParserType, GiveError
  PROVE  ParserType' /\ tokens' = tokens
  BY DEF GiveError, ParserType, Return

-----------------------------------------------------------------------------
(* What ParseToken does. *)

LexerType ==
  /\ lex \in {"white", "quote", "escape", "comment", "word"}
  /\ quote \in Quote \cup {"none"} /\ (quote # "none" <=> lex \in {"quote", "escape"})
  /\ value \in Seq(Char) /\ (lex = "white" => value = <<>>)
  /\ ahead \in Char \cup {"none", "eof"}
  /\ chars \in 0..MaxChars

LEMMA TypeParts ==
  /\ TypeOK <=> LexerType /\ ParserType
  /\ TypeOK' <=> LexerType' /\ ParserType'
  BY DEF TypeOK, LexerType, ParserType

LEMMA GetChars ==
  ASSUME LexerType, NEW c, Get(c)
  PROVE  chars' \in 0..MaxChars
  BY MaxCharsAssumption DEF Get, LexerType

LEMMA RestartType ==
  ASSUME Restart
  PROVE  /\ lex' = "white" /\ quote' = "none" /\ value' = <<>>
         /\ value' \in Seq(Char)
  BY DEF Restart

LEMMA WhiteType ==
  ASSUME TypeOK, White
  PROVE  TypeOK'
<1>1. LexerType /\ ParserType /\ lex = "white" /\ quote = "none"
  BY TypeParts DEF White, LexerType
<1>2. PICK c \in Char :
        /\ Get(c) /\ ahead' = "none"
        /\ \/ c \in Mark /\ Give(<<c>>) /\ Restart
           \/ c = "#" /\ Go("comment", <<c>>)
           \/ c \in Quote /\ lex' = "quote" /\ quote' = c /\ value' = <<c>> /\ UNCHANGED parser
           \/ c \in Space \cup {"\r"} /\ Go("white", <<>>)
           \/ c \in Letter \cup {"\\"} /\ Go("word", <<c>>)
  BY DEF White
<1>3. chars' \in 0..MaxChars /\ <<c>> \in Seq(Char)
  BY <1>1, <1>2, GetChars
<1>4. CASE c \in Mark /\ Give(<<c>>) /\ Restart
  BY <1>1, <1>2, <1>3, <1>4, GiveType, RestartType, TypeParts DEF LexerType
<1>5. CASE c \in Quote /\ lex' = "quote" /\ quote' = c /\ value' = <<c>> /\ UNCHANGED parser
  BY <1>1, <1>2, <1>3, <1>5, Chars, TypeParts DEF LexerType, ParserType, parser
<1>6. CASE \E l \in {"comment", "white", "word"}, v \in {<<>>, <<c>>} :
             Go(l, v) /\ (l = "white" => v = <<>>)
  BY <1>1, <1>2, <1>3, <1>6, TypeParts DEF LexerType, ParserType, parser, Go
<1> QED
  BY <1>2, <1>4, <1>5, <1>6

LEMMA QuotationType ==
  ASSUME TypeOK, Quotation
  PROVE  TypeOK'
<1>1. LexerType /\ ParserType /\ lex = "quote" /\ quote \in Quote
  BY TypeParts DEF Quotation, LexerType
<1>2. PICK c \in Char :
        /\ Get(c)
        /\ \/ /\ c = quote
              /\ \E n \in Char \cup {"eof"} :
                   /\ ahead' = n
                   /\ \/ n \in Separator /\ Give(Append(value, c))
                      \/ n \notin Separator /\ GiveError
              /\ Restart
           \/ c = "\\" /\ ahead' = "none" /\ Go("escape", Append(value, c))
           \/ c \notin {quote, "\\"} /\ ahead' = "none" /\ Go("quote", Append(value, c))
  BY DEF Quotation
<1>3. chars' \in 0..MaxChars /\ Append(value, c) \in Seq(Char)
  BY <1>1, <1>2, GetChars DEF LexerType
<1>4. CASE /\ ahead' \in Char \cup {"eof"}
           /\ Give(Append(value, c)) \/ GiveError
           /\ Restart
  BY <1>3, <1>1, <1>4, GiveType, GiveErrorType, RestartType, TypeParts DEF LexerType
<1>5. CASE \E l \in {"escape", "quote"} : ahead' = "none" /\ Go(l, Append(value, c))
  BY <1>1, <1>3, <1>5, Chars, TypeParts DEF LexerType, ParserType, parser, Go
<1> QED
  BY <1>2, <1>4, <1>5

LEMMA InWordType ==
  ASSUME TypeOK, InWord
  PROVE  TypeOK'
<1>1. LexerType /\ ParserType /\ lex = "word" /\ quote = "none"
  BY TypeParts DEF InWord, LexerType
<1>2. PICK c \in Char :
        /\ Get(c)
        /\ \/ c \in WordEnd /\ ahead' = c /\ Give(value) /\ Restart
           \/ c \notin WordEnd /\ ahead' = "none" /\ Go("word", Append(value, c))
  BY DEF InWord
<1>3. chars' \in 0..MaxChars /\ Append(value, c) \in Seq(Char) /\ value \in Seq(Char)
  BY <1>1, <1>2, GetChars DEF LexerType
<1>4. CASE ahead' = c /\ Give(value) /\ Restart
  BY <1>1, <1>3, <1>4, GiveType, RestartType, TypeParts DEF LexerType
<1>5. CASE ahead' = "none" /\ Go("word", Append(value, c))
  BY <1>1, <1>3, <1>5, TypeParts DEF LexerType, ParserType, parser, Go
<1> QED
  BY <1>2, <1>4, <1>5

LEMMA OtherType ==
  ASSUME TypeOK, Escape \/ Comment \/ AtEnd
  PROVE  TypeOK'
<1>1. LexerType /\ ParserType
  BY TypeParts
<1>2. CASE Escape
  <2>1. PICK c \in Char : Get(c) /\ ahead' = "none" /\ Go("quote", Append(value, c))
    BY <1>2 DEF Escape
  <2>2. chars' \in 0..MaxChars /\ Append(value, c) \in Seq(Char) /\ quote # "none"
    BY <1>1, <1>2, <2>1, GetChars DEF LexerType, Escape
  <2> QED
    BY <1>1, <2>1, <2>2, TypeParts DEF LexerType, ParserType, parser, Go
<1>3. CASE Comment
  <2>1. PICK c \in Char :
          /\ Get(c) /\ ahead' = "none"
          /\ \/ c \in {"\n", "\r"} /\ Restart /\ UNCHANGED parser
             \/ c \notin {"\n", "\r"} /\ Go("comment", value)
    BY <1>3 DEF Comment
  <2>2. chars' \in 0..MaxChars /\ quote = "none"
    BY <1>1, <1>3, <2>1, GetChars DEF LexerType, Comment
  <2> QED
    BY <1>1, <2>1, <2>2, RestartType, TypeParts DEF LexerType, ParserType, parser, Go
<1>4. CASE AtEnd
  <2>1. chars' \in 0..MaxChars /\ ahead' = "eof" /\ Restart /\ (GiveError \/ GiveEnd)
    BY <1>1, <1>4, GetChars DEF AtEnd
  <2> QED
    BY <1>1, <2>1, GiveErrorType, GiveEndType, RestartType, TypeParts DEF LexerType
<1> QED
  BY <1>2, <1>3, <1>4

LEMMA InitType == Init => TypeOK
<1>1. <<>> \in Seq(Char) /\ <<>> \in Seq(Seq(Char)) /\ 0 \in 0..MaxChars
  BY MaxCharsAssumption
<1>2. Init => LexerType
  BY <1>1 DEF Init, LexerType
<1>3. Init => ParserType
  BY <1>1 DEF Init, ParserType
<1> QED
  BY <1>2, <1>3, TypeParts

LEMMA NextType ==
  ASSUME TypeOK, [Next]_vars
  PROVE  TypeOK'
<1>1. CASE UNCHANGED vars
  BY <1>1 DEF vars, lexer, parser, TypeOK
<1> QED
  BY <1>1, WhiteType, QuotationType, InWordType, OtherType DEF Next

(* Every variable has its type, and a mark is remembered exactly inside a     *)
(* quotation (the states of ParseToken, config_parser.cc:164-287).            *)
THEOREM TypeCorrect == Spec => []TypeOK
  BY InitType, NextType, PTL DEF Spec
-----------------------------------------------------------------------------
(* Escapes.  Whether the character after a text is escaped depends on the     *)
(* text only, and a backslash more reverses it.                               *)

LEMMA BackslashesFinite ==
  ASSUME NEW t, NEW i \in Nat
  PROVE  IsFiniteSet(Backslashes(t, i)) /\ Cardinality(Backslashes(t, i)) \in Nat
<1>1. IsFiniteSet(1..(i - 1)) /\ Backslashes(t, i) \subseteq 1..(i - 1)
  BY FS_Interval DEF Backslashes
<1> QED
  BY <1>1, FS_Subset, FS_CardinalityType

LEMMA EscapedBefore ==
  ASSUME NEW v \in Seq(Char), NEW c \in Char, NEW i \in 1..(Len(v) + 1)
  PROVE  Escaped(Append(v, c), i) <=> Escaped(v, i)
<1>1. \A k \in 1..(i - 1) : Append(v, c)[k] = v[k]
  OBVIOUS
<1>2. Backslashes(Append(v, c), i) = Backslashes(v, i)
  BY <1>1 DEF Backslashes
<1> QED
  BY <1>2 DEF Escaped

LEMMA AfterBackslash ==
  ASSUME NEW v \in Seq(Char)
  PROVE  Escaped(Append(v, "\\"), Len(v) + 2) <=> ~Escaped(v, Len(v) + 1)
<1> DEFINE n == Len(v)
           old == Backslashes(v, n + 1)
           new == Backslashes(Append(v, "\\"), n + 2)
<1>1. n \in Nat /\ \A k \in 1..n : Append(v, "\\")[k] = v[k]
  BY Chars
<1>2. Append(v, "\\")[n + 1] = "\\"
  BY Chars
<1>3. new = old \cup {n + 1}
  <2>1. ASSUME NEW j \in 1..(n + 1)
        PROVE  (\A k \in j..(n + 1) : Append(v, "\\")[k] = "\\")
                 <=> j = n + 1 \/ (j \in 1..n /\ \A k \in j..n : v[k] = "\\")
    <3>1. CASE j = n + 1
      BY <1>1, <1>2, <3>1
    <3>2. CASE j \in 1..n
      <4>1. j..(n + 1) = (j..n) \cup {n + 1}
        BY <1>1, <3>2
      <4>2. \A k \in j..n : k \in 1..n
        BY <1>1, <3>2
      <4>3. j # n + 1
        BY <1>1, <3>2
      <4> QED
        BY <1>1, <1>2, <3>2, <4>1, <4>2, <4>3
    <3> QED
      BY <1>1, <3>1, <3>2
  <2>2. (n + 2) - 1 = n + 1 /\ (n + 1) - 1 = n /\ 1..(n + 1) = (1..n) \cup {n + 1}
    BY <1>1
  <2>3. new = {j \in 1..(n + 1) : \A k \in j..(n + 1) : Append(v, "\\")[k] = "\\"}
    BY <2>2 DEF Backslashes
  <2>4. old = {j \in 1..n : \A k \in j..n : v[k] = "\\"}
    BY <2>2 DEF Backslashes
  <2> HIDE DEF old, new, n
  <2> QED
    BY <2>1, <2>2, <2>3, <2>4
<1>4. IsFiniteSet(old) /\ Cardinality(old) \in Nat /\ n + 1 \notin old
  <2>1. n + 1 \in Nat /\ n + 1 \notin 1..((n + 1) - 1)
    BY <1>1
  <2>2. old \subseteq 1..((n + 1) - 1)
    BY DEF Backslashes
  <2> QED
    BY <2>1, <2>2, BackslashesFinite
<1>5. Cardinality(new) = Cardinality(old) + 1
  BY <1>3, <1>4, FS_AddElement
<1>6. \A m \in Nat : (m + 1) % 2 = 1 <=> ~(m % 2 = 1)
  OBVIOUS
<1> QED
  BY <1>4, <1>5, <1>6 DEF Escaped

LEMMA AfterOther ==
  ASSUME NEW v \in Seq(Char), NEW c \in Char, c # "\\"
  PROVE  ~Escaped(Append(v, c), Len(v) + 2)
<1>1. Len(v) \in Nat /\ (Len(v) + 2) - 1 = Len(v) + 1 /\ Append(v, c)[Len(v) + 1] = c
  OBVIOUS
<1>2. \A j \in 1..(Len(v) + 1) : Len(v) + 1 \in j..(Len(v) + 1)
  BY <1>1
<1>3. Backslashes(Append(v, c), Len(v) + 2) = {}
  BY <1>1, <1>2 DEF Backslashes
<1>4. Cardinality({}) = 0 /\ 0 % 2 # 1
  BY FS_EmptySet
<1> QED
  BY <1>3, <1>4 DEF Escaped

-----------------------------------------------------------------------------
(* The tokens.  A token is well formed because what has been read of it was:  *)
(* of a word, no separator and no other beginning; of a quotation, no mark    *)
(* that ends it, and the state says whether the next character is escaped.    *)

Shaped(t) ==
  /\ Len(t) > 0
  /\ Quoted(t) => {k \in 2..Len(t) : t[k] = t[1] /\ ~Escaped(t, k)} = {Len(t)}
  /\ ~Quoted(t) => \/ Len(t) = 1 /\ t[1] \in Mark
                   \/ /\ t[1] \notin {"#", "\r"}
                      /\ Range(t) \cap Separator = {}

OpenWord(v) ==
  /\ Len(v) > 0 /\ v[1] \notin Quote /\ v[1] \notin {"#", "\r"}
  /\ \A k \in 1..Len(v) : v[k] \notin Separator

OpenQuotation(v, q) ==
  /\ Len(v) > 0 /\ v[1] = q
  /\ \A k \in 2..Len(v) : v[k] = q => Escaped(v, k)

LexInv ==
  /\ lex = "word" => OpenWord(value)
  /\ lex \in {"quote", "escape"} => OpenQuotation(value, quote)
  /\ lex = "quote" => ~Escaped(value, Len(value) + 1)
  /\ lex = "escape" => Escaped(value, Len(value) + 1)

LEMMA ShapeParts ==
  /\ TokenShape <=> \A i \in 1..Len(tokens) : Shaped(tokens[i])
  /\ TokenShape' <=> \A i \in 1..Len(tokens') : Shaped(tokens'[i])
  BY DEF TokenShape, Shaped

LEMMA SameShape ==
  ASSUME TokenShape, tokens' = tokens
  PROVE  TokenShape'
  BY ShapeParts

LEMMA GiveShape ==
  ASSUME TypeOK, TokenShape, NEW t \in Seq(Char), Shaped(t), Give(t)
  PROVE  TokenShape'
<1>1. tokens \in Seq(Seq(Char)) /\ tokens' = Append(tokens, t)
  BY TypeParts, GiveType DEF ParserType
<1>2. ASSUME NEW i \in 1..Len(tokens')
      PROVE  tokens'[i] = t \/ (i \in 1..Len(tokens) /\ tokens'[i] = tokens[i])
  BY <1>1
<1> QED
  BY <1>2, ShapeParts

(* A character more. *)
LEMMA LongerWord ==
  ASSUME NEW v \in Seq(Char), OpenWord(v), NEW c \in Char \ Separator
  PROVE  OpenWord(Append(v, c))
<1>1. ASSUME NEW k \in 1..Len(Append(v, c))
      PROVE  (k \in 1..Len(v) /\ Append(v, c)[k] = v[k]) \/ Append(v, c)[k] = c
  OBVIOUS
<1>2. Len(Append(v, c)) > 0 /\ (Len(v) > 0 => Append(v, c)[1] = v[1])
  OBVIOUS
<1> QED
  BY <1>1, <1>2 DEF OpenWord

LEMMA LongerQuotation ==
  ASSUME NEW v \in Seq(Char), NEW q \in Quote, OpenQuotation(v, q), NEW c \in Char,
         c = q => Escaped(v, Len(v) + 1)
  PROVE  OpenQuotation(Append(v, c), q)
<1>1. Len(v) > 0 /\ Len(Append(v, c)) = Len(v) + 1 /\ Append(v, c)[1] = v[1]
  BY DEF OpenQuotation
<1>2. ASSUME NEW k \in 2..Len(v), Append(v, c)[k] = q
      PROVE  Escaped(Append(v, c), k)
  <2>1. k \in 1..(Len(v) + 1) /\ v[k] = q
    BY <1>2
  <2> QED
    BY <2>1, EscapedBefore DEF OpenQuotation
<1>3. Append(v, c)[Len(v) + 1] = q => Escaped(Append(v, c), Len(v) + 1)
  <2>1. Append(v, c)[Len(v) + 1] = c /\ Len(v) + 1 \in 1..(Len(v) + 1)
    BY <1>1
  <2> QED
    BY <2>1, EscapedBefore
<1>4. \A k \in 2..(Len(v) + 1) : k \in 2..Len(v) \/ k = Len(v) + 1
  BY <1>1
<1> QED
  BY <1>1, <1>2, <1>3, <1>4 DEF OpenQuotation

LEMMA WordShaped ==
  ASSUME NEW v \in Seq(Char), OpenWord(v)
  PROVE  Shaped(v)
<1>1. Range(v) \cap Separator = {}
  BY DEF OpenWord, Range
<1> QED
  BY <1>1 DEF OpenWord, Shaped, Quoted

LEMMA MarkShaped ==
  ASSUME NEW c \in Mark
  PROVE  Shaped(<<c>>) /\ <<c>> \in Seq(Char)
  BY Chars DEF Shaped, Quoted

LEMMA QuotationShaped ==
  ASSUME NEW v \in Seq(Char), NEW q \in Quote, OpenQuotation(v, q), ~Escaped(v, Len(v) + 1)
  PROVE  Shaped(Append(v, q))
<1> DEFINE t == Append(v, q)
<1>1. Len(v) > 0 /\ Len(t) = Len(v) + 1 /\ t[1] = q /\ t[Len(v) + 1] = q /\ q \in Char
  BY Chars DEF OpenQuotation
<1>2. ASSUME NEW k \in 2..Len(v), t[k] = q
      PROVE  Escaped(t, k)
  <2>1. k \in 1..(Len(v) + 1) /\ v[k] = q
    BY <1>1, <1>2
  <2> QED
    BY <1>1, <2>1, EscapedBefore DEF OpenQuotation
<1>3. ~Escaped(t, Len(v) + 1)
  BY <1>1, EscapedBefore
<1>4. \A k \in 2..Len(t) : k \in 2..Len(v) \/ k = Len(v) + 1
  BY <1>1
<1>5. Len(v) + 1 \in 2..Len(t)
  BY <1>1
<1>6. {k \in 2..Len(t) : t[k] = t[1] /\ ~Escaped(t, k)} = {Len(t)}
  BY <1>1, <1>2, <1>3, <1>4, <1>5
<1> QED
  BY <1>1, <1>6 DEF Shaped, Quoted

-----------------------------------------------------------------------------
ShapeInv == TypeOK /\ LexInv /\ TokenShape

LEMMA InitShape == Init => ShapeInv
  BY InitType, ShapeParts DEF Init, ShapeInv, LexInv

LEMMA RestartLex ==
  ASSUME Restart
  PROVE  LexInv'
  BY DEF Restart, LexInv

LEMMA WhiteShape ==
  ASSUME ShapeInv, White
  PROVE  LexInv' /\ TokenShape'
<1>1. TypeOK /\ TokenShape
  BY DEF ShapeInv
<1>2. PICK c \in Char :
        \/ c \in Mark /\ Give(<<c>>) /\ Restart
        \/ c = "#" /\ Go("comment", <<c>>)
        \/ c \in Quote /\ lex' = "quote" /\ quote' = c /\ value' = <<c>> /\ UNCHANGED parser
        \/ c \in Space \cup {"\r"} /\ Go("white", <<>>)
        \/ c \in Letter \cup {"\\"} /\ Go("word", <<c>>)
  BY DEF White
<1>3. CASE c \in Mark /\ Give(<<c>>) /\ Restart
  BY <1>1, <1>3, MarkShaped, GiveShape, RestartLex
<1>4. CASE c = "#" /\ Go("comment", <<c>>)
  BY <1>1, <1>4, SameShape DEF Go, parser, LexInv
<1>7. CASE c \in Space \cup {"\r"} /\ Go("white", <<>>)
  BY <1>1, <1>7, SameShape DEF Go, parser, LexInv
<1>5. CASE c \in Quote /\ lex' = "quote" /\ quote' = c /\ value' = <<c>> /\ UNCHANGED parser
  <2>1. <<>> \in Seq(Char) /\ Append(<<>>, c) = <<c>> /\ Len(<<>>) + 2 = 2
    OBVIOUS
  <2>2. ~Escaped(<<c>>, 2)
    BY <1>5, <2>1, AfterOther, Chars
  <2>3. OpenQuotation(<<c>>, c) /\ Len(<<c>>) + 1 = 2
    BY DEF OpenQuotation
  <2>4. lex' = "quote" /\ OpenQuotation(value', quote') /\ ~Escaped(value', Len(value') + 1)
    BY <1>5, <2>2, <2>3
  <2> QED
    BY <1>1, <1>5, <2>4, SameShape DEF parser, LexInv
<1>6. CASE c \in Letter \cup {"\\"} /\ Go("word", <<c>>)
  <2>1. OpenWord(<<c>>)
    BY <1>6, Chars DEF OpenWord
  <2> QED
    BY <1>1, <1>6, <2>1, SameShape DEF Go, parser, LexInv
<1> QED
  BY <1>2, <1>3, <1>4, <1>5, <1>6, <1>7

LEMMA QuotationShape ==
  ASSUME ShapeInv, Quotation
  PROVE  LexInv' /\ TokenShape'
<1>1. TypeOK /\ TokenShape /\ lex = "quote" /\ value \in Seq(Char) /\ quote \in Quote
  BY DEF ShapeInv, Quotation, TypeOK
<1>2. OpenQuotation(value, quote) /\ ~Escaped(value, Len(value) + 1)
  BY <1>1 DEF ShapeInv, LexInv
<1>3. PICK c \in Char :
        \/ /\ c = quote /\ Restart
           /\ Give(Append(value, c)) \/ GiveError
        \/ c = "\\" /\ Go("escape", Append(value, c))
        \/ c \notin {quote, "\\"} /\ Go("quote", Append(value, c))
  BY DEF Quotation
<1>4. CASE c = quote /\ Restart /\ Give(Append(value, c))
  <2>1. Shaped(Append(value, c)) /\ Append(value, c) \in Seq(Char)
    BY <1>1, <1>2, <1>4, QuotationShaped
  <2> QED
    BY <1>1, <1>4, <2>1, GiveShape, RestartLex
<1>5. CASE Restart /\ GiveError
  BY <1>1, <1>5, SameShape, RestartLex DEF GiveError
<1>6. CASE c = "\\" /\ Go("escape", Append(value, c))
  <2>1. OpenQuotation(Append(value, c), quote)
    BY <1>1, <1>2, <1>6, LongerQuotation, Chars
  <2>2. Escaped(Append(value, c), Len(Append(value, c)) + 1)
    BY <1>1, <1>2, <1>6, AfterBackslash
  <2> QED
    BY <1>1, <1>6, <2>1, <2>2, SameShape DEF Go, parser, LexInv
<1>7. CASE c \notin {quote, "\\"} /\ Go("quote", Append(value, c))
  <2>1. OpenQuotation(Append(value, c), quote)
    BY <1>1, <1>2, <1>7, LongerQuotation
  <2>2. ~Escaped(Append(value, c), Len(Append(value, c)) + 1)
    BY <1>1, <1>7, AfterOther
  <2> QED
    BY <1>1, <1>7, <2>1, <2>2, SameShape DEF Go, parser, LexInv
<1> QED
  BY <1>3, <1>4, <1>5, <1>6, <1>7

LEMMA EscapeShape ==
  ASSUME ShapeInv, Escape
  PROVE  LexInv' /\ TokenShape'
<1>1. TypeOK /\ TokenShape /\ lex = "escape" /\ value \in Seq(Char) /\ quote \in Quote
  BY DEF ShapeInv, Escape, TypeOK
<1>2. OpenQuotation(value, quote) /\ Escaped(value, Len(value) + 1)
  BY <1>1 DEF ShapeInv, LexInv
<1>3. PICK c \in Char : Go("quote", Append(value, c))
  BY DEF Escape
<1>4. OpenQuotation(Append(value, c), quote)
  BY <1>1, <1>2, LongerQuotation
<1>5. ~Escaped(Append(value, c), Len(Append(value, c)) + 1)
  <2>1. Len(Append(value, c)) + 1 = Len(value) + 2
    BY <1>1
  <2> QED
    BY <1>1, <1>2, <2>1, AfterBackslash, AfterOther
<1> QED
  BY <1>1, <1>3, <1>4, <1>5, SameShape DEF Go, parser, LexInv

LEMMA InWordShape ==
  ASSUME ShapeInv, InWord
  PROVE  LexInv' /\ TokenShape'
<1>1. TypeOK /\ TokenShape /\ value \in Seq(Char) /\ OpenWord(value)
  BY DEF ShapeInv, InWord, TypeOK, LexInv
<1>2. PICK c \in Char : \/ c \in WordEnd /\ Give(value) /\ Restart
                        \/ c \notin WordEnd /\ Go("word", Append(value, c))
  BY DEF InWord
<1>3. CASE Give(value) /\ Restart
  BY <1>1, <1>3, WordShaped, GiveShape, RestartLex
<1>4. CASE c \notin WordEnd /\ Go("word", Append(value, c))
  <2>1. OpenWord(Append(value, c))
    BY <1>1, <1>4, LongerWord DEF WordEnd
  <2> QED
    BY <1>1, <1>4, <2>1, SameShape DEF Go, parser, LexInv
<1> QED
  BY <1>2, <1>3, <1>4 DEF WordEnd

LEMMA OtherShape ==
  ASSUME ShapeInv, Comment \/ AtEnd
  PROVE  LexInv' /\ TokenShape'
<1>1. TokenShape
  BY DEF ShapeInv
<1>2. CASE Comment
  BY <1>1, <1>2, SameShape, RestartLex DEF Comment, Go, parser, LexInv
<1>3. CASE AtEnd
  BY <1>1, <1>3, SameShape, RestartLex DEF AtEnd, GiveError, GiveEnd
<1> QED
  BY <1>2, <1>3

LEMMA NextShape ==
  ASSUME ShapeInv, [Next]_vars
  PROVE  ShapeInv'
<1>1. TypeOK'
  BY NextType DEF ShapeInv
<1>2. CASE UNCHANGED vars
  <2>1. LexInv'
    BY <1>2 DEF vars, lexer, LexInv, ShapeInv
  <2>2. TokenShape'
    BY <1>2, SameShape DEF vars, parser, ShapeInv
  <2> QED
    BY <1>1, <2>1, <2>2 DEF ShapeInv
<1> QED
  BY <1>1, <1>2, WhiteShape, QuotationShape, EscapeShape, InWordShape, OtherShape
  DEF Next, ShapeInv

(* Every token ParseToken returns is one token and all of it, whatever the    *)
(* file (config_parser.cc:164-287).                                           *)
THEOREM TokenShapeHolds == Spec => []TokenShape
<1>1. ShapeInv => TokenShape
  BY DEF ShapeInv
<1> QED
  BY <1>1, InitShape, NextShape, PTL DEF Spec
-----------------------------------------------------------------------------
(* What Parse accepts.  The stack is as deep as braces are open, until one    *)
(* too many has been closed, and last is the type of the last token.          *)

LEMMA Slice ==
  ASSUME NEW S, NEW s \in Seq(S), NEW m \in 1..Len(s) + 1, NEW n \in m - 1..Len(s)
  PROVE  /\ SubSeq(s, m, n) \in Seq(S) /\ Len(SubSeq(s, m, n)) = n - m + 1
         /\ \A i \in 1..n - m + 1 : SubSeq(s, m, n)[i] = s[m + i - 1]
<1>1. m \in Int /\ n \in Int /\ \A i \in m..n : s[i] \in S
  OBVIOUS
<1>2. SubSeq(s, m, n) \in Seq(S)
  BY <1>1, SubSeqProperties
<1>3. Len(SubSeq(s, m, n)) = n - m + 1
  OBVIOUS
<1>4. \A i \in 1..n - m + 1 : SubSeq(s, m, n)[i] = s[m + i - 1]
  BY <1>1, SubSeqProperties
<1> QED
  BY <1>2, <1>3, <1>4

LEMMA FrontParts ==
  ASSUME NEW S, NEW s \in Seq(S), s # <<>>
  PROVE  /\ Front(s) \in Seq(S) /\ Len(Front(s)) = Len(s) - 1
         /\ \A i \in 1..Len(s) - 1 : Front(s)[i] = s[i]
<1>1. 1 \in 1..Len(s) + 1 /\ Len(s) - 1 \in 1 - 1..Len(s) /\ Len(s) \in Nat \ {0}
  OBVIOUS
<1>2. Front(s) = SubSeq(s, 1, Len(s) - 1)
  BY DEF Front
<1>3. PICK n : n = Len(s) - 1
  OBVIOUS
<1>4. /\ Front(s) \in Seq(S) /\ Len(Front(s)) = n - 1 + 1
      /\ \A i \in 1..n - 1 + 1 : Front(s)[i] = s[1 + i - 1]
  BY <1>1, <1>2, <1>3, Slice
<1> QED
  BY <1>1, <1>3, <1>4

IsSeq(s) == \E S : s \in Seq(S)

LEMMA Pushed ==
  ASSUME NEW s, IsSeq(s), NEW x
  PROVE  IsSeq(Append(s, x)) /\ Append(s, x) # <<>> /\ Len(Append(s, x)) = Len(s) + 1
<1>1. PICK S : s \in Seq(S)
  BY DEF IsSeq
<1>2. s \in Seq(S \cup {x}) /\ x \in S \cup {x}
  BY <1>1, SeqMonotonic
<1>3. Append(s, x) \in Seq(S \cup {x}) /\ Len(Append(s, x)) = Len(s) + 1 /\ Append(s, x) # <<>>
  <2> DEFINE T == S \cup {x}
  <2>1. s \in Seq(T) /\ x \in T
    BY <1>2
  <2> HIDE DEF T
  <2>2. Append(s, x) \in Seq(T) /\ Len(Append(s, x)) = Len(s) + 1 /\ Append(s, x) # <<>>
    BY <2>1, AppendProperties
  <2> QED
    BY <2>2 DEF T
<1> QED
  BY <1>3 DEF IsSeq

LEMMA Popped ==
  ASSUME NEW s, IsSeq(s), s # <<>>
  PROVE  /\ Len(s) \in Nat \ {0} /\ IsSeq(Front(s)) /\ Len(Front(s)) = Len(s) - 1
         /\ Front(s) = <<>> <=> Len(s) = 1
<1>1. PICK S : s \in Seq(S)
  BY DEF IsSeq
<1>2. Len(s) \in Nat \ {0}
  BY <1>1
<1>3. Front(s) \in Seq(S) /\ Len(Front(s)) = Len(s) - 1
  BY <1>1, FrontParts
<1>4. Front(s) = <<>> <=> Len(s) = 1
  <2> PICK n \in Nat \ {0} : n = Len(s)
    BY <1>2
  <2> PICK f \in Seq(S) : f = Front(s) /\ Len(f) = n - 1
    BY <1>3
  <2>1. f = <<>> <=> Len(f) = 0
    BY EmptySeq
  <2>2. n - 1 = 0 <=> n = 1
    OBVIOUS
  <2> QED
    BY <2>1, <2>2, Zenon
<1> QED
  BY <1>2, <1>3, <1>4 DEF IsSeq

Kind(t) ==
  CASE t = <<";">> -> "end" [] t = <<"{">> -> "open" [] t = <<"}">> -> "close" [] OTHER -> "normal"
Behind(ts) == IF ts = <<>> THEN "start" ELSE Kind(ts[Len(ts)])

LEMMA Marks ==
  /\ <<";">> # <<"{">> /\ <<";">> # <<"}">> /\ <<"{">> # <<"}">>
  /\ \A t : IsWord(t) <=> t \notin {<<";">>, <<"{">>, <<"}">>}
<1>1. <<";">>[1] = ";" /\ <<"{">>[1] = "{" /\ <<"}">>[1] = "}"
  OBVIOUS
<1> QED
  BY <1>1 DEF IsWord, Mark

LEMMA Kinds ==
  /\ Kind(<<";">>) = "end" /\ Kind(<<"{">>) = "open" /\ Kind(<<"}">>) = "close"
  /\ \A t : /\ Kind(t) = "end" <=> t = <<";">>
            /\ Kind(t) = "open" <=> t = <<"{">>
            /\ Kind(t) = "close" <=> t = <<"}">>
            /\ Kind(t) = "normal" <=> IsWord(t)
  BY Marks DEF Kind

(* One token more. *)
LEMMA CountBefore ==
  ASSUME NEW S, NEW ts \in Seq(S), NEW t \in S, NEW x, NEW i \in 0..Len(ts)
  PROVE  Count(Append(ts, t), x, i) = Count(ts, x, i) /\ Count(ts, x, i) \in Nat
<1>1. i \in Nat /\ \A k \in 1..i : Append(ts, t)[k] = ts[k]
  OBVIOUS
<1>2. {k \in 1..i : Append(ts, t)[k] = x} = {k \in 1..i : ts[k] = x}
  BY <1>1
<1>3. IsFiniteSet(1..i) /\ {k \in 1..i : ts[k] = x} \subseteq 1..i
  BY <1>1, FS_Interval
<1>4. IsFiniteSet({k \in 1..i : ts[k] = x}) /\ Cardinality({k \in 1..i : ts[k] = x}) \in Nat
  BY <1>3, FS_Subset, FS_CardinalityType
<1> QED
  BY <1>2, <1>4 DEF Count

LEMMA CountLast ==
  ASSUME NEW S, NEW ts \in Seq(S), NEW t \in S, NEW x
  PROVE  /\ Count(ts, x, Len(ts)) \in Nat
         /\ Count(Append(ts, t), x, Len(ts) + 1) = Count(ts, x, Len(ts)) + (IF t = x THEN 1 ELSE 0)
<1> DEFINE n == Len(ts)
           us == Append(ts, t)
           old == {k \in 1..n : ts[k] = x}
           new == {k \in 1..n + 1 : us[k] = x}
<1>1. n \in Nat /\ us[n + 1] = t /\ \A k \in 1..n : us[k] = ts[k]
  OBVIOUS
<1>2. new = IF t = x THEN old \cup {n + 1} ELSE old
  BY <1>1
<1>3. n + 1 \notin old /\ IsFiniteSet(old) /\ Cardinality(old) \in Nat
  <2>1. IsFiniteSet(1..n) /\ old \subseteq 1..n /\ n + 1 \notin 1..n
    BY <1>1, FS_Interval
  <2> HIDE DEF old
  <2> QED
    BY <2>1, FS_Subset, FS_CardinalityType
<1>4. Cardinality(old \cup {n + 1}) = Cardinality(old) + 1
  BY <1>3, FS_AddElement
<1>5. Count(us, x, n + 1) = Cardinality(new) /\ Count(ts, x, n) = Cardinality(old)
  BY DEF Count
<1> HIDE DEF old, new
<1> QED
  BY <1>2, <1>3, <1>4, <1>5

LEMMA BeginsAppend ==
  ASSUME NEW S, NEW ts \in Seq(S), NEW t \in S
  PROVE  Begins(Append(ts, t)) <=>
           /\ Begins(ts)
           /\ t \in {<<";">>, <<"{">>} => Behind(ts) = "normal"
           /\ t = <<"}">> => Behind(ts) \in {"end", "open", "close"}
           /\ LET n == Len(ts) + 1 IN
              Count(Append(ts, t), <<"}">>, n) <= Count(Append(ts, t), <<"{">>, n)
<1> DEFINE n == Len(ts)
           us == Append(ts, t)
           Here(vs, i) ==
             /\ vs[i] \in {<<";">>, <<"{">>} => i > 1 /\ IsWord(vs[i - 1])
             /\ vs[i] = <<"}">> => i > 1 /\ ~IsWord(vs[i - 1])
             /\ Count(vs, <<"}">>, i) <= Count(vs, <<"{">>, i)
<1>1. n \in Nat /\ Len(us) = n + 1 /\ us[n + 1] = t /\ \A k \in 1..n : us[k] = ts[k]
  OBVIOUS
<1>2. ASSUME NEW i \in 1..n PROVE Here(us, i) <=> Here(ts, i)
  <2>1. us[i] = ts[i] /\ (i > 1 => us[i - 1] = ts[i - 1])
    BY <1>1, <1>2
  <2>2. ASSUME NEW x PROVE Count(us, x, i) = Count(ts, x, i)
    <3>1. i \in 0..Len(ts)
      BY <1>1, <1>2
    <3> QED
      BY <3>1, CountBefore
  <2>3. i > 1 => (IsWord(us[i - 1]) <=> IsWord(ts[i - 1]))
    BY <2>1
  <2>4. /\ Count(us, <<"}">>, i) = Count(ts, <<"}">>, i)
        /\ Count(us, <<"{">>, i) = Count(ts, <<"{">>, i)
    BY <2>2
  <2> HIDE DEF us
  <2> QED
    BY <2>1, <2>3, <2>4
<1>3. Here(us, n + 1) <=>
        /\ t \in {<<";">>, <<"{">>} => Behind(ts) = "normal"
        /\ t = <<"}">> => Behind(ts) \in {"end", "open", "close"}
        /\ Count(us, <<"}">>, n + 1) <= Count(us, <<"{">>, n + 1)
  <2>1. CASE n = 0
    BY <1>1, <2>1 DEF Behind
  <2>2. CASE n # 0
    <3>1. us[(n + 1) - 1] = ts[n] /\ n + 1 > 1 /\ Behind(ts) = Kind(ts[n])
      BY <1>1, <2>2 DEF Behind
    <3> QED
      BY <1>1, <3>1, Kinds, Marks
  <2> QED
    BY <2>1, <2>2
<1>4. /\ Begins(ts) <=> \A i \in 1..n : Here(ts, i)
      /\ Begins(us) <=> \A i \in 1..(n + 1) : Here(us, i)
  BY <1>1 DEF Begins
<1>5. 1..(n + 1) = (1..n) \cup {n + 1}
  BY <1>1
<1> HIDE DEF Here
<1> QED
  BY <1>2, <1>3, <1>4, <1>5

Opened(ts) == Count(ts, <<"{">>, Len(ts))
Closed(ts) == Count(ts, <<"}">>, Len(ts))

(* While Parse has not returned. *)
BraceInv ==
  /\ IsSeq(stack)
  /\ result = "none" /\ last # "eof" =>
       /\ last = Behind(tokens)
       /\ IF Empty THEN last = "close" /\ ~Begins(tokens)
          ELSE Begins(tokens) /\ Len(stack) + Closed(tokens) = 1 + Opened(tokens)
  /\ result = "none" /\ last = "eof" => ahead = "eof" /\ ~Empty /\ ~Balanced(tokens)
  /\ error => result = "false"

AcceptInv == TypeOK /\ BraceInv /\ AcceptsBalanced

LEMMA Numbers ==
  ASSUME TypeOK, BraceInv
  PROVE  Len(stack) \in Nat /\ Opened(tokens) \in Nat /\ Closed(tokens) \in Nat
         /\ (Empty <=> Len(stack) = 0)
<1>1. PICK S : stack \in Seq(S)
  BY DEF BraceInv, IsSeq
<1>2. tokens \in Seq(Seq(Char)) /\ Len(tokens) \in 0..Len(tokens)
  BY DEF TypeOK
<1>3. Opened(tokens) \in Nat /\ Closed(tokens) \in Nat
  BY <1>2, CountLast, EmptySeq DEF Opened, Closed
<1> QED
  BY <1>1, <1>3, EmptySeq DEF Empty

(* What a token adds to the braces and puts behind. *)
LEMMA TokenCounts ==
  ASSUME NEW ts \in Seq(Seq(Char)), NEW t \in Seq(Char), NEW x
  PROVE  LET us == Append(ts, t)
             old == Count(ts, x, Len(ts))
             new == Count(us, x, Len(us)) IN
         /\ old \in Nat /\ new \in Nat
         /\ t = x => new = old + 1
         /\ t # x => new = old
<1> DEFINE us == Append(ts, t)
           old == Count(ts, x, Len(ts))
           new == Count(us, x, Len(us))
<1>1. Len(us) = Len(ts) + 1
  BY AppendProperties
<1>2. old \in Nat /\ new = old + (IF t = x THEN 1 ELSE 0)
  BY <1>1, CountLast
<1> HIDE DEF us, old, new
<1>3. t = x => new = old + 1
  BY <1>2
<1>4. t # x => new = old
  BY <1>2
<1> QED
  BY <1>2, <1>3, <1>4 DEF us, old, new

LEMMA TokenAppend ==
  ASSUME NEW ts \in Seq(Seq(Char)), NEW t \in Seq(Char)
  PROVE  LET us == Append(ts, t) IN
         /\ Opened(ts) \in Nat /\ Opened(us) \in Nat /\ Closed(ts) \in Nat /\ Closed(us) \in Nat
         /\ t = <<"{">> => Opened(us) = Opened(ts) + 1
         /\ t # <<"{">> => Opened(us) = Opened(ts)
         /\ t = <<"}">> => Closed(us) = Closed(ts) + 1
         /\ t # <<"}">> => Closed(us) = Closed(ts)
         /\ Behind(us) = Kind(t)
         /\ Begins(us) <=> /\ Begins(ts)
                           /\ t \in {<<";">>, <<"{">>} => Behind(ts) = "normal"
                           /\ t = <<"}">> => Behind(ts) \in {"end", "open", "close"}
                           /\ Closed(us) <= Opened(us)
<1> DEFINE us == Append(ts, t)
<1>1. us \in Seq(Seq(Char)) /\ us # <<>> /\ Len(us) = Len(ts) + 1 /\ us[Len(us)] = t
  BY AppendProperties
<1>2. Behind(us) = Kind(t)
  BY <1>1 DEF Behind
<1>3. /\ Opened(ts) \in Nat /\ Opened(us) \in Nat
      /\ t = <<"{">> => Opened(us) = Opened(ts) + 1
      /\ t # <<"{">> => Opened(us) = Opened(ts)
  BY TokenCounts, Zenon DEF Opened
<1>4. /\ Closed(ts) \in Nat /\ Closed(us) \in Nat
      /\ t = <<"}">> => Closed(us) = Closed(ts) + 1
      /\ t # <<"}">> => Closed(us) = Closed(ts)
  BY TokenCounts, Zenon DEF Closed
<1>5. Begins(us) <=> /\ Begins(ts)
                     /\ t \in {<<";">>, <<"{">>} => Behind(ts) = "normal"
                     /\ t = <<"}">> => Behind(ts) \in {"end", "open", "close"}
                     /\ Closed(us) <= Opened(us)
  BY <1>1, BeginsAppend DEF Opened, Closed
<1> QED
  BY <1>2, <1>3, <1>4, <1>5

LEMMA BehindKinds ==
  ASSUME NEW ts
  PROVE  Behind(ts) \in {"start", "normal", "end", "open", "close"}
  BY DEF Behind, Kind

(* While no brace too many has been closed, fewer are closed than opened. *)
LEMMA ClosedOpened ==
  ASSUME TypeOK, BraceInv, result = "none", last # "eof", ~Empty
  PROVE  Closed(tokens) <= Opened(tokens)
  BY Numbers DEF BraceInv

LEMMA GiveBraces ==
  ASSUME AcceptInv, result = "none", last # "eof", NEW t \in Seq(Char), Give(t), ahead' # "eof"
  PROVE  BraceInv' /\ AcceptsBalanced'
<1> USE DEF AcceptInv
<1> DEFINE us == Append(tokens, t)
<1>1. /\ tokens \in Seq(Seq(Char)) /\ tokens' = us /\ error' = error /\ ~error /\ IsSeq(stack)
      /\ last = Behind(tokens)
  BY DEF Give, TypeOK, BraceInv
<1>2. /\ Opened(tokens) \in Nat /\ Opened(us) \in Nat
      /\ Closed(tokens) \in Nat /\ Closed(us) \in Nat
      /\ Behind(us) = Kind(t)
  BY <1>1, TokenAppend
<1>n. /\ t # <<"{">> => Opened(us) = Opened(tokens)
      /\ t = <<"{">> => Opened(us) = Opened(tokens) + 1
      /\ t # <<"}">> => Closed(us) = Closed(tokens)
      /\ t = <<"}">> => Closed(us) = Closed(tokens) + 1
  BY <1>1, TokenAppend
<1>b. Begins(us) <=> /\ Begins(tokens)
                     /\ t \in {<<";">>, <<"{">>} => last = "normal"
                     /\ t = <<"}">> => last \in {"end", "open", "close"}
                     /\ Closed(us) <= Opened(us)
  BY <1>1, TokenAppend
<1> HIDE DEF us
<1>3. Empty => last = "close" /\ ~Begins(tokens)
  BY DEF BraceInv
<1>4. ~Empty => /\ Begins(tokens) /\ Len(stack) + Closed(tokens) = 1 + Opened(tokens)
                /\ Closed(tokens) <= Opened(tokens) /\ stack # <<>>
  BY ClosedOpened DEF BraceInv, Empty
<1>r. ASSUME Return("false") \/ Return("undefined"), ~Begins(us) PROVE BraceInv' /\ AcceptsBalanced'
  BY <1>1, <1>r DEF Return, BraceInv, AcceptsBalanced
<1>c. ASSUME NEW k, Continue(k, stack'), k = Kind(t), k # "eof", IsSeq(stack'),
             stack' # <<>> => Begins(us) /\ Len(stack') + Closed(us) = 1 + Opened(us),
             stack' = <<>> => k = "close" /\ ~Begins(us)
      PROVE  BraceInv' /\ AcceptsBalanced'
  BY <1>1, <1>2, <1>c DEF Continue, NextLast, BraceInv, AcceptsBalanced, Empty
<1>5. CASE IsWord(t)
  <2>1. Word(t) /\ Kind(t) = "normal" /\ t \notin {<<";">>, <<"{">>, <<"}">>}
    BY <1>5, Marks, Kinds DEF Give
  <2>2. CASE Empty
    BY <1>1, <1>3, <1>b, <1>r, <2>1, <2>2, BehindKinds DEF Word
  <2>3. CASE ~Empty
    <3>1. Continue("normal", Append(Front(stack), AddWord(t)))
      BY <1>1, <2>1, <2>3, BehindKinds DEF Word
    <3>2. /\ stack' # <<>> /\ IsSeq(stack') /\ Len(stack') = Len(stack)
          /\ Continue("normal", stack')
      BY <1>1, <1>4, <2>3, <3>1, Popped, Pushed DEF Continue
    <3>3. Begins(us) /\ Len(stack') + Closed(us) = 1 + Opened(us)
      BY <1>b, <1>n, <1>4, <2>1, <2>3, <3>2
    <3> QED
      BY <1>c, <2>1, <3>2, <3>3
  <2> QED
    BY <2>2, <2>3
<1>6. CASE t = <<";">>
  <2>1. StatementEnd /\ Kind(t) = "end" /\ t \notin {<<"{">>, <<"}">>}
    BY <1>6, Marks, Kinds DEF Give
  <2>2. CASE last # "normal"
    BY <1>b, <1>6, <1>r, <2>1, <2>2 DEF StatementEnd
  <2>3. CASE last = "normal"
    <3>1. Continue("end", stack') /\ stack' = stack /\ ~Empty
      BY <1>3, <2>1, <2>3 DEF StatementEnd, Continue
    <3>2. Begins(us) /\ Len(stack') + Closed(us) = 1 + Opened(us)
      BY <1>b, <1>n, <1>4, <1>6, <2>1, <2>3, <3>1
    <3> QED
      BY <1>1, <1>4, <1>c, <2>1, <3>1, <3>2
  <2> QED
    BY <2>2, <2>3
<1>7. CASE t = <<"{">>
  <2>1. StartBlock /\ Kind(t) = "open" /\ t # <<"}">>
    BY <1>7, Marks, Kinds DEF Give
  <2>2. CASE last # "normal"
    BY <1>b, <1>7, <1>r, <2>1, <2>2 DEF StartBlock
  <2>3. CASE last = "normal"
    <3>1. Continue("open", stack') /\ stack' # <<>> /\ IsSeq(stack') /\ Len(stack') = Len(stack) + 1
      BY <1>1, <2>1, <2>3, Pushed DEF StartBlock, Continue
    <3>2. ~Empty /\ Len(stack) \in Nat
      BY <1>3, <2>3, Numbers
    <3>3. Closed(us) <= Opened(us)
      <4>1. Closed(tokens) <= Opened(tokens) /\ Closed(us) = Closed(tokens) /\ Opened(us) = Opened(tokens) + 1
        BY <1>n, <1>4, <1>7, <2>1, <3>2
      <4> QED
        BY <1>2, <4>1
    <3>4. Begins(us) /\ Len(stack') + Closed(us) = 1 + Opened(us)
      <4>1. Begins(us)
        BY <1>b, <1>4, <1>7, <2>1, <2>3, <3>2, <3>3
      <4>2. Len(stack') = Len(stack) + 1 /\ Closed(us) = Closed(tokens) /\ Opened(us) = Opened(tokens) + 1
        BY <1>n, <1>7, <2>1, <3>1
      <4>3. Len(stack) + Closed(tokens) = 1 + Opened(tokens)
        BY <1>4, <3>2
      <4> QED
        BY <1>2, <3>2, <4>1, <4>2, <4>3
    <3> QED
      BY <1>c, <2>1, <3>1, <3>4
  <2> QED
    BY <2>2, <2>3
<1>8. CASE t = <<"}">>
  <2>1. EndBlock /\ Kind(t) = "close" /\ t # <<"{">> /\ t # <<";">>
    BY <1>8, Marks, Kinds DEF Give
  <2>2. CASE last \notin {"end", "close", "open"}
    BY <1>b, <1>8, <1>r, <2>1, <2>2 DEF EndBlock
  <2>3. CASE last \in {"end", "close", "open"} /\ Empty
    BY <1>b, <1>3, <1>r, <2>1, <2>3 DEF EndBlock
  <2>4. CASE last \in {"end", "close", "open"} /\ ~Empty
    <3> DEFINE outer == Front(stack)
    <3>1. Continue("close", Close) /\ stack' = Close
      BY <2>1, <2>4 DEF EndBlock, Continue
    <3>2. Len(stack) \in Nat /\ IsSeq(outer) /\ Len(outer) = Len(stack) - 1 /\ (outer = <<>> <=> Len(stack) = 1)
      BY <1>1, <1>4, <2>4, Popped
    <3>3. CASE outer = <<>>
      <4>1. stack' = <<>> /\ IsSeq(<<>>)
        BY <3>1, <3>3 DEF Close, IsSeq
      <4>2. ~Begins(us)
        <5>1. Len(stack) = 1 /\ Len(stack) + Closed(tokens) = 1 + Opened(tokens)
          BY <1>4, <2>4, <3>2, <3>3
        <5>2. Closed(us) = Closed(tokens) + 1 /\ Opened(us) = Opened(tokens)
          BY <1>n, <1>8, <2>1
        <5>3. ~(Closed(us) <= Opened(us))
          BY <1>2, <5>1, <5>2
        <5> QED
          BY <1>b, <5>3
      <4> QED
        BY <1>c, <2>1, <3>1, <4>1, <4>2
    <3>4. CASE outer # <<>>
      <4>1. PICK x : stack' = Append(Front(outer), x)
        BY <3>1, <3>4 DEF Close
      <4>2. stack' # <<>> /\ IsSeq(stack') /\ Len(stack') = Len(stack) - 1
        BY <3>2, <3>4, <4>1, Popped, Pushed
      <4>3. Begins(us) /\ Len(stack') + Closed(us) = 1 + Opened(us)
        <5>1. Len(stack) # 1 /\ Len(stack) # 0
          BY <1>4, <2>4, <3>2, <3>4
        <5>2. /\ Len(stack) + Closed(tokens) = 1 + Opened(tokens) /\ Len(stack') = Len(stack) - 1
              /\ Closed(us) = Closed(tokens) + 1 /\ Opened(us) = Opened(tokens)
          BY <1>n, <1>4, <1>8, <2>1, <2>4, <4>2
        <5>3. Closed(us) <= Opened(us) /\ Len(stack') + Closed(us) = 1 + Opened(us)
          BY <1>2, <3>2, <5>1, <5>2
        <5> QED
          BY <1>b, <1>4, <1>8, <2>1, <2>4, <5>3
      <4> QED
        BY <1>c, <2>1, <3>1, <4>2, <4>3
    <3> QED
      BY <3>3, <3>4
  <2> QED
    BY <2>2, <2>3, <2>4
<1> QED
  BY <1>5, <1>6, <1>7, <1>8, Marks

LEMMA BalancedParts ==
  ASSUME NEW ts \in Seq(Seq(Char))
  PROVE  Balanced(ts) <=> /\ Begins(ts) /\ Opened(ts) = Closed(ts)
                          /\ Behind(ts) \in {"start", "end", "close"}
<1>1. CASE ts = <<>>
  BY <1>1 DEF Balanced, Opened, Closed, Behind
<1>2. CASE ts # <<>>
  <2>1. Len(ts) > 0 /\ Behind(ts) = Kind(ts[Len(ts)])
    BY <1>2 DEF Behind
  <2>2. /\ Kind(ts[Len(ts)]) \in {"start", "end", "close"} <=> ts[Len(ts)] \in {<<";">>, <<"}">>}
    BY Marks DEF Kind
  <2> QED
    BY <2>1, <2>2 DEF Balanced, Opened, Closed
<1> QED
  BY <1>1, <1>2

LEMMA OneOpen ==
  ASSUME NEW d \in Nat, NEW o \in Nat, NEW c \in Nat, d + c = 1 + o
  PROVE  d = 1 <=> o = c
  OBVIOUS

LEMMA GiveEndBraces ==
  ASSUME AcceptInv, result = "none", GiveEnd, ahead' = "eof"
  PROVE  BraceInv' /\ AcceptsBalanced'
<1> USE DEF AcceptInv
<1>1. tokens \in Seq(Seq(Char)) /\ tokens' = tokens /\ error' = error /\ ~error /\ IsSeq(stack)
  BY DEF GiveEnd, TypeOK, BraceInv
<1>r. ASSUME Return("false"), ~Balanced(tokens) PROVE BraceInv' /\ AcceptsBalanced'
  BY <1>1, <1>r DEF Return, BraceInv, AcceptsBalanced
<1>2. CASE last = "eof"
  <2>1. Return("false") /\ ~Balanced(tokens)
    BY <1>2 DEF GiveEnd, EndOfFile, BraceInv
  <2> QED
    BY <1>r, <2>1
<1>3. CASE last # "eof"
  <2>1. /\ last = Behind(tokens)
        /\ Balanced(tokens) <=> /\ Begins(tokens) /\ Opened(tokens) = Closed(tokens)
                                /\ last \in {"start", "end", "close"}
    BY <1>1, <1>3, BalancedParts DEF BraceInv
  <2>2. Empty => ~Begins(tokens)
    BY <1>3 DEF BraceInv
  <2>3. CASE last \notin {"end", "close", "start"}
    BY <1>r, <2>1, <2>3 DEF GiveEnd, EndOfFile
  <2>4. CASE last \in {"end", "close", "start"} /\ Empty
    <3>1. Return("undefined")
      BY <2>4 DEF GiveEnd, EndOfFile
    <3> QED
      BY <1>1, <2>2, <2>4, <3>1 DEF Return, BraceInv, AcceptsBalanced
  <2>5. CASE last \in {"end", "close", "start"} /\ ~Empty
    <3>1. /\ Begins(tokens) /\ Len(stack) + Closed(tokens) = 1 + Opened(tokens)
          /\ Len(stack) \in Nat /\ Opened(tokens) \in Nat /\ Closed(tokens) \in Nat
      BY <1>3, <2>5, Numbers DEF BraceInv
    <3>2. Balanced(tokens) <=> Len(stack) = 1
      <4>1. Len(stack) = 1 <=> Opened(tokens) = Closed(tokens)
        BY <3>1, OneOpen
      <4> QED
        BY <2>1, <2>5, <3>1, <4>1
    <3>3. CASE Len(stack) = 1
      <4>1. result' = "true" /\ UNCHANGED <<last, stack>>
        BY <2>5, <3>3 DEF GiveEnd, EndOfFile
      <4> QED
        BY <1>1, <3>2, <3>3, <4>1 DEF BraceInv, AcceptsBalanced
    <3>4. CASE Len(stack) # 1
      <4>1. Continue("eof", Front(stack)) /\ stack # <<>>
        BY <2>5, <3>4 DEF GiveEnd, EndOfFile, Empty
      <4>2. stack' = Front(stack) /\ last' = "eof" /\ result' = "none" /\ stack' # <<>> /\ IsSeq(stack')
        BY <1>1, <3>4, <4>1, Popped DEF Continue, NextLast
      <4> QED
        BY <1>1, <3>2, <3>4, <4>2 DEF BraceInv, AcceptsBalanced, Empty
    <3> QED
      BY <3>3, <3>4
  <2> QED
    BY <2>3, <2>4, <2>5
<1> QED
  BY <1>2, <1>3

LEMMA GiveErrorBraces ==
  ASSUME AcceptInv, GiveError
  PROVE  BraceInv' /\ AcceptsBalanced'
  BY DEF AcceptInv, GiveError, Return, BraceInv, AcceptsBalanced

(* A step of ParseToken that returns no token. *)
LEMMA ReadBraces ==
  ASSUME AcceptInv, UNCHANGED parser, result = "none", last # "eof"
  PROVE  BraceInv' /\ AcceptsBalanced'
  BY DEF AcceptInv, parser, BraceInv, AcceptsBalanced, Empty

LEMMA GetBraces ==
  ASSUME AcceptInv, NEW c \in Char, Get(c)
  PROVE  result = "none" /\ last # "eof"
  BY Chars DEF AcceptInv, Get, BraceInv

LEMMA AcceptInit == Init => AcceptInv
<1> SUFFICES ASSUME Init PROVE AcceptInv
  OBVIOUS
<1>1. /\ stack = << <<>> >> /\ result = "none" /\ last = "start" /\ tokens = <<>> /\ ~error
      /\ Len(stack) = 1 /\ ~Empty
  BY DEF Init, Empty
<1>2. IsSeq(stack)
  <2>1. stack \in Seq({<<>>})
    BY <1>1
  <2> QED
    BY <2>1 DEF IsSeq
<1>3. Begins(tokens) /\ last = Behind(tokens)
  BY <1>1 DEF Begins, Behind
<1>4. Opened(tokens) = 0 /\ Closed(tokens) = 0
  <2>1. Len(tokens) = 0 /\ \A x : {i \in 1..0 : tokens[i] = x} = {}
    BY <1>1
  <2> QED
    BY <2>1, FS_EmptySet DEF Opened, Closed, Count
<1> QED
  BY <1>1, <1>2, <1>3, <1>4, InitType DEF AcceptInv, BraceInv, AcceptsBalanced

LEMMA AcceptStep ==
  ASSUME AcceptInv, [Next]_vars
  PROVE  AcceptInv'
<1>1. TypeOK /\ TypeOK'
  BY NextType DEF AcceptInv
<1> SUFFICES BraceInv' /\ AcceptsBalanced'
  BY <1>1 DEF AcceptInv
<1>2. CASE UNCHANGED vars
  BY <1>2 DEF AcceptInv, vars, lexer, parser, BraceInv, AcceptsBalanced, Empty
<1>3. CASE White
  <2>1. PICK c \in Char :
          /\ Get(c) /\ ahead' = "none"
          /\ (c \in Mark /\ Give(<<c>>)) \/ UNCHANGED parser
    BY <1>3 DEF White, Go
  <2>2. <<c>> \in Seq(Char) /\ ahead' # "eof"
    BY <2>1
  <2> QED
    BY <2>1, <2>2, GetBraces, GiveBraces, ReadBraces
<1>4. CASE Quotation
  <2>1. PICK c \in Char :
          /\ Get(c)
          /\ \/ Give(Append(value, c)) /\ ahead' \in Separator
             \/ GiveError
             \/ UNCHANGED parser
    BY <1>4 DEF Quotation, Go
  <2>2. Append(value, c) \in Seq(Char) /\ "eof" \notin Separator
    BY <1>1, <2>1, Chars DEF TypeOK
  <2> QED
    BY <2>1, <2>2, GetBraces, GiveBraces, GiveErrorBraces, ReadBraces
<1>5. CASE InWord
  <2>1. PICK c \in Char :
          /\ Get(c)
          /\ (Give(value) /\ ahead' = c) \/ UNCHANGED parser
    BY <1>5 DEF InWord, Go
  <2>2. value \in Seq(Char) /\ c # "eof"
    BY <1>1, <2>1, Chars DEF TypeOK
  <2> QED
    BY <2>1, <2>2, GetBraces, GiveBraces, ReadBraces
<1>6. CASE Escape \/ Comment
  <2>1. (\E c \in Char : Get(c)) /\ UNCHANGED parser
    BY <1>6 DEF Escape, Comment, Go
  <2> QED
    BY <2>1, GetBraces, ReadBraces
<1>7. CASE AtEnd
  BY <1>7, GiveEndBraces, GiveErrorBraces DEF AtEnd, Get
<1> QED
  BY <1>2, <1>3, <1>4, <1>5, <1>6, <1>7 DEF Next

(* Parse returns true exactly if every statement ends and the braces balance, *)
(* and otherwise stops where the file can no longer become a configuration    *)
(* (Parse, config_parser.cc:291-391), however deep the blocks are.            *)
THEOREM AcceptsBalancedHolds == Spec => []AcceptsBalanced
<1>1. Init => AcceptInv
  BY AcceptInit
<1>2. AcceptInv /\ [Next]_vars => AcceptInv'
  BY AcceptStep
<1>3. AcceptInv => AcceptsBalanced
  BY DEF AcceptInv
<1> QED
  BY <1>1, <1>2, <1>3, PTL DEF Spec
-----------------------------------------------------------------------------
(* The grammar.  ConfigGrammar writes it as recursive operators; here it is   *)
(* the rules a set of token sequences, or a relation between configurations   *)
(* and token sequences, may be closed under: nothing is a configuration, and  *)
(* a configuration grows by a statement that ends or by one with a block.     *)

Words == {ws \in Seq(Seq(Char)) : ws # <<>> /\ \A i \in 1..Len(ws) : IsWord(ws[i])}

Ended(ts, ws)       == Append(ts \o ws, <<";">>)
Enclosed(ts, ws, us) == Append(Append(ts \o ws, <<"{">>) \o us, <<"}">>)

Grammar(V) ==
  /\ <<>> \in V
  /\ \A ts \in V, ws \in Words : Ended(ts, ws) \in V
  /\ \A ts \in V, ws \in Words, us \in V : Enclosed(ts, ws, us) \in V

(* ts is a configuration: in the least set closed under the rules.            *)
Grammatical(ts) == \A V \in SUBSET Seq(Seq(Char)) : Grammar(V) => ts \in V

Block(ws, c) == [tokens |-> ws, block |-> <<c>>]

Writes(P) ==
  /\ << <<>>, <<>> >> \in P
  /\ \A c, ts, ws :
       <<c, ts>> \in P /\ ws \in Words => <<Append(c, Statement(ws)), Ended(ts, ws)>> \in P
  /\ \A c, ts, ws, d, us :
       <<c, ts>> \in P /\ ws \in Words /\ <<d, us>> \in P
         => <<Append(c, Block(ws, d)), Enclosed(ts, ws, us)>> \in P

(* Both at once, R = <<P, V>>; without the relation if that is empty.         *)
In(R, c, ts) == (R[1] # {} => <<c, ts>> \in R[1]) /\ ts \in R[2]

Rules(R) ==
  /\ In(R, <<>>, <<>>)
  /\ \A c, ts, ws :
       In(R, c, ts) /\ ws \in Words => In(R, Append(c, Statement(ws)), Ended(ts, ws))
  /\ \A c, ts, ws, d, us :
       In(R, c, ts) /\ ws \in Words /\ In(R, d, us)
         => In(R, Append(c, Block(ws, d)), Enclosed(ts, ws, us))

LEMMA BothRules ==
  ASSUME NEW P, P # {} => Writes(P), NEW V, Grammar(V)
  PROVE  Rules(<<P, V>>)
  BY DEF Rules, In, Writes, Grammar

(* The tokens from m to j are the configuration s, or are s but for the end   *)
(* of its last statement.                                                     *)
Whole(R, s, m, j, ts) == IsSeq(s) /\ In(R, s, SubSeq(ts, m, j))

Begun(R, s, m, j, ts) ==
  \E c : \E k \in (m - 1)..j :
    /\ Whole(R, c, m, k, ts) /\ SubSeq(ts, k + 1, j) \in Words
    /\ s = Append(c, Statement(SubSeq(ts, k + 1, j)))

Current(R, s, m, ts, kind) ==
  IF kind = "normal" THEN Begun(R, s, m, Len(ts), ts) ELSE Whole(R, s, m, Len(ts), ts)

(* The i-th configuration on the stack began after token b[i], a brace.       *)
Below(R, stk, b, n, ts) ==
  \A i \in 1..n - 1 :
    /\ b[i] < b[i + 1] /\ Kind(ts[b[i + 1]]) = "open"
    /\ Begun(R, stk[i], b[i] + 1, b[i + 1] - 1, ts)

Stands(R, stk, ts, kind) ==
  \E b \in [1..Len(stk) -> 0..Len(ts)] :
    /\ b[1] = 0
    /\ Below(R, stk, b, Len(stk), ts)
    /\ Current(R, stk[Len(stk)], b[Len(stk)] + 1, ts, kind)

LEMMA FrontLast ==
  ASSUME NEW s, IsSeq(s), NEW x
  PROVE  Front(Append(s, x)) = s /\ Last(Append(s, x)) = x
<1>1. PICK S : s \in Seq(S)
  BY DEF IsSeq
<1>2. s \in Seq(S \cup {x}) /\ x \in S \cup {x}
  BY <1>1, SeqMonotonic
<1> QED
  <2> DEFINE T == S \cup {x}
             u == Append(s, x)
  <2>1. s \in Seq(T) /\ x \in T
    BY <1>2
  <2> HIDE DEF T
  <2>2. /\ u \in Seq(T) /\ u # <<>> /\ Len(u) = Len(s) + 1 /\ u[Len(s) + 1] = x
        /\ \A i \in 1..Len(s) : u[i] = s[i]
    BY <2>1, AppendProperties
  <2>3. Last(u) = x
    BY <2>2 DEF Last
  <2>4. Front(u) \in Seq(T) /\ Len(Front(u)) = Len(u) - 1
        /\ \A i \in 1..Len(u) - 1 : Front(u)[i] = u[i]
    BY <2>2, FrontParts
  <2>5. Len(Front(u)) = Len(s) /\ \A i \in 1..Len(s) : Front(u)[i] = s[i]
    BY <2>1, <2>2, <2>4
  <2>6. Front(u) = s
    BY <2>1, <2>4, <2>5, SeqEqual
  <2> QED
    BY <2>3, <2>6

(* Slices of a token sequence that has a token more. *)
LEMMA SliceKeep ==
  ASSUME NEW S, NEW ts \in Seq(S), NEW t \in S,
         NEW m \in 1..Len(ts) + 1, NEW j \in m - 1..Len(ts)
  PROVE  SubSeq(Append(ts, t), m, j) = SubSeq(ts, m, j)
<1> DEFINE us == Append(ts, t)
<1>1. /\ us \in Seq(S) /\ Len(us) = Len(ts) + 1 /\ \A i \in 1..Len(ts) : us[i] = ts[i]
      /\ Len(ts) \in Nat
  BY AppendProperties
<1> HIDE DEF us
<1>2. m \in 1..Len(us) + 1 /\ j \in m - 1..Len(us)
  BY <1>1
<1>3. /\ SubSeq(us, m, j) \in Seq(S) /\ Len(SubSeq(us, m, j)) = j - m + 1
      /\ \A i \in 1..j - m + 1 : SubSeq(us, m, j)[i] = us[m + i - 1]
  BY <1>1, <1>2, Slice
<1>4. /\ SubSeq(ts, m, j) \in Seq(S) /\ Len(SubSeq(ts, m, j)) = j - m + 1
      /\ \A i \in 1..j - m + 1 : SubSeq(ts, m, j)[i] = ts[m + i - 1]
  BY Slice
<1>5. \A i \in 1..j - m + 1 : m + i - 1 \in 1..Len(ts)
  BY <1>1
<1>6. \A i \in 1..j - m + 1 : SubSeq(us, m, j)[i] = SubSeq(ts, m, j)[i]
  BY <1>1, <1>3, <1>4, <1>5
<1> QED
  BY <1>3, <1>4, <1>6, SeqEqual DEF us

LEMMA SliceGrow ==
  ASSUME NEW S, NEW ts \in Seq(S), NEW t \in S, NEW m \in 1..Len(ts) + 1
  PROVE  SubSeq(Append(ts, t), m, Len(ts) + 1) = Append(SubSeq(ts, m, Len(ts)), t)
<1> DEFINE us == Append(ts, t)
           n == Len(ts)
<1>1. us \in Seq(S) /\ Len(us) = n + 1 /\ us[n + 1] = t /\ n \in Nat
  BY AppendProperties
<1>2. SubSeq(us, m, n) = SubSeq(ts, m, n)
  BY <1>1, SliceKeep
<1>3. SubSeq(ts, m, n) \in Seq(S)
  BY <1>1, Slice
<1> HIDE DEF us
<1>4. m \in 1..Len(us) /\ n + 1 \in m..Len(us) /\ (n + 1) - 1 = n
  BY <1>1
<1>5. SubSeq(us, m, n + 1) = SubSeq(us, m, n) \o <<t>>
  BY <1>1, <1>4, SubSeqRecursiveSecond
<1>6. SubSeq(ts, m, n) \o <<t>> = Append(SubSeq(ts, m, n), t)
  BY <1>3, AppendIsConcat
<1> QED
  BY <1>2, <1>5, <1>6 DEF us

LEMMA WholeKeep ==
  ASSUME NEW R, NEW ts \in Seq(Seq(Char)), NEW t \in Seq(Char), NEW s,
         NEW m \in 1..Len(ts) + 1, NEW j \in m - 1..Len(ts), Whole(R, s, m, j, ts)
  PROVE  Whole(R, s, m, j, Append(ts, t))
  BY SliceKeep DEF Whole

LEMMA BegunKeep ==
  ASSUME NEW R, NEW ts \in Seq(Seq(Char)), NEW t \in Seq(Char), NEW s,
         NEW m \in 1..Len(ts) + 1, NEW j \in m - 1..Len(ts), Begun(R, s, m, j, ts)
  PROVE  Begun(R, s, m, j, Append(ts, t))
<1> DEFINE us == Append(ts, t)
<1>0. PICK c : \E k \in (m - 1)..j :
        /\ Whole(R, c, m, k, ts) /\ SubSeq(ts, k + 1, j) \in Words
        /\ s = Append(c, Statement(SubSeq(ts, k + 1, j)))
  BY DEF Begun
<1>1. PICK k \in (m - 1)..j :
        /\ Whole(R, c, m, k, ts) /\ SubSeq(ts, k + 1, j) \in Words
        /\ s = Append(c, Statement(SubSeq(ts, k + 1, j)))
  BY <1>0
<1>2. k \in m - 1..Len(ts) /\ k + 1 \in 1..Len(ts) + 1 /\ j \in (k + 1) - 1..Len(ts)
  OBVIOUS
<1>3. Whole(R, c, m, k, us)
  BY <1>1, <1>2, WholeKeep
<1>4. SubSeq(us, k + 1, j) = SubSeq(ts, k + 1, j)
  BY <1>2, SliceKeep
<1> HIDE DEF us
<1>5. Begun(R, s, m, j, us)
  BY <1>1, <1>3, <1>4 DEF Begun
<1> QED
  BY <1>5 DEF us

LEMMA BegunParts ==
  ASSUME NEW R, NEW ts, NEW m, NEW j, NEW c, NEW k \in (m - 1)..j, NEW ws \in Words,
         Whole(R, c, m, k, ts), SubSeq(ts, k + 1, j) = ws
  PROVE  Begun(R, Append(c, Statement(ws)), m, j, ts)
  BY Zenon DEF Begun

LEMMA StatementParts ==
  ASSUME NEW ws, NEW x
  PROVE  /\ [Statement(ws) EXCEPT !.tokens = x] = Statement(x) /\ Statement(ws).tokens = ws
         /\ [Statement(ws) EXCEPT !.block = <<x>>] = Block(ws, x)
  BY DEF Statement, Block

LEMMA WordsAppend ==
  ASSUME NEW t \in Seq(Char), IsWord(t)
  PROVE  /\ <<t>> \in Words
         /\ \A ws \in Words : Append(ws, t) \in Words
<1>1. <<t>> \in Words
  BY DEF Words
<1>2. ASSUME NEW ws \in Words PROVE Append(ws, t) \in Words
  <2>1. ws \in Seq(Seq(Char)) /\ Append(ws, t) \in Seq(Seq(Char)) /\ Append(ws, t) # <<>>
    BY AppendProperties DEF Words
  <2>2. \A i \in 1..Len(Append(ws, t)) :
          Append(ws, t)[i] = t \/ (i \in 1..Len(ws) /\ Append(ws, t)[i] = ws[i])
    BY <2>1
  <2> QED
    BY <2>1, <2>2 DEF Words
<1> QED
  BY <1>1, <1>2

(* A word begins a statement, or is added to the one that has begun. *)
LEMMA WordBegins ==
  ASSUME NEW R, NEW ts \in Seq(Seq(Char)), NEW t \in Seq(Char), IsWord(t), NEW s,
         NEW m \in 1..Len(ts) + 1, Whole(R, s, m, Len(ts), ts)
  PROVE  Begun(R, Append(s, Statement(<<t>>)), m, Len(ts) + 1, Append(ts, t))
<1> DEFINE us == Append(ts, t)
           n == Len(ts)
<1>1. n \in Nat /\ n \in m - 1..n + 1 /\ n \in m - 1..n
  OBVIOUS
<1>2. Whole(R, s, m, n, us)
  BY <1>1, WholeKeep
<1>3. SubSeq(us, n + 1, n + 1) = <<t>>
  <2>1. n + 1 \in 1..Len(ts) + 1 /\ n < n + 1 /\ n \in Int /\ n + 1 \in Int
    BY <1>1
  <2>2. SubSeq(us, n + 1, n + 1) = Append(SubSeq(ts, n + 1, n), t)
    BY <2>1, SliceGrow
  <2>3. SubSeq(ts, n + 1, n) = <<>>
    BY <2>1, SubSeqEmpty
  <2>4. Append(<<>>, t) = <<t>>
    OBVIOUS
  <2> QED
    BY <2>2, <2>3, <2>4, Zenon
<1>4. <<t>> \in Words
  BY WordsAppend
<1> HIDE DEF us, n
<1>5. Begun(R, Append(s, Statement(<<t>>)), m, n + 1, us)
  BY <1>1, <1>2, <1>3, <1>4, BegunParts
<1> QED
  BY <1>5 DEF us, n

LEMMA WordAdded ==
  ASSUME NEW R, NEW ts \in Seq(Seq(Char)), NEW t \in Seq(Char), IsWord(t), NEW s,
         NEW m \in 1..Len(ts) + 1, Begun(R, s, m, Len(ts), ts)
  PROVE  Begun(R, Append(Front(s), [Last(s) EXCEPT !.tokens = Append(@, t)]), m,
               Len(ts) + 1, Append(ts, t))
<1> DEFINE us == Append(ts, t)
           n == Len(ts)
<1>0. PICK c : \E k \in (m - 1)..n :
        /\ Whole(R, c, m, k, ts) /\ SubSeq(ts, k + 1, n) \in Words
        /\ s = Append(c, Statement(SubSeq(ts, k + 1, n)))
  BY DEF Begun
<1>1. PICK k \in (m - 1)..n :
        /\ Whole(R, c, m, k, ts) /\ SubSeq(ts, k + 1, n) \in Words
        /\ s = Append(c, Statement(SubSeq(ts, k + 1, n)))
  BY <1>0
<1> DEFINE ws == SubSeq(ts, k + 1, n)
<1>2. /\ n \in Nat /\ k \in m - 1..Len(ts) /\ k \in m - 1..n + 1 /\ k + 1 \in 1..Len(ts) + 1
      /\ k \in (m - 1)..(n + 1)
  OBVIOUS
<1>3. Whole(R, c, m, k, us)
  BY <1>1, <1>2, WholeKeep
<1>4. SubSeq(us, k + 1, n + 1) = Append(ws, t)
  BY <1>2, SliceGrow
<1>5. Append(ws, t) \in Words
  BY <1>1, WordsAppend
<1>6. Front(s) = c /\ Last(s) = Statement(ws)
  BY <1>1, FrontLast DEF Whole
<1>7. [Statement(ws) EXCEPT !.tokens = Append(@, t)] = Statement(Append(ws, t))
  <2> HIDE DEF ws
  <2>1. [Statement(ws) EXCEPT !.tokens = Append(ws, t)] = Statement(Append(ws, t))
    BY StatementParts
  <2>2. [Statement(ws) EXCEPT !.tokens = Append(@, t)]
          = [Statement(ws) EXCEPT !.tokens = Append(Statement(ws).tokens, t)]
    OBVIOUS
  <2> QED
    BY <2>1, <2>2, StatementParts
<1> HIDE DEF us, n, ws
<1>8. Begun(R, Append(c, Statement(Append(ws, t))), m, n + 1, us)
  BY <1>2, <1>3, <1>4, <1>5, BegunParts
<1> QED
  BY <1>6, <1>7, <1>8 DEF us, n

(* The end of a statement, and the end of its block. *)
Ends(R, s, us) ==
  \E c, vs : \E ws \in Words :
    IsSeq(c) /\ s = Append(c, Statement(ws)) /\ In(R, c, vs) /\ us = vs \o ws

LEMMA StatementEnds ==
  ASSUME NEW R, Rules(R), NEW ts \in Seq(Seq(Char)), NEW s, NEW m \in 1..Len(ts) + 1,
         NEW j \in m - 1..Len(ts), Begun(R, s, m, j, ts)
  PROVE  Ends(R, s, SubSeq(ts, m, j))
<1>0. PICK c : \E k \in (m - 1)..j :
        /\ Whole(R, c, m, k, ts) /\ SubSeq(ts, k + 1, j) \in Words
        /\ s = Append(c, Statement(SubSeq(ts, k + 1, j)))
  BY DEF Begun
<1>1. PICK k \in (m - 1)..j :
        /\ Whole(R, c, m, k, ts) /\ SubSeq(ts, k + 1, j) \in Words
        /\ s = Append(c, Statement(SubSeq(ts, k + 1, j)))
  BY <1>0
<1>2. k \in m - 1..Len(ts) /\ j \in k..Len(ts)
  OBVIOUS
<1>3. SubSeq(ts, m, k) \o SubSeq(ts, k + 1, j) = SubSeq(ts, m, j)
  BY <1>2, ConcatAdjacentSubSeq
<1> QED
  BY <1>1, <1>3 DEF Whole, Ends

LEMMA WholeEnd ==
  ASSUME NEW R, Rules(R), NEW ts \in Seq(Seq(Char)), NEW t \in Seq(Char), Kind(t) = "end", NEW s,
         NEW m \in 1..Len(ts) + 1, Begun(R, s, m, Len(ts), ts)
  PROVE  Whole(R, s, m, Len(ts) + 1, Append(ts, t))
<1> DEFINE us == Append(ts, t)
           n == Len(ts)
<1>1. n \in Nat /\ n \in m - 1..Len(ts)
  OBVIOUS
<1>e. Ends(R, s, SubSeq(ts, m, n))
  BY <1>1, StatementEnds
<1>2. PICK c, vs : \E ws \in Words :
        /\ IsSeq(c) /\ s = Append(c, Statement(ws)) /\ In(R, c, vs)
        /\ SubSeq(ts, m, n) = vs \o ws
  BY <1>e DEF Ends
<1>w. PICK ws \in Words :
        /\ IsSeq(c) /\ s = Append(c, Statement(ws)) /\ In(R, c, vs)
        /\ SubSeq(ts, m, n) = vs \o ws
  BY <1>2
<1>3. SubSeq(us, m, n + 1) = Append(vs \o ws, <<";">>)
  <2>1. SubSeq(us, m, n + 1) = Append(SubSeq(ts, m, n), t) /\ t = <<";">>
    BY SliceGrow, Kinds
  <2> QED
    BY <1>w, <2>1, Zenon
<1>4. In(R, s, Append(vs \o ws, <<";">>))
  BY <1>w DEF Rules, Ended
<1>5. IsSeq(s)
  BY <1>w, Pushed
<1> QED
  BY <1>3, <1>4, <1>5 DEF Whole

LEMMA BlockEnd ==
  ASSUME NEW R, Rules(R), NEW ts \in Seq(Seq(Char)), NEW t \in Seq(Char), Kind(t) = "close",
         NEW s, NEW d, NEW m \in 1..Len(ts), NEW j \in m..Len(ts), Kind(ts[j]) = "open",
         Begun(R, s, m, j - 1, ts), Whole(R, d, j + 1, Len(ts), ts)
  PROVE  Whole(R, Append(Front(s), [Last(s) EXCEPT !.block = <<d>>]), m,
               Len(ts) + 1, Append(ts, t))
<1> DEFINE us == Append(ts, t)
           n == Len(ts)
<1>1. /\ n \in Nat /\ m \in 1..Len(ts) + 1 /\ j - 1 \in m - 1..Len(ts) /\ j \in m - 1..Len(ts)
      /\ n \in j..Len(ts)
  OBVIOUS
<1>e. Ends(R, s, SubSeq(ts, m, j - 1))
  BY <1>1, StatementEnds
<1>2. PICK c, vs : \E ws \in Words :
        /\ IsSeq(c) /\ s = Append(c, Statement(ws)) /\ In(R, c, vs)
        /\ SubSeq(ts, m, j - 1) = vs \o ws
  BY <1>e DEF Ends
<1>w. PICK ws \in Words :
        /\ IsSeq(c) /\ s = Append(c, Statement(ws)) /\ In(R, c, vs)
        /\ SubSeq(ts, m, j - 1) = vs \o ws
  BY <1>2
<1>3. Front(s) = c /\ Last(s) = Statement(ws)
  BY <1>w, FrontLast
<1>4. [Statement(ws) EXCEPT !.block = <<d>>] = Block(ws, d)
  BY StatementParts
<1> DEFINE inner == SubSeq(ts, j + 1, n)
           opened == Append(vs \o ws, <<"{">>)
<1>5. SubSeq(ts, m, j) = opened
  <2>1. SubSeq(ts, m, j) = SubSeq(ts, m, j - 1) \o <<ts[j]>>
    BY <1>1, SubSeqRecursiveSecond
  <2>2. SubSeq(ts, m, j - 1) \in Seq(Seq(Char)) /\ ts[j] \in Seq(Char)
    BY <1>1, Slice
  <2>3. SubSeq(ts, m, j - 1) \o <<ts[j]>> = Append(SubSeq(ts, m, j - 1), ts[j])
    BY <2>2, AppendIsConcat
  <2> QED
    BY <1>w, <2>1, <2>3, Kinds
<1>6. SubSeq(ts, m, n) = opened \o inner
  BY <1>1, <1>5, ConcatAdjacentSubSeq
<1>7. SubSeq(us, m, n + 1) = Append(opened \o inner, <<"}">>)
  <2>1. SubSeq(us, m, n + 1) = Append(SubSeq(ts, m, n), t) /\ t = <<"}">>
    BY <1>1, SliceGrow, Kinds
  <2> QED
    BY <1>6, <2>1, Zenon
<1>8. In(R, d, inner)
  BY DEF Whole
<1> HIDE DEF inner
<1>9. In(R, Append(c, Block(ws, d)), Append(opened \o inner, <<"}">>))
  BY <1>w, <1>8 DEF Rules, Enclosed
<1>10. IsSeq(Append(c, Block(ws, d)))
  BY <1>w, Pushed
<1> QED
  BY <1>3, <1>4, <1>7, <1>9, <1>10 DEF Whole

LEMMA StackParts ==
  ASSUME NEW s, IsSeq(s), NEW x
  PROVE  /\ Len(s) \in Nat
         /\ LET u == Append(s, x) IN
            /\ IsSeq(u) /\ Len(u) = Len(s) + 1 /\ u[Len(s) + 1] = x
            /\ \A i \in 1..Len(s) : u[i] = s[i]
         /\ s # <<>> =>
              LET u == Append(Front(s), x) IN
              /\ IsSeq(u) /\ Len(u) = Len(s) /\ u[Len(s)] = x
              /\ \A i \in 1..Len(s) - 1 : u[i] = s[i]
              /\ Last(s) = s[Len(s)] /\ Len(s) # 0
<1>1. PICK S : s \in Seq(S)
  BY DEF IsSeq
<1> DEFINE T == S \cup {x}
<1>2. s \in Seq(T) /\ x \in T
  BY <1>1, SeqMonotonic
<1> HIDE DEF T
<1>3. Len(s) \in Nat
  BY <1>2
<1>4. ASSUME NEW r \in Seq(T)
      PROVE  /\ Append(r, x) \in Seq(T) /\ Len(Append(r, x)) = Len(r) + 1 /\ Append(r, x)[Len(r) + 1] = x
             /\ \A i \in 1..Len(r) : Append(r, x)[i] = r[i]
  BY <1>2, AppendProperties
<1>5. CASE s = <<>>
  BY <1>2, <1>3, <1>4, <1>5 DEF IsSeq
<1>6. CASE s # <<>>
  <2> DEFINE f == Front(s)
  <2>1. /\ f \in Seq(T) /\ Len(f) = Len(s) - 1 /\ \A i \in 1..Len(s) - 1 : f[i] = s[i]
    BY <1>2, <1>6, FrontParts
  <2>2. Len(s) # 0 /\ Last(s) = s[Len(s)]
    BY <1>2, <1>6, EmptySeq DEF Last
  <2> HIDE DEF f
  <2> DEFINE u == Append(f, x)
  <2>3. /\ u \in Seq(T) /\ Len(u) = Len(s) /\ u[Len(s)] = x
        /\ \A i \in 1..Len(s) - 1 : u[i] = s[i]
    <3>1. /\ u \in Seq(T) /\ Len(u) = Len(f) + 1 /\ u[Len(f) + 1] = x
          /\ \A i \in 1..Len(f) : u[i] = f[i]
      BY <1>4, <2>1
    <3> HIDE DEF u
    <3>2. Len(f) + 1 = Len(s) /\ Len(f) = Len(s) - 1
      BY <1>3, <2>1
    <3> QED
      BY <2>1, <3>1, <3>2
  <2> HIDE DEF u
  <2>4. IsSeq(u)
    BY <2>3 DEF IsSeq
  <2> QED
    BY <1>2, <1>3, <1>4, <2>2, <2>3, <2>4 DEF IsSeq, f, u
<1> QED
  BY <1>5, <1>6

LEMMA BelowKeep ==
  ASSUME NEW R, NEW ts \in Seq(Seq(Char)), NEW t \in Seq(Char), NEW stk, NEW stk2,
         NEW n \in Nat, NEW b, NEW b2, Below(R, stk, b, n, ts),
         \A i \in 1..n : b[i] \in 0..Len(ts) /\ b2[i] = b[i],
         \A i \in 1..n - 1 : stk2[i] = stk[i]
  PROVE  Below(R, stk2, b2, n, Append(ts, t))
<1> DEFINE us == Append(ts, t)
<1>1. ASSUME NEW i \in 1..n - 1
      PROVE  /\ b2[i] < b2[i + 1] /\ Kind(us[b2[i + 1]]) = "open"
             /\ Begun(R, stk2[i], b2[i] + 1, b2[i + 1] - 1, us)
  <2>1. i \in 1..n /\ i + 1 \in 1..n
    OBVIOUS
  <2>2. /\ b[i] < b[i + 1] /\ Kind(ts[b[i + 1]]) = "open"
        /\ Begun(R, stk[i], b[i] + 1, b[i + 1] - 1, ts)
    BY DEF Below
  <2>3. /\ b[i] \in 0..Len(ts) /\ b[i + 1] \in 0..Len(ts) /\ b2[i] = b[i] /\ b2[i + 1] = b[i + 1]
        /\ stk2[i] = stk[i]
    BY <2>1
  <2>4. PICK x \in 0..Len(ts), y \in 0..Len(ts) : x = b[i] /\ y = b[i + 1]
    BY <2>3
  <2>5. x < y
    BY <2>2, <2>4
  <2> DEFINE m == x + 1
             j == y - 1
  <2>6. m \in 1..Len(ts) + 1 /\ j \in m - 1..Len(ts) /\ y \in 1..Len(ts)
    BY <2>5
  <2>7. Begun(R, stk[i], m, j, us)
    BY <2>2, <2>4, <2>6, BegunKeep
  <2>8. us[b[i + 1]] = ts[b[i + 1]]
    BY <2>4, <2>6
  <2> QED
    BY <2>2, <2>3, <2>4, <2>7, <2>8
<1> HIDE DEF us
<1>2. Below(R, stk2, b2, n, us)
  BY <1>1 DEF Below
<1> QED
  BY <1>2 DEF us

(* The current configuration changes. *)
LEMMA StandsSame ==
  ASSUME NEW R, NEW ts \in Seq(Seq(Char)), NEW t \in Seq(Char), NEW stk, NEW stk2,
         Len(stk) \in Nat \ {0}, Len(stk2) = Len(stk),
         \A i \in 1..Len(stk) - 1 : stk2[i] = stk[i],
         NEW k1, NEW k2, Stands(R, stk, ts, k1),
         \A m \in 1..Len(ts) + 1 :
           Current(R, stk[Len(stk)], m, ts, k1)
             => Current(R, stk2[Len(stk)], m, Append(ts, t), k2)
  PROVE  Stands(R, stk2, Append(ts, t), k2)
<1> DEFINE us == Append(ts, t)
           n == Len(stk)
<1>1. PICK b \in [1..n -> 0..Len(ts)] :
        /\ b[1] = 0 /\ Below(R, stk, b, n, ts) /\ Current(R, stk[n], b[n] + 1, ts, k1)
  BY DEF Stands
<1>2. /\ Len(us) = Len(ts) + 1 /\ n \in 1..n /\ n \in Nat
      /\ b \in [1..n -> 0..Len(us)] /\ b[n] + 1 \in 1..Len(ts) + 1
  <2>1. Len(us) = Len(ts) + 1 /\ n \in 1..n /\ n \in Nat /\ 0..Len(ts) \subseteq 0..Len(us)
    BY AppendProperties
  <2>2. b[n] \in 0..Len(ts)
    BY <1>1, <2>1
  <2> QED
    BY <1>1, <2>1, <2>2
<1>3. Below(R, stk2, b, n, us)
  BY <1>1, <1>2, BelowKeep
<1>4. Current(R, stk2[n], b[n] + 1, us, k2)
  BY <1>1, <1>2
<1> HIDE DEF us
<1>5. Stands(R, stk2, us, k2)
  BY <1>1, <1>2, <1>3, <1>4 DEF Stands
<1> QED
  BY <1>5 DEF us

LEMMA StandsParts ==
  ASSUME NEW R, NEW stk, NEW ts, NEW kind, NEW n, n = Len(stk), NEW l, l = Len(ts),
         NEW b \in [1..n -> 0..l], b[1] = 0, Below(R, stk, b, n, ts),
         Current(R, stk[n], b[n] + 1, ts, kind)
  PROVE  Stands(R, stk, ts, kind)
  BY DEF Stands

(* A block begins, and a block ends. *)
LEMMA StandsPush ==
  ASSUME NEW R, Rules(R), NEW ts \in Seq(Seq(Char)), NEW t \in Seq(Char), Kind(t) = "open",
         NEW stk, NEW stk2, NEW n \in Nat \ {0}, Len(stk) = n, Len(stk2) = n + 1,
         \A i \in 1..n : stk2[i] = stk[i], stk2[n + 1] = <<>>,
         Stands(R, stk, ts, "normal"), NEW kind, kind # "normal"
  PROVE  Stands(R, stk2, Append(ts, t), kind)
<1> DEFINE us == Append(ts, t)
           l == Len(ts)
<1>1. PICK b \in [1..n -> 0..l] :
        /\ b[1] = 0 /\ Below(R, stk, b, n, ts) /\ Begun(R, stk[n], b[n] + 1, l, ts)
  BY DEF Stands, Current
<1>2. Len(us) = l + 1 /\ us[l + 1] = t /\ l \in Nat
  BY AppendProperties
<1> DEFINE b2 == [i \in 1..n + 1 |-> IF i = n + 1 THEN l + 1 ELSE b[i]]
<1>3. /\ b2 \in [1..n + 1 -> 0..l + 1] /\ \A i \in 1..n : b[i] \in 0..l /\ b2[i] = b[i]
      /\ b2[n + 1] = l + 1 /\ 1 \in 1..n /\ n \in 1..n
  BY <1>1, <1>2
<1>4. PICK x \in 0..l : x = b[n]
  BY <1>3
<1> HIDE DEF us, b2
<1>5. Below(R, stk2, b2, n, us)
  <2>1. \A i \in 1..n - 1 : i \in 1..n
    OBVIOUS
  <2> QED
    BY <1>1, <1>3, <2>1, BelowKeep DEF us
<1>6. /\ b2[n] < b2[n + 1] /\ Kind(us[b2[n + 1]]) = "open"
      /\ Begun(R, stk2[n], b2[n] + 1, b2[n + 1] - 1, us)
  <2>1. x + 1 \in 1..l + 1 /\ l \in (x + 1) - 1..l /\ (l + 1) - 1 = l /\ x < l + 1
    BY <1>2
  <2>2. Begun(R, stk[n], x + 1, l, us)
    BY <1>1, <1>4, <2>1, BegunKeep DEF us
  <2> QED
    BY <1>2, <1>3, <1>4, <2>1, <2>2
<1>7. Below(R, stk2, b2, n + 1, us)
  <2>1. \A i \in 1..(n + 1) - 1 : i \in 1..n - 1 \/ i = n
    OBVIOUS
  <2> QED
    BY <1>5, <1>6, <2>1 DEF Below
<1>8. Whole(R, stk2[n + 1], b2[n + 1] + 1, l + 1, us)
  <2>1. SubSeq(us, (l + 1) + 1, l + 1) = <<>>
    BY <1>2, SubSeqEmpty
  <2>2. IsSeq(<<>>)
    BY DEF IsSeq
  <2> QED
    BY <1>3, <2>1, <2>2 DEF Whole, Rules
<1>9. Stands(R, stk2, us, kind)
  <2>1. Current(R, stk2[n + 1], b2[n + 1] + 1, us, kind)
    BY <1>2, <1>8 DEF Current
  <2>2. b2[1] = 0 /\ Len(us) = l + 1 /\ b2 \in [1..n + 1 -> 0..l + 1]
    BY <1>1, <1>2, <1>3
  <2> QED
    BY <1>7, <2>1, <2>2, StandsParts
<1> QED
  BY <1>9 DEF us

LEMMA StandsPop ==
  ASSUME NEW R, Rules(R), NEW ts \in Seq(Seq(Char)), NEW t \in Seq(Char), Kind(t) = "close",
         NEW stk, NEW stk2, NEW n \in Nat \ {0}, Len(stk) = n + 1, Len(stk2) = n,
         \A i \in 1..n - 1 : stk2[i] = stk[i],
         stk2[n] = Append(Front(stk[n]), [Last(stk[n]) EXCEPT !.block = <<stk[n + 1]>>]),
         NEW k1, k1 # "normal", Stands(R, stk, ts, k1), NEW k2, k2 # "normal"
  PROVE  Stands(R, stk2, Append(ts, t), k2)
<1> DEFINE us == Append(ts, t)
           l == Len(ts)
<1>1. PICK b \in [1..n + 1 -> 0..l] :
        /\ b[1] = 0 /\ Below(R, stk, b, n + 1, ts) /\ Whole(R, stk[n + 1], b[n + 1] + 1, l, ts)
  BY DEF Stands, Current
<1>2. Len(us) = l + 1 /\ l \in Nat
  BY AppendProperties
<1> DEFINE b2 == [i \in 1..n |-> b[i]]
<1>3. /\ b2 \in [1..n -> 0..l + 1] /\ \A i \in 1..n : b[i] \in 0..l /\ b2[i] = b[i]
      /\ b[n + 1] \in 0..l /\ 1 \in 1..n /\ n \in 1..n
  BY <1>1, <1>2
<1> HIDE DEF b2
<1>4. PICK x \in 0..l, y \in 0..l : x = b[n] /\ y = b[n + 1]
  BY <1>3
<1>5. Below(R, stk, b, n, ts)
  <2>1. \A i \in 1..n - 1 : i \in 1..(n + 1) - 1
    OBVIOUS
  <2> QED
    BY <1>1, <2>1 DEF Below
<1>6. Below(R, stk2, b2, n, us)
  BY <1>3, <1>5, BelowKeep
<1>7. x < y /\ Kind(ts[y]) = "open" /\ Begun(R, stk[n], x + 1, y - 1, ts)
  <2>1. n \in 1..(n + 1) - 1
    OBVIOUS
  <2> QED
    BY <1>1, <1>4, <2>1 DEF Below
<1>8. Whole(R, stk2[n], x + 1, l + 1, us)
  <2>1. x + 1 \in 1..l /\ y \in x + 1..l
    <3>1. x < y
      BY <1>7
    <3> QED
      BY <1>2, <3>1
  <2>2. Whole(R, stk[n + 1], y + 1, l, ts)
    BY <1>1, <1>4
  <2>3. Kind(ts[y]) = "open" /\ Begun(R, stk[n], x + 1, y - 1, ts)
    BY <1>7
  <2>4. Whole(R, Append(Front(stk[n]), [Last(stk[n]) EXCEPT !.block = <<stk[n + 1]>>]), x + 1,
              l + 1, us)
    BY <2>1, <2>2, <2>3, BlockEnd
  <2> QED
    BY <2>4
<1> HIDE DEF us
<1>9. Stands(R, stk2, us, k2)
  <2>1. Current(R, stk2[n], b2[n] + 1, us, k2)
    BY <1>2, <1>3, <1>4, <1>8 DEF Current
  <2>2. b2[1] = 0 /\ Len(us) = l + 1 /\ b2 \in [1..n -> 0..l + 1]
    BY <1>1, <1>2, <1>3
  <2> QED
    BY <1>6, <2>1, <2>2, StandsParts
<1> QED
  BY <1>9 DEF us

BuildInv(R) ==
  /\ result = "none" /\ last # "eof" /\ ~Empty => Stands(R, stack, tokens, last)
  /\ result = "true" => In(R, config, tokens)

LEMMA GiveStands ==
  ASSUME NEW R, Rules(R), AcceptInv, AcceptInv', BuildInv(R),
         result = "none", last # "eof", NEW t \in Seq(Char), Give(t)
  PROVE  BuildInv(R)'
<1> DEFINE us == Append(tokens, t)
<1>1. /\ tokens \in Seq(Seq(Char)) /\ tokens' = us /\ IsSeq(stack)
      /\ Empty => last = "close"
      /\ ~Empty => Stands(R, stack, tokens, last) /\ Len(stack) \in Nat \ {0} /\ stack # <<>>
  BY Popped DEF AcceptInv, TypeOK, BraceInv, BuildInv, Give, Empty
<1> HIDE DEF us
<1>r. ASSUME NEW r \in {"false", "undefined"}, Return(r) PROVE BuildInv(R)'
  BY <1>r DEF Return, BuildInv
<1>c. ASSUME NEW k, Continue(k, stack'), stack' # <<>> => Stands(R, stack', us, k) PROVE BuildInv(R)'
  BY <1>1, <1>c DEF Continue, NextLast, BuildInv, Empty
<1>2. CASE IsWord(t)
  <2>1. Word(t) /\ Kind(t) = "normal"
    BY <1>2, Marks, Kinds DEF Give
  <2>2. CASE Empty \/ last \notin {"start", "end", "open", "close", "normal"}
    BY <1>r, <2>1, <2>2 DEF Word
  <2>3. CASE ~Empty /\ last \in {"start", "end", "open", "close", "normal"}
    <3> DEFINE x == AddWord(t)
               n == Len(stack)
    <3>1. Continue("normal", stack') /\ stack' = Append(Front(stack), x)
      BY <2>1, <2>3 DEF Word, Continue
    <3>2. /\ Len(stack') = n /\ stack'[n] = x /\ \A i \in 1..n - 1 : stack'[i] = stack[i]
          /\ Top = stack[n]
      BY <1>1, <2>3, <3>1, StackParts DEF Top
    <3>3. ASSUME NEW m \in 1..Len(tokens) + 1, Current(R, stack[n], m, tokens, last)
          PROVE  Current(R, x, m, us, "normal")
      <4>1. Len(us) = Len(tokens) + 1
        BY <1>1 DEF us
      <4>2. CASE last = "normal"
        <5>1. Begun(R, Top, m, Len(tokens), tokens)
          BY <3>2, <3>3, <4>2 DEF Current
        <5>2. x = Append(Front(Top), [Last(Top) EXCEPT !.tokens = Append(@, t)])
          BY <4>2 DEF AddWord
        <5>3. Begun(R, Append(Front(Top), [Last(Top) EXCEPT !.tokens = Append(@, t)]), m,
                    Len(tokens) + 1, us)
          BY <1>1, <1>2, <5>1, WordAdded DEF us
        <5> QED
          BY <4>1, <5>2, <5>3 DEF Current
      <4>3. CASE last # "normal"
        <5>1. Whole(R, Top, m, Len(tokens), tokens)
          BY <3>2, <3>3, <4>3 DEF Current
        <5>2. x = Append(Top, Statement(<<t>>))
          BY <4>3 DEF AddWord
        <5>3. Begun(R, Append(Top, Statement(<<t>>)), m, Len(tokens) + 1, us)
          BY <1>1, <1>2, <5>1, WordBegins DEF us
        <5> QED
          BY <4>1, <5>2, <5>3 DEF Current
      <4> QED
        BY <4>2, <4>3
    <3> HIDE DEF x
    <3>4. Stands(R, stack', us, "normal")
      BY <1>1, <2>3, <3>2, <3>3, StandsSame DEF us
    <3> QED
      BY <1>c, <3>1, <3>4
  <2> QED
    BY <2>2, <2>3
<1>3. CASE t = <<";">>
  <2>1. StatementEnd /\ Kind(t) = "end"
    BY <1>3, Marks, Kinds DEF Give
  <2>2. CASE last # "normal"
    BY <1>r, <2>1, <2>2 DEF StatementEnd
  <2>3. CASE last = "normal"
    <3>1. Continue("end", stack') /\ stack' = stack /\ ~Empty
      BY <1>1, <2>1, <2>3 DEF StatementEnd, Continue
    <3>2. ASSUME NEW m \in 1..Len(tokens) + 1, Current(R, stack[Len(stack)], m, tokens, "normal")
          PROVE  Current(R, stack[Len(stack)], m, us, "end")
      <4>1. Len(us) = Len(tokens) + 1
        BY <1>1 DEF us
      <4> QED
        BY <1>1, <2>1, <3>2, <4>1, WholeEnd DEF Current, us
    <3>3. Stands(R, stack', us, "end")
      BY <1>1, <2>3, <3>1, <3>2, StandsSame DEF us
    <3> QED
      BY <1>c, <3>1, <3>3
  <2> QED
    BY <2>2, <2>3
<1>4. CASE t = <<"{">>
  <2>1. StartBlock /\ Kind(t) = "open"
    BY <1>4, Marks, Kinds DEF Give
  <2>2. CASE last # "normal"
    BY <1>r, <2>1, <2>2 DEF StartBlock
  <2>3. CASE last = "normal"
    <3>1. Continue("open", stack') /\ stack' = Append(stack, <<>>) /\ ~Empty
      BY <1>1, <2>1, <2>3 DEF StartBlock, Continue
    <3>2. /\ Len(stack') = Len(stack) + 1 /\ stack'[Len(stack) + 1] = <<>>
          /\ \A i \in 1..Len(stack) : stack'[i] = stack[i]
      BY <1>1, <3>1, StackParts
    <3>3. Stands(R, stack', us, "open")
      BY <1>1, <2>1, <2>3, <3>1, <3>2, StandsPush DEF us
    <3> QED
      BY <1>c, <3>1, <3>3
  <2> QED
    BY <2>2, <2>3
<1>5. CASE t = <<"}">>
  <2>1. EndBlock /\ Kind(t) = "close"
    BY <1>5, Marks, Kinds DEF Give
  <2>2. CASE last \notin {"end", "close", "open"} \/ Empty
    BY <1>r, <2>1, <2>2 DEF EndBlock
  <2>3. CASE last \in {"end", "close", "open"} /\ ~Empty
    <3> DEFINE outer == Front(stack)
               above == Last(outer)
               x == Append(Front(above), [Last(above) EXCEPT !.block = <<Top>>])
    <3>1. Continue("close", stack') /\ stack' = Close
      BY <2>1, <2>3 DEF EndBlock, Continue
    <3>2. CASE outer = <<>>
      BY <1>c, <3>1, <3>2 DEF Close
    <3>3. CASE outer # <<>>
      <4>1. /\ IsSeq(outer) /\ Len(outer) = Len(stack) - 1 /\ Len(stack) # 1
            /\ \A i \in 1..Len(stack) - 1 : outer[i] = stack[i]
            /\ Top = stack[Len(stack)]
        <5>1. PICK S : stack \in Seq(S)
          BY <1>1 DEF IsSeq
        <5> QED
          BY <1>1, <2>3, <3>3, <5>1, FrontParts, Popped, StackParts DEF IsSeq, Top
      <4> PICK n \in Nat \ {0} : n = Len(outer) /\ Len(stack) = n + 1
        BY <1>1, <2>3, <4>1
      <4>2. stack' = Append(Front(outer), x)
        BY <3>1, <3>3 DEF Close
      <4>3. /\ Len(stack') = n /\ stack'[n] = x /\ \A i \in 1..n - 1 : stack'[i] = outer[i]
            /\ above = outer[n]
        <5> HIDE DEF x, outer
        <5> QED
          BY <3>3, <4>1, <4>2, StackParts, SMTT(30)
      <4>4. /\ above = stack[n] /\ Top = stack[n + 1]
            /\ \A i \in 1..n - 1 : stack'[i] = stack[i]
        <5>1. n \in 1..Len(stack) - 1 /\ \A i \in 1..n - 1 : i \in 1..Len(stack) - 1
          OBVIOUS
        <5> QED
          BY <4>1, <4>3, <5>1
      <4>5. stack'[n] = Append(Front(stack[n]), [Last(stack[n]) EXCEPT !.block = <<stack[n + 1]>>])
        BY <4>3, <4>4
      <4>6. last # "normal" /\ Stands(R, stack, tokens, last)
        BY <1>1, <2>3
      <4> HIDE DEF x, outer, above
      <4>7. Stands(R, stack', us, "close")
        BY <1>1, <2>1, <4>3, <4>4, <4>5, <4>6, StandsPop DEF us
      <4> QED
        BY <1>c, <3>1, <4>7
    <3> QED
      BY <3>2, <3>3
  <2> QED
    BY <2>2, <2>3
<1> QED
  BY <1>2, <1>3, <1>4, <1>5, Marks

LEMMA BuildInit == ASSUME NEW R, Rules(R), Init PROVE BuildInv(R)
<1>1. /\ stack = << <<>> >> /\ result = "none" /\ last = "start" /\ tokens = <<>>
      /\ Len(stack) = 1 /\ Len(tokens) = 0 /\ stack[1] = <<>>
  BY DEF Init
<1> DEFINE b == [i \in 1..1 |-> 0]
<1>2. b \in [1..1 -> 0..0] /\ b[1] = 0
  OBVIOUS
<1> HIDE DEF b
<1>3. Below(R, stack, b, 1, tokens)
  BY DEF Below
<1>4. Current(R, stack[1], b[1] + 1, tokens, last)
  <2>1. SubSeq(tokens, 0 + 1, 0) = <<>>
    BY SubSeqEmpty
  <2>2. IsSeq(<<>>)
    BY DEF IsSeq
  <2> QED
    BY <1>1, <1>2, <2>1, <2>2 DEF Current, Whole, Rules
<1>5. Stands(R, stack, tokens, last)
  <2>1. 1 = Len(stack) /\ 0 = Len(tokens)
    BY <1>1
  <2> QED
    BY <1>2, <1>3, <1>4, <2>1, StandsParts
<1> QED
  BY <1>1, <1>5 DEF BuildInv

LEMMA GiveEndStands ==
  ASSUME NEW R, Rules(R), AcceptInv, BuildInv(R), result = "none", GiveEnd
  PROVE  BuildInv(R)'
<1>1. tokens' = tokens /\ tokens \in Seq(Seq(Char))
  BY DEF GiveEnd, AcceptInv, TypeOK
<1>2. CASE result' # "true" /\ (result' = "none" => last' = "eof")
  BY <1>2 DEF BuildInv
<1>3. CASE ~(result' # "true" /\ (result' = "none" => last' = "eof"))
  <2>1. last \in {"end", "close", "start"} /\ ~Empty /\ Len(stack) = 1 /\ config' = Top /\ result' = "true"
    BY <1>3 DEF GiveEnd, EndOfFile, Return, Continue, NextLast
  <2>2. PICK b \in [1..1 -> 0..Len(tokens)] : b[1] = 0 /\ Current(R, stack[1], b[1] + 1, tokens, last)
    BY <2>1 DEF BuildInv, Stands
  <2>3. Whole(R, stack[1], 0 + 1, Len(tokens), tokens)
    BY <2>1, <2>2 DEF Current
  <2>4. SubSeq(tokens, 0 + 1, Len(tokens)) = tokens
    BY <1>1, SubSeqFull
  <2>5. Top = stack[1]
    BY <2>1 DEF Top, Last
  <2> QED
    BY <1>1, <2>1, <2>3, <2>4, <2>5 DEF Whole, BuildInv
<1> QED
  BY <1>2, <1>3

LEMMA BuildStep ==
  ASSUME NEW R, Rules(R), AcceptInv, BuildInv(R), [Next]_vars
  PROVE  BuildInv(R)'
<1>1. AcceptInv' /\ TypeOK
  BY AcceptStep DEF AcceptInv
<1>2. CASE UNCHANGED parser
  BY <1>2 DEF parser, BuildInv, Empty
<1>3. CASE GiveError
  BY <1>3 DEF GiveError, Return, BuildInv
<1>4. CASE \E c \in Char, t \in Seq(Char) : Get(c) /\ Give(t)
  BY <1>1, <1>4, GetBraces, GiveStands
<1>5. CASE AtEnd /\ GiveEnd
  BY <1>5, GiveEndStands DEF AtEnd, Get
<1>6. UNCHANGED vars => UNCHANGED parser
  BY DEF vars
<1>7. White => UNCHANGED parser \/ \E c \in Char, t \in Seq(Char) : Get(c) /\ Give(t)
  <2> SUFFICES ASSUME White, ~UNCHANGED parser
               PROVE  \E c \in Char, t \in Seq(Char) : Get(c) /\ Give(t)
    OBVIOUS
  <2>1. PICK c \in Char : Get(c) /\ Give(<<c>>)
    BY DEF White, Go
  <2>2. <<c>> \in Seq(Char)
    OBVIOUS
  <2> QED
    BY <2>1, <2>2
<1>8. Quotation => \/ UNCHANGED parser \/ GiveError
                   \/ \E c \in Char, t \in Seq(Char) : Get(c) /\ Give(t)
  <2> SUFFICES ASSUME Quotation, ~UNCHANGED parser, ~GiveError
               PROVE  \E c \in Char, t \in Seq(Char) : Get(c) /\ Give(t)
    OBVIOUS
  <2>1. PICK c \in Char : Get(c) /\ Give(Append(value, c))
    BY DEF Quotation, Go
  <2>2. Append(value, c) \in Seq(Char)
    BY <1>1 DEF TypeOK
  <2> QED
    BY <2>1, <2>2
<1>9. InWord => UNCHANGED parser \/ \E c \in Char, t \in Seq(Char) : Get(c) /\ Give(t)
  BY <1>1 DEF InWord, Go, TypeOK
<1>10. Escape \/ Comment => UNCHANGED parser
  BY DEF Escape, Comment, Go
<1>11. AtEnd => GiveError \/ GiveEnd
  BY DEF AtEnd
<1> QED
  BY <1>2, <1>3, <1>4, <1>5, <1>6, <1>7, <1>8, <1>9, <1>10, <1>11 DEF Next

LEMMA MarkTokens == <<";">> \in Seq(Char) /\ <<"{">> \in Seq(Char) /\ <<"}">> \in Seq(Char)
<1>1. \A c \in Mark : <<c>> \in Seq(Char)
  BY MarkShaped
<1> QED
  BY <1>1, Zenon DEF Mark

LEMMA SomeGrammar == Grammar(Seq(Seq(Char)))
<1>2. <<";">> \in Seq(Char) /\ <<"{">> \in Seq(Char) /\ <<"}">> \in Seq(Char)
  BY MarkTokens
<1>3. Words \subseteq Seq(Seq(Char))
  BY DEF Words
<1> DEFINE T == Seq(Char)
<1>4. \A ts \in Seq(T), us \in Seq(T) : ts \o us \in Seq(T)
  OBVIOUS
<1>5. \A ts \in Seq(T), t \in T : Append(ts, t) \in Seq(T)
  OBVIOUS
<1> HIDE DEF T
<1>6. <<>> \in Seq(T)
  OBVIOUS
<1>8. ASSUME NEW ts \in Seq(T), NEW ws \in Words PROVE Ended(ts, ws) \in Seq(T)
  BY <1>2, <1>3, <1>4, <1>5 DEF Ended, T
<1>7. ASSUME NEW ts \in Seq(T), NEW ws \in Words, NEW us \in Seq(T)
      PROVE  Enclosed(ts, ws, us) \in Seq(T)
  BY <1>2, <1>3, <1>4, <1>5 DEF Enclosed, T
<1> QED
  BY <1>6, <1>7, <1>8 DEF Grammar, T

(* An accepted configuration holds what the file says: every relation closed  *)
(* under the grammar's rules relates it to the tokens Parse was given, so     *)
(* each word is in its statement and each block at the statement that opens   *)
(* it, at any depth (Parse, config_parser.cc:316-381; what RoundTrip checks).  *)
THEOREM BuildsHolds ==
  ASSUME NEW P, Writes(P)
  PROVE  Spec => [](result = "true" => <<config, tokens>> \in P)
<1> DEFINE R == <<P, Seq(Seq(Char))>>
<1>g. Grammar(Seq(Seq(Char)))
  BY SomeGrammar
<1>r. Rules(R) /\ R[1] # {} /\ R[1] = P
  BY <1>g, BothRules DEF Writes
<1> HIDE DEF R
<1>1. Init => AcceptInv /\ BuildInv(R)
  BY <1>r, AcceptInit, BuildInit
<1>2. AcceptInv /\ BuildInv(R) /\ [Next]_vars => AcceptInv' /\ BuildInv(R)'
  BY <1>r, AcceptStep, BuildStep
<1>3. AcceptInv /\ BuildInv(R) => (result = "true" => <<config, tokens>> \in P)
  BY <1>r DEF BuildInv, In
<1> QED
  BY <1>1, <1>2, <1>3, PTL DEF Spec
-----------------------------------------------------------------------------
(* Balanced is what the grammar says.  The token sequences in which the braces *)
(* balance are closed under its rules, so whatever is not balanced is not a   *)
(* configuration; that what Parse accepts is one follows as in BuildsHolds.   *)

LEMMA Sums ==
  /\ \A a, b \in Nat : a + b - 0 = a + b
  /\ \A a, b, c, d \in Nat : a <= b /\ c <= d => a + c <= b + d
  OBVIOUS

LEMMA CountConcat ==
  ASSUME NEW S, NEW ts \in Seq(S), NEW us \in Seq(S), NEW x, NEW i \in 0..Len(us)
  PROVE  /\ Count(ts, x, Len(ts)) \in Nat /\ Count(us, x, i) \in Nat
         /\ Count(ts \o us, x, Len(ts) + i) = Count(ts, x, Len(ts)) + Count(us, x, i)
<1> DEFINE n == Len(ts)
           vs == ts \o us
           A == {k \in 1..n : ts[k] = x}
           B == {k \in 1..i : us[k] = x}
           C == {k \in n + 1..n + i : vs[k] = x}
           D == {k \in 1..n + i : vs[k] = x}
<1>1. n \in Nat /\ i \in Nat
  OBVIOUS
<1>2. \A k \in 1..n + i : vs[k] = IF k <= n THEN ts[k] ELSE us[k - n]
  BY <1>1, ConcatProperties
<1>3. IsFiniteSet(A) /\ IsFiniteSet(B) /\ IsFiniteSet(C)
  <2>1. IsFiniteSet(1..n) /\ IsFiniteSet(1..i) /\ IsFiniteSet(n + 1..n + i)
    BY <1>1, FS_Interval
  <2>2. A \subseteq 1..n /\ B \subseteq 1..i /\ C \subseteq n + 1..n + i
    OBVIOUS
  <2> HIDE DEF A, B, C, n
  <2> QED
    BY <2>1, <2>2, FS_Subset
<1>4. Cardinality(C) = Cardinality(B)
  <2> DEFINE F == [k \in B |-> n + k]
  <2>1. ASSUME NEW k \in B PROVE n + k \in C
    BY <1>1, <1>2
  <2>2. ASSUME NEW k \in C PROVE k - n \in B /\ F[k - n] = k
    <3>1. k \in 1..n + i /\ k - n \in 1..i /\ ~(k <= n) /\ vs[k] = x /\ n + (k - n) = k
      BY <1>1
    <3>2. us[k - n] = x
      BY <1>2, <3>1
    <3> QED
      BY <3>1, <3>2
  <2>3. ASSUME NEW j \in B, NEW k \in B, F[j] = F[k] PROVE j = k
    BY <1>1, <2>3
  <2>4. F \in [B -> C]
    BY <2>1
  <2>5. \A k \in C : \E j \in B : F[j] = k
    BY <2>2
  <2> HIDE DEF B, C, F
  <2>6. F \in Bijection(B, C)
    BY <2>3, <2>4, <2>5, Fun_IsBij
  <2>7. ExistsBijection(B, C)
    BY <2>6 DEF ExistsBijection
  <2> QED
    BY <1>3, <2>7, FS_Bijection
<1>5. D = A \cup C /\ A \cap C = {}
  <2>1. \A k \in 1..n : k \in 1..n + i /\ vs[k] = ts[k]
    BY <1>1, <1>2
  <2>2. 1..n + i = (1..n) \cup (n + 1..n + i) /\ (1..n) \cap (n + 1..n + i) = {}
    BY <1>1
  <2> HIDE DEF vs, n
  <2> QED
    BY <2>1, <2>2
<1>6. Cardinality(A) \in Nat /\ Cardinality(B) \in Nat /\ Cardinality({}) = 0
  BY <1>3, FS_CardinalityType, FS_EmptySet
<1>7. Count(ts, x, n) = Cardinality(A) /\ Count(us, x, i) = Cardinality(B)
      /\ Count(vs, x, n + i) = Cardinality(D)
  BY DEF Count
<1> HIDE DEF A, B, C, D
<1>8. Cardinality(D) = Cardinality(A) + Cardinality(C) - Cardinality(A \cap C)
  BY <1>3, <1>5, FS_Union
<1>9. Cardinality(D) = Cardinality(A) + Cardinality(B)
  <2>1. Cardinality(A \cap C) = 0
    BY <1>5, <1>6
  <2>2. Cardinality(D) = Cardinality(A) + Cardinality(B) - 0
    BY <1>4, <1>8, <2>1, Zenon
  <2> QED
    BY <1>6, <2>2, Sums
<1> QED
  BY <1>6, <1>7, <1>9

LEMMA ConcatCounts ==
  ASSUME NEW ts \in Seq(Seq(Char)), NEW us \in Seq(Seq(Char))
  PROVE  /\ ts \o us \in Seq(Seq(Char))
         /\ Opened(ts \o us) = Opened(ts) + Opened(us) /\ Opened(ts) \in Nat /\ Opened(us) \in Nat
         /\ Closed(ts \o us) = Closed(ts) + Closed(us) /\ Closed(ts) \in Nat /\ Closed(us) \in Nat
         /\ Behind(ts \o us) = IF us = <<>> THEN Behind(ts) ELSE Behind(us)
<1> DEFINE vs == ts \o us
           T == Seq(Char)
<1>1. /\ vs \in Seq(T) /\ Len(vs) = Len(ts) + Len(us)
      /\ \A i \in 1..Len(ts) + Len(us) : vs[i] = IF i <= Len(ts) THEN ts[i] ELSE us[i - Len(ts)]
  <2> HIDE DEF T
  <2> QED
    BY ConcatProperties DEF T
<1>2. Len(us) \in 0..Len(us) /\ Len(ts) \in Nat /\ Len(us) \in Nat
  OBVIOUS
<1> HIDE DEF vs
<1>3. ASSUME NEW x
      PROVE  /\ Count(ts, x, Len(ts)) \in Nat /\ Count(us, x, Len(us)) \in Nat
             /\ Count(vs, x, Len(vs)) = Count(ts, x, Len(ts)) + Count(us, x, Len(us))
  BY <1>1, <1>2, CountConcat DEF vs
<1>4. Behind(vs) = IF us = <<>> THEN Behind(ts) ELSE Behind(us)
  <2>1. CASE us = <<>>
    <3>1. vs = ts
      BY <2>1 DEF vs
    <3> QED
      BY <2>1, <3>1
  <2>2. CASE us # <<>>
    <3>1. Len(us) > 0 /\ Len(us) # 0
      BY <1>2, <2>2, EmptySeq
    <3>2. ~(Len(vs) <= Len(ts)) /\ Len(vs) - Len(ts) = Len(us) /\ Len(vs) \in 1..Len(ts) + Len(us)
      BY <1>1, <1>2, <3>1
    <3>3. vs[Len(vs)] = us[Len(us)]
      BY <1>1, <3>2
    <3>4. vs # <<>>
      BY <1>1, <1>2, <3>1, EmptySeq
    <3> QED
      BY <2>2, <3>3, <3>4 DEF Behind
  <2> QED
    BY <2>1, <2>2
<1> QED
  BY <1>1, <1>3, <1>4 DEF Opened, Closed, vs

(* One position of Begins. *)
Stays(ts, i) ==
  /\ ts[i] \in {<<";">>, <<"{">>} => i > 1 /\ IsWord(ts[i - 1])
  /\ ts[i] = <<"}">> => i > 1 /\ ~IsWord(ts[i - 1])
  /\ Count(ts, <<"}">>, i) <= Count(ts, <<"{">>, i)

LEMMA BeginsParts == \A ts : Begins(ts) <=> \A i \in 1..Len(ts) : Stays(ts, i)
  BY DEF Begins, Stays

LEMMA BeginsPrefix ==
  ASSUME NEW ts \in Seq(Seq(Char)), NEW us \in Seq(Seq(Char)), Begins(ts \o us)
  PROVE  Begins(ts)
<1> DEFINE vs == ts \o us
           T == Seq(Char)
<1> SUFFICES ASSUME NEW i \in 1..Len(ts) PROVE Stays(ts, i)
  BY BeginsParts
<1>1. /\ Len(vs) = Len(ts) + Len(us) /\ Len(ts) \in Nat /\ Len(us) \in Nat
      /\ \A k \in 1..Len(ts) : vs[k] = ts[k]
  OBVIOUS
<1>2. i \in 1..Len(vs)
  BY <1>1
<1>3. Stays(vs, i)
  BY <1>2, BeginsParts
<1>4. vs[i] = ts[i] /\ (i > 1 => vs[i - 1] = ts[i - 1])
  BY <1>1
<1>5. ASSUME NEW x PROVE Count(vs, x, i) = Count(ts, x, i)
  <2>1. \A k \in 1..i : vs[k] = ts[k]
    BY <1>1
  <2> HIDE DEF vs
  <2> QED
    BY <2>1 DEF Count
<1> HIDE DEF vs
<1>6. /\ Count(vs, <<"}">>, i) = Count(ts, <<"}">>, i)
      /\ Count(vs, <<"{">>, i) = Count(ts, <<"{">>, i)
  BY <1>5
<1> QED
  BY <1>3, <1>4, <1>6 DEF Stays

LEMMA BeginsConcat ==
  ASSUME NEW ts \in Seq(Seq(Char)), NEW us \in Seq(Seq(Char)), Begins(ts), Begins(us),
         Closed(ts) <= Opened(ts)
  PROVE  Begins(ts \o us)
<1> DEFINE vs == ts \o us
           n == Len(ts)
<1>1. /\ Len(vs) = n + Len(us) /\ n \in Nat /\ Len(us) \in Nat
      /\ \A k \in 1..n : vs[k] = ts[k]
      /\ \A k \in 1..Len(us) : vs[n + k] = us[k]
  OBVIOUS
<1>2. ASSUME NEW i \in 1..n PROVE Stays(vs, i)
  <2>1. vs[i] = ts[i] /\ (i > 1 => vs[i - 1] = ts[i - 1])
    BY <1>1
  <2>2. ASSUME NEW x PROVE Count(vs, x, i) = Count(ts, x, i)
    <3>1. \A k \in 1..i : vs[k] = ts[k]
      BY <1>1
    <3> HIDE DEF vs
    <3> QED
      BY <3>1 DEF Count
  <2>3. Stays(ts, i)
    BY BeginsParts
  <2> HIDE DEF vs
  <2>4. /\ Count(vs, <<"}">>, i) = Count(ts, <<"}">>, i)
        /\ Count(vs, <<"{">>, i) = Count(ts, <<"{">>, i)
    BY <2>2
  <2> QED
    BY <2>1, <2>3, <2>4 DEF Stays
<1>3. ASSUME NEW i \in 1..Len(us) PROVE Stays(vs, n + i)
  <2>1. Stays(us, i)
    BY BeginsParts
  <2>2. vs[n + i] = us[i] /\ (i > 1 => n + i > 1 /\ vs[(n + i) - 1] = us[i - 1])
    <3>1. i > 1 => i - 1 \in 1..Len(us) /\ (n + i) - 1 = n + (i - 1) /\ n + i > 1
      BY <1>1
    <3> QED
      BY <1>1, <3>1
  <2>3. ASSUME NEW x
        PROVE  /\ Count(ts, x, n) \in Nat /\ Count(us, x, i) \in Nat
               /\ Count(vs, x, n + i) = Count(ts, x, n) + Count(us, x, i)
    <3>1. i \in 0..Len(us)
      BY <1>1
    <3> QED
      BY <3>1, CountConcat
  <2> DEFINE o == Count(ts, <<"{">>, n)
             c == Count(ts, <<"}">>, n)
             p == Count(us, <<"{">>, i)
             d == Count(us, <<"}">>, i)
  <2>4. o \in Nat /\ p \in Nat /\ Count(vs, <<"{">>, n + i) = o + p
    BY <2>3
  <2>5. c \in Nat /\ d \in Nat /\ Count(vs, <<"}">>, n + i) = c + d
    BY <2>3
  <2>6. c <= o /\ d <= p
    BY <2>1 DEF Stays, Opened, Closed
  <2> HIDE DEF vs, n, o, c, p, d
  <2>7. c + d <= o + p
    BY <2>4, <2>5, <2>6, Sums
  <2>8. Count(vs, <<"}">>, n + i) <= Count(vs, <<"{">>, n + i)
    BY <2>4, <2>5, <2>7
  <2> QED
    BY <2>1, <2>2, <2>8 DEF Stays
<1>4. \A k \in 1..Len(vs) : k \in 1..n \/ \E i \in 1..Len(us) : k = n + i
  <2> SUFFICES ASSUME NEW k \in 1..Len(vs), k \notin 1..n PROVE \E i \in 1..Len(us) : k = n + i
    OBVIOUS
  <2>1. k - n \in 1..Len(us) /\ k = n + (k - n)
    BY <1>1
  <2> QED
    BY <2>1
<1> HIDE DEF vs, n
<1>5. Begins(vs)
  BY <1>2, <1>3, <1>4, BeginsParts
<1> QED
  BY <1>5 DEF vs

LEMMA WordsCounts ==
  ASSUME NEW ws \in Words
  PROVE  /\ ws \in Seq(Seq(Char)) /\ ws # <<>> /\ Behind(ws) = "normal"
         /\ Begins(ws) /\ Opened(ws) = 0 /\ Closed(ws) = 0
<1>1. ws \in Seq(Seq(Char)) /\ ws # <<>> /\ \A i \in 1..Len(ws) : IsWord(ws[i])
  BY DEF Words
<1>2. Behind(ws) = "normal"
  <2>1. Len(ws) \in 1..Len(ws)
    BY <1>1
  <2> QED
    BY <1>1, <2>1, Kinds DEF Behind
<1>3. ASSUME NEW i \in 0..Len(ws)
      PROVE  Count(ws, <<"{">>, i) = 0 /\ Count(ws, <<"}">>, i) = 0
  <2>1. \A k \in 1..i : IsWord(ws[k])
    BY <1>1
  <2> DEFINE A == {k \in 1..i : ws[k] = <<"{">>}
             B == {k \in 1..i : ws[k] = <<"}">>}
  <2>2. A = {} /\ B = {}
    BY <2>1, Marks
  <2>3. Count(ws, <<"{">>, i) = Cardinality(A) /\ Count(ws, <<"}">>, i) = Cardinality(B)
    BY DEF Count
  <2> HIDE DEF A, B
  <2> QED
    BY <2>2, <2>3, FS_EmptySet
<1>4. Opened(ws) = 0 /\ Closed(ws) = 0
  <2>1. Len(ws) \in 0..Len(ws)
    BY <1>1
  <2> QED
    BY <1>3, <2>1 DEF Opened, Closed
<1>5. ASSUME NEW i \in 1..Len(ws) PROVE Stays(ws, i)
  <2>1. i \in 0..Len(ws) /\ 0 <= 0
    BY <1>1
  <2>2. Count(ws, <<"{">>, i) = 0 /\ Count(ws, <<"}">>, i) = 0
    BY <1>3, <2>1
  <2> QED
    BY <1>1, <2>1, <2>2, Marks DEF Stays
<1>6. Begins(ws)
  BY <1>5, BeginsParts
<1> QED
  BY <1>1, <1>2, <1>4, <1>6

LEMMA AppendToken ==
  ASSUME NEW ts \in Seq(Seq(Char)), NEW t \in Seq(Char)
  PROVE  Append(ts, t) \in Seq(Seq(Char))
  OBVIOUS

(* Words after a configuration. *)
LEMMA WordsAfter ==
  ASSUME NEW ts \in Seq(Seq(Char)), Balanced(ts), NEW ws \in Words
  PROVE  LET vs == ts \o ws IN
         /\ vs \in Seq(Seq(Char)) /\ Begins(vs) /\ Behind(vs) = "normal"
         /\ Opened(vs) = Closed(vs) /\ Opened(vs) \in Nat /\ Closed(vs) \in Nat
<1>1. Begins(ts) /\ Opened(ts) = Closed(ts)
  BY BalancedParts
<1>2. /\ ws \in Seq(Seq(Char)) /\ ws # <<>> /\ Behind(ws) = "normal"
      /\ Begins(ws) /\ Opened(ws) = 0 /\ Closed(ws) = 0
  BY WordsCounts
<1>3. /\ ts \o ws \in Seq(Seq(Char)) /\ Behind(ts \o ws) = "normal"
      /\ Opened(ts \o ws) = Opened(ts) + 0 /\ Opened(ts) \in Nat
      /\ Closed(ts \o ws) = Closed(ts) + 0 /\ Closed(ts) \in Nat
  BY <1>2, ConcatCounts
<1>4. Closed(ts) <= Opened(ts)
  BY <1>1, <1>3
<1>5. Begins(ts \o ws)
  BY <1>1, <1>2, <1>4, BeginsConcat
<1>6. Opened(ts) + 0 = Opened(ts) /\ Closed(ts) + 0 = Closed(ts)
  BY <1>3
<1> QED
  BY <1>1, <1>3, <1>5, <1>6

LEMMA BalancedEnded ==
  ASSUME NEW ts \in Seq(Seq(Char)), Balanced(ts), NEW ws \in Words
  PROVE  Ended(ts, ws) \in Seq(Seq(Char)) /\ Balanced(Ended(ts, ws))
<1> DEFINE vs == ts \o ws
           e == <<";">>
           us == Append(vs, e)
<1>1. /\ vs \in Seq(Seq(Char)) /\ Begins(vs) /\ Behind(vs) = "normal"
      /\ Opened(vs) = Closed(vs) /\ Opened(vs) \in Nat /\ Closed(vs) \in Nat
  BY WordsAfter
<1>2. e \in Seq(Char) /\ Kind(e) = "end" /\ e # <<"{">> /\ e # <<"}">>
  BY MarkTokens, Kinds, Marks
<1> HIDE DEF vs, e
<1>3. /\ Opened(us) = Opened(vs) /\ Closed(us) = Closed(vs) /\ Behind(us) = Kind(e)
      /\ us \in Seq(Seq(Char))
  BY <1>1, <1>2, TokenAppend, AppendToken
<1>4. Begins(us) <=> /\ Begins(vs)
                     /\ e \in {<<";">>, <<"{">>} => Behind(vs) = "normal"
                     /\ e = <<"}">> => Behind(vs) \in {"end", "open", "close"}
                     /\ Closed(us) <= Opened(us)
  BY <1>1, <1>2, TokenAppend
<1>5. Closed(us) <= Opened(us)
  BY <1>1, <1>3
<1>6. Begins(us)
  BY <1>1, <1>2, <1>4, <1>5
<1>7. Balanced(us)
  BY <1>1, <1>2, <1>3, <1>6, BalancedParts
<1> QED
  BY <1>3, <1>7 DEF Ended, vs, e

LEMMA BalancedEnclosed ==
  ASSUME NEW ts \in Seq(Seq(Char)), Balanced(ts), NEW ws \in Words,
         NEW us \in Seq(Seq(Char)), Balanced(us)
  PROVE  Enclosed(ts, ws, us) \in Seq(Seq(Char)) /\ Balanced(Enclosed(ts, ws, us))
<1> DEFINE vs == ts \o ws
           b == <<"{">>
           e == <<"}">>
           x == Append(vs, b)
           y == x \o us
           z == Append(y, e)
<1>1. /\ vs \in Seq(Seq(Char)) /\ Begins(vs) /\ Behind(vs) = "normal"
      /\ Opened(vs) = Closed(vs) /\ Opened(vs) \in Nat /\ Closed(vs) \in Nat
  BY WordsAfter
<1>2. /\ b \in Seq(Char) /\ Kind(b) = "open" /\ b = <<"{">> /\ b # <<"}">>
      /\ e \in Seq(Char) /\ Kind(e) = "close" /\ e = <<"}">> /\ e # <<"{">> /\ e # <<";">>
  BY MarkTokens, Kinds, Marks
<1> HIDE DEF vs, b, e, x, y, z
<1>3. /\ Opened(x) = Opened(vs) + 1 /\ Closed(x) = Closed(vs) /\ Behind(x) = "open"
      /\ x \in Seq(Seq(Char))
  BY <1>1, <1>2, TokenAppend, AppendToken DEF x
<1>4. Begins(x)
  <2>1. Begins(x) <=> /\ Begins(vs)
                      /\ b \in {<<";">>, <<"{">>} => Behind(vs) = "normal"
                      /\ b = <<"}">> => Behind(vs) \in {"end", "open", "close"}
                      /\ Closed(x) <= Opened(x)
    BY <1>1, <1>2, TokenAppend DEF x
  <2>2. Closed(x) <= Opened(x)
    BY <1>1, <1>3
  <2> QED
    BY <1>1, <1>2, <2>1, <2>2
<1>5. Begins(us) /\ Opened(us) = Closed(us) /\ Behind(us) \in {"start", "end", "close"}
  BY BalancedParts
<1>6. /\ y \in Seq(Seq(Char))
      /\ Opened(y) = Opened(x) + Opened(us) /\ Opened(us) \in Nat
      /\ Closed(y) = Closed(x) + Closed(us)
      /\ Behind(y) = IF us = <<>> THEN Behind(x) ELSE Behind(us)
  BY <1>3, ConcatCounts DEF y
<1>7. Behind(y) \in {"open", "end", "close"}
  <2>1. us # <<>> => Behind(us) # "start"
    BY DEF Behind, Kind
  <2> QED
    BY <1>3, <1>5, <1>6, <2>1
<1>8. Begins(y)
  <2>1. Closed(x) <= Opened(x)
    BY <1>1, <1>3
  <2> QED
    BY <1>3, <1>4, <1>5, <2>1, BeginsConcat DEF y
<1>9. /\ Opened(z) = Opened(y) /\ Closed(z) = Closed(y) + 1 /\ Behind(z) = "close"
      /\ z \in Seq(Seq(Char))
  BY <1>2, <1>6, TokenAppend, AppendToken DEF z
<1>10. Opened(z) = Closed(z) /\ Closed(z) <= Opened(z)
  <2>1. \A n, m \in Nat : n + 1 + m = n + m + 1 /\ n + m + 1 <= n + m + 1
    OBVIOUS
  <2>2. Opened(z) = Closed(vs) + 1 + Closed(us) /\ Closed(z) = Closed(vs) + Closed(us) + 1
    BY <1>1, <1>3, <1>5, <1>6, <1>9, Zenon
  <2>3. Closed(vs) \in Nat /\ Closed(us) \in Nat
    BY <1>1, <1>5, <1>6
  <2> QED
    BY <2>1, <2>2, <2>3, Zenon
<1>11. Begins(z)
  <2>1. Begins(z) <=> /\ Begins(y)
                      /\ e \in {<<";">>, <<"{">>} => Behind(y) = "normal"
                      /\ e = <<"}">> => Behind(y) \in {"end", "open", "close"}
                      /\ Closed(z) <= Opened(z)
    BY <1>2, <1>6, TokenAppend DEF z
  <2> QED
    BY <1>2, <1>7, <1>8, <1>10, <2>1
<1>12. Balanced(z)
  BY <1>9, <1>10, <1>11, BalancedParts
<1> QED
  BY <1>9, <1>12 DEF Enclosed, vs, b, e, x, y, z

LEMMA GrammaticalBalanced ==
  ASSUME NEW ts \in Seq(Seq(Char)), Grammatical(ts)
  PROVE  Balanced(ts)
<1> DEFINE V == {us \in Seq(Seq(Char)) : Balanced(us)}
<1>1. <<>> \in V
  <2>1. /\ Begins(<<>>) /\ Behind(<<>>) = "start"
    BY DEF Begins, Behind
  <2>2. Opened(<<>>) = Closed(<<>>)
    <3>1. Len(<<>>) = 0 /\ \A x : {i \in 1..0 : <<>>[i] = x} = {}
      OBVIOUS
    <3> QED
      BY <3>1 DEF Opened, Closed, Count
  <2>3. <<>> \in Seq(Seq(Char))
    OBVIOUS
  <2> QED
    BY <2>1, <2>2, <2>3, BalancedParts
<1>2. \A us \in V, ws \in Words : Ended(us, ws) \in V
  BY BalancedEnded
<1>3. \A us \in V, ws \in Words, vs \in V : Enclosed(us, ws, vs) \in V
  BY BalancedEnclosed
<1>4. V \in SUBSET Seq(Seq(Char)) /\ (ts \in V <=> Balanced(ts))
  OBVIOUS
<1> HIDE DEF V
<1>5. Grammar(V)
  BY <1>1, <1>2, <1>3 DEF Grammar
<1> QED
  BY <1>4, <1>5 DEF Grammatical

(* What has begun as a configuration can be ended: whatever is open can be    *)
(* closed.  An ending of level n closes n blocks, each after some statements, *)
(* and may go on with statements behind the last.                             *)
Configs == {c \in Seq(Seq(Char)) : Grammatical(c)}

Upward(c, s) == Append(c, <<"}">>) \o s

ClosesLevels(R) ==
  /\ \A c \in Configs : <<0, c>> \in R
  /\ \A n \in Nat, s \in Seq(Seq(Char)), c \in Configs :
       <<n, s>> \in R => <<n + 1, Upward(c, s)>> \in R

Ending(n, s) ==
  \A R \in SUBSET (Nat \X Seq(Seq(Char))) : ClosesLevels(R) => <<n, s>> \in R

LEMMA Associates ==
  ASSUME NEW a \in Seq(Seq(Char)), NEW b \in Seq(Seq(Char)), NEW c \in Seq(Seq(Char))
  PROVE  (a \o b) \o c = a \o (b \o c)
<1> DEFINE S == Seq(Char)
<1> HIDE DEF S
<1>1. a \in Seq(S) /\ b \in Seq(S) /\ c \in Seq(S)
  BY DEF S
<1> QED
  BY <1>1, SMTT(30)

LEMMA AppendAfter ==
  ASSUME NEW a \in Seq(Seq(Char)), NEW b \in Seq(Seq(Char)), NEW t \in Seq(Char)
  PROVE  a \o Append(b, t) = Append(a \o b, t)
<1> DEFINE S == Seq(Char)
<1> HIDE DEF S
<1>1. a \in Seq(S) /\ b \in Seq(S) /\ t \in S
  BY DEF S
<1> QED
  BY <1>1

LEMMA WordsType ==
  ASSUME NEW ws \in Words
  PROVE  ws \in Seq(Seq(Char))
  BY DEF Words

LEMMA EndedType ==
  ASSUME NEW us \in Seq(Seq(Char)), NEW ws \in Words
  PROVE  Ended(us, ws) \in Seq(Seq(Char))
<1>1. us \o ws \in Seq(Seq(Char)) /\ <<";">> \in Seq(Char)
  BY WordsType, MarkTokens, ConcatCounts
<1> QED
  BY <1>1, AppendToken DEF Ended

LEMMA EnclosedType ==
  ASSUME NEW us \in Seq(Seq(Char)), NEW ws \in Words, NEW vs \in Seq(Seq(Char))
  PROVE  Enclosed(us, ws, vs) \in Seq(Seq(Char))
<1>1. us \o ws \in Seq(Seq(Char)) /\ <<"{">> \in Seq(Char) /\ <<"}">> \in Seq(Char)
  BY WordsType, MarkTokens, ConcatCounts
<1>2. Append(us \o ws, <<"{">>) \in Seq(Seq(Char))
  BY <1>1, AppendToken
<1>3. Append(us \o ws, <<"{">>) \o vs \in Seq(Seq(Char))
  BY <1>2, ConcatCounts
<1> QED
  BY <1>1, <1>3, AppendToken DEF Enclosed

LEMMA ConfigRules ==
  /\ <<>> \in Configs
  /\ \A us \in Configs, ws \in Words : Ended(us, ws) \in Configs
  /\ \A us \in Configs, ws \in Words, vs \in Configs : Enclosed(us, ws, vs) \in Configs
<1>1. <<>> \in Configs
  BY DEF Configs, Grammatical, Grammar
<1>2. ASSUME NEW us \in Configs, NEW ws \in Words PROVE Ended(us, ws) \in Configs
  BY EndedType DEF Configs, Grammatical, Grammar
<1>3. ASSUME NEW us \in Configs, NEW ws \in Words, NEW vs \in Configs
      PROVE  Enclosed(us, ws, vs) \in Configs
  BY EnclosedType DEF Configs, Grammatical, Grammar
<1> QED
  BY <1>1, <1>2, <1>3

(* A statement of a configuration stays one behind another configuration. *)
LEMMA EndedAfter ==
  ASSUME NEW a \in Seq(Seq(Char)), NEW us \in Seq(Seq(Char)), NEW ws \in Words
  PROVE  a \o Ended(us, ws) = Ended(a \o us, ws)
<1>1. ws \in Seq(Seq(Char)) /\ us \o ws \in Seq(Seq(Char)) /\ <<";">> \in Seq(Char)
  BY WordsType, MarkTokens, ConcatCounts
<1>2. a \o Append(us \o ws, <<";">>) = Append(a \o (us \o ws), <<";">>)
  BY <1>1, AppendAfter
<1>3. a \o (us \o ws) = (a \o us) \o ws
  BY <1>1, Associates
<1> QED
  BY <1>2, <1>3 DEF Ended

LEMMA EnclosedAfter ==
  ASSUME NEW a \in Seq(Seq(Char)), NEW us \in Seq(Seq(Char)), NEW ws \in Words,
         NEW vs \in Seq(Seq(Char))
  PROVE  a \o Enclosed(us, ws, vs) = Enclosed(a \o us, ws, vs)
<1> DEFINE b == <<"{">>
           e == <<"}">>
           x == us \o ws
           y == Append(x, b)
           z == y \o vs
<1>1. ws \in Seq(Seq(Char)) /\ x \in Seq(Seq(Char)) /\ b \in Seq(Char) /\ e \in Seq(Char)
  BY WordsType, MarkTokens, ConcatCounts
<1>2. a \o x = (a \o us) \o ws
  BY <1>1, Associates, ZenonT(30)
<1> HIDE DEF b, e, x
<1>3. y \in Seq(Seq(Char))
  BY <1>1, AppendToken
<1>4. a \o y = Append(a \o x, b)
  BY <1>1, AppendAfter
<1> HIDE DEF y
<1>5. z \in Seq(Seq(Char))
  BY <1>3, ConcatCounts
<1>6. a \o z = (a \o y) \o vs
  BY <1>3, Associates
<1> HIDE DEF z
<1>7. a \o Append(z, e) = Append(a \o z, e)
  BY <1>1, <1>5, AppendAfter
<1>8. a \o Append(z, e) = Append(Append((a \o us) \o ws, b) \o vs, e)
  BY <1>2, <1>4, <1>6, <1>7
<1> QED
  BY <1>8 DEF Enclosed, b, e, x, y, z

LEMMA ConfigConcat ==
  ASSUME NEW a \in Configs, NEW c \in Configs
  PROVE  a \o c \in Configs
<1> DEFINE V == {us \in Configs : a \o us \in Configs}
<1>1. a \in Seq(Seq(Char)) /\ c \in Seq(Seq(Char)) /\ Grammatical(c)
  BY DEF Configs
<1>2. <<>> \in V
  <2>1. a \o <<>> = a
    BY <1>1
  <2> QED
    BY <2>1, ConfigRules
<1>3. ASSUME NEW us \in V, NEW ws \in Words PROVE Ended(us, ws) \in V
  <2>1. us \in Seq(Seq(Char)) /\ us \in Configs /\ a \o us \in Configs
    BY DEF Configs
  <2>2. a \o Ended(us, ws) = Ended(a \o us, ws)
    BY <1>1, <2>1, EndedAfter
  <2> QED
    BY <2>1, <2>2, ConfigRules
<1>4. ASSUME NEW us \in V, NEW ws \in Words, NEW vs \in V PROVE Enclosed(us, ws, vs) \in V
  <2>1. /\ us \in Seq(Seq(Char)) /\ us \in Configs /\ a \o us \in Configs
        /\ vs \in Seq(Seq(Char)) /\ vs \in Configs
    BY DEF Configs
  <2>2. a \o Enclosed(us, ws, vs) = Enclosed(a \o us, ws, vs)
    BY <1>1, <2>1, EnclosedAfter
  <2> QED
    BY <2>1, <2>2, ConfigRules
<1>5. V \in SUBSET Seq(Seq(Char)) /\ (c \in V => a \o c \in Configs)
  BY DEF Configs
<1> HIDE DEF V
<1>6. Grammar(V)
  BY <1>2, <1>3, <1>4 DEF Grammar
<1> QED
  BY <1>1, <1>5, <1>6 DEF Grammatical

LEMMA UpwardType ==
  ASSUME NEW c \in Configs, NEW s \in Seq(Seq(Char))
  PROVE  Upward(c, s) \in Seq(Seq(Char)) /\ c \in Seq(Seq(Char))
<1>1. c \in Seq(Seq(Char)) /\ <<"}">> \in Seq(Char)
  BY MarkTokens DEF Configs
<1>2. Append(c, <<"}">>) \in Seq(Seq(Char))
  BY <1>1, AppendToken
<1> QED
  BY <1>1, <1>2, ConcatCounts DEF Upward

LEMMA EndingRules ==
  /\ \A c \in Configs : Ending(0, c)
  /\ \A n \in Nat, s \in Seq(Seq(Char)), c \in Configs :
       Ending(n, s) => Ending(n + 1, Upward(c, s))
  BY DEF Ending, ClosesLevels

LEMMA EndingIn ==
  ASSUME NEW R \in SUBSET (Nat \X Seq(Seq(Char))), ClosesLevels(R), NEW n, NEW s, Ending(n, s)
  PROVE  <<n, s>> \in R
  BY DEF Ending

LEMMA EndingType ==
  ASSUME NEW n, NEW s, Ending(n, s)
  PROVE  n \in Nat /\ s \in Seq(Seq(Char))
<1> DEFINE R == Nat \X Seq(Seq(Char))
<1>1. ClosesLevels(R)
  <2>1. \A c \in Configs : <<0, c>> \in R
    BY DEF Configs
  <2>2. ASSUME NEW m \in Nat, NEW r \in Seq(Seq(Char)), NEW c \in Configs
        PROVE  <<m + 1, Upward(c, r)>> \in R
    BY UpwardType
  <2> HIDE DEF R
  <2> QED
    BY <2>1, <2>2 DEF ClosesLevels
<1>2. <<n, s>> \in R
  BY <1>1, EndingIn
<1> QED
  BY <1>2

(* An ending of level n that is not 0 closes a block and is, behind that, an  *)
(* ending of the level above.                                                 *)
Closes(n, s) ==
  \E m \in Nat : \E c \in Configs : \E r \in Seq(Seq(Char)) :
    n = m + 1 /\ Ending(m, r) /\ s = Upward(c, r)

LEMMA EndingParts ==
  ASSUME NEW n, NEW s, Ending(n, s)
  PROVE  (n = 0 /\ s \in Configs) \/ Closes(n, s)
<1> DEFINE Q(m, r) == (m = 0 /\ r \in Configs) \/ Closes(m, r)
           R == {x \in Nat \X Seq(Seq(Char)) : Ending(x[1], x[2]) /\ Q(x[1], x[2])}
<1>1. ASSUME NEW c \in Configs PROVE <<0, c>> \in R
  <2>1. <<0, c>> \in Nat \X Seq(Seq(Char)) /\ Ending(0, c) /\ Q(0, c)
    BY EndingRules DEF Configs
  <2> QED
    BY <2>1
<1>2. ASSUME NEW m \in Nat, NEW r \in Seq(Seq(Char)), NEW c \in Configs, <<m, r>> \in R
      PROVE  <<m + 1, Upward(c, r)>> \in R
  <2>1. Ending(m, r)
    BY <1>2
  <2>2. Ending(m + 1, Upward(c, r)) /\ Closes(m + 1, Upward(c, r))
    BY <2>1, EndingRules DEF Closes
  <2>3. <<m + 1, Upward(c, r)>> \in Nat \X Seq(Seq(Char))
    BY UpwardType
  <2> QED
    BY <2>2, <2>3
<1>3. R \in SUBSET (Nat \X Seq(Seq(Char))) /\ (<<n, s>> \in R => Q(n, s))
  OBVIOUS
<1> HIDE DEF R, Q
<1>4. ClosesLevels(R)
  BY <1>1, <1>2 DEF ClosesLevels
<1>5. <<n, s>> \in R
  BY <1>3, <1>4, EndingIn
<1> QED
  BY <1>3, <1>5 DEF Q

(* Statements in front of an ending. *)
LEMMA UpwardAfter ==
  ASSUME NEW a \in Configs, NEW c \in Configs, NEW s \in Seq(Seq(Char))
  PROVE  a \o Upward(c, s) = Upward(a \o c, s)
<1> DEFINE e == <<"}">>
<1>1. a \in Seq(Seq(Char)) /\ c \in Seq(Seq(Char)) /\ e \in Seq(Char)
  BY MarkTokens DEF Configs
<1> HIDE DEF e
<1>2. Append(c, e) \in Seq(Seq(Char)) /\ a \o Append(c, e) = Append(a \o c, e)
  BY <1>1, AppendToken, AppendAfter
<1>3. a \o (Append(c, e) \o s) = (a \o Append(c, e)) \o s
  BY <1>1, <1>2, Associates
<1> QED
  BY <1>2, <1>3 DEF Upward, e

LEMMA EndingAfter ==
  ASSUME NEW n, NEW s, Ending(n, s), NEW a \in Configs
  PROVE  Ending(n, a \o s)
<1> DEFINE R == {x \in Nat \X Seq(Seq(Char)) : Ending(x[1], x[2]) /\ Ending(x[1], a \o x[2])}
<1>1. ASSUME NEW c \in Configs PROVE <<0, c>> \in R
  <2>1. <<0, c>> \in Nat \X Seq(Seq(Char)) /\ Ending(0, c) /\ Ending(0, a \o c)
    BY EndingRules, ConfigConcat DEF Configs
  <2> QED
    BY <2>1
<1>2. ASSUME NEW m \in Nat, NEW r \in Seq(Seq(Char)), NEW c \in Configs, <<m, r>> \in R
      PROVE  <<m + 1, Upward(c, r)>> \in R
  <2>1. Ending(m, r)
    BY <1>2
  <2>2. Ending(m + 1, Upward(c, r)) /\ Ending(m + 1, Upward(a \o c, r))
    BY <2>1, EndingRules, ConfigConcat
  <2>3. <<m + 1, Upward(c, r)>> \in Nat \X Seq(Seq(Char))
    BY UpwardType
  <2>4. a \o Upward(c, r) = Upward(a \o c, r)
    BY UpwardAfter
  <2> QED
    BY <2>2, <2>3, <2>4
<1>3. R \in SUBSET (Nat \X Seq(Seq(Char))) /\ (<<n, s>> \in R => Ending(n, a \o s))
  OBVIOUS
<1> HIDE DEF R
<1>4. ClosesLevels(R)
  BY <1>1, <1>2 DEF ClosesLevels
<1> QED
  BY <1>3, <1>4, EndingIn

(* ts is begun and n blocks are open: its last statement, of which it may     *)
(* hold the words ws, is to end, and then every ending of level n will do.    *)
Pending(ts, n, pre, ws) ==
  /\ ts = pre \o ws /\ Opened(ts) = Closed(ts) + n
  /\ IF Behind(ts) = "normal" THEN ws \in Words ELSE ws = <<>>
  /\ \E s : Ending(n, s)
  /\ \A s : Ending(n, s) => Grammatical(pre \o s)

Completes(ts) ==
  Begins(ts) => \E n \in Nat : \E pre \in Seq(Seq(Char)) : \E ws \in Seq(Seq(Char)) :
                  Pending(ts, n, pre, ws)

LEMMA Deeper ==
  /\ \A o, c, n \in Nat : o = c + n => o + 1 = c + (n + 1)
  /\ \A o, c, n \in Nat : o = c + (n + 1) => o = (c + 1) + n
  /\ \A o, c, n \in Nat : o = c + n /\ c + 1 <= o => n # 0
  OBVIOUS

LEMMA Nothing ==
  ASSUME NEW a \in Seq(Seq(Char))
  PROVE  a \o <<>> = a /\ <<>> \o a = a /\ <<>> \in Seq(Seq(Char))
<1> DEFINE S == Seq(Char)
<1> HIDE DEF S
<1>1. a \in Seq(S)
  BY DEF S
<1>2. a \o <<>> = a /\ <<>> \o a = a /\ <<>> \in Seq(S)
  BY <1>1
<1> QED
  BY <1>2 DEF S

LEMMA TokenBefore ==
  ASSUME NEW a \in Seq(Seq(Char)), NEW b \in Seq(Seq(Char)), NEW t \in Seq(Char)
  PROVE  Append(a, t) \o b = a \o (<<t>> \o b) /\ <<t>> \o b \in Seq(Seq(Char))
<1> DEFINE S == Seq(Char)
<1> HIDE DEF S
<1>1. a \in Seq(S) /\ b \in Seq(S) /\ t \in S
  BY DEF S
<1>2. Append(a, t) \o b = a \o (<<t>> \o b)
  BY <1>1
<1>3. <<t>> \o b \in Seq(S)
  BY <1>1
<1> QED
  BY <1>2, <1>3 DEF S

LEMMA PendingEnd ==
  ASSUME NEW ts \in Seq(Seq(Char)), NEW n \in Nat, NEW pre \in Seq(Seq(Char)),
         NEW ws \in Seq(Seq(Char)), Pending(ts, n, pre, ws), Behind(ts) = "normal"
  PROVE  LET us == Append(ts, <<";">>) IN Pending(us, n, us, <<>>)
<1> DEFINE e == <<";">>
           us == Append(ts, e)
           a == Ended(<<>>, ws)
<1>1. ws \in Words /\ ts = pre \o ws /\ Opened(ts) = Closed(ts) + n
  BY DEF Pending
<1>2. e \in Seq(Char) /\ e # <<"{">> /\ e # <<"}">> /\ Kind(e) = "end"
  BY MarkTokens, Marks, Kinds
<1>3. <<>> \in Seq(Seq(Char)) /\ pre \o <<>> = pre
  BY Nothing
<1>4. a \in Configs /\ a \in Seq(Seq(Char))
  BY <1>1, <1>3, ConfigRules, EndedType
<1>5. pre \o a = us
  <2>1. pre \o a = Ended(pre \o <<>>, ws)
    BY <1>1, <1>3, EndedAfter
  <2> QED
    BY <1>1, <1>3, <2>1 DEF Ended
<1> HIDE DEF e, us, a
<1>6. us \in Seq(Seq(Char)) /\ us = us \o <<>>
  <2>1. us \in Seq(Seq(Char))
    BY <1>2, AppendToken DEF us
  <2> QED
    BY <2>1, Nothing
<1>7. Opened(us) = Closed(us) + n /\ Behind(us) # "normal"
  <2>1. Opened(us) = Opened(ts) /\ Closed(us) = Closed(ts) /\ Behind(us) = Kind(e)
    BY <1>2, TokenAppend DEF us
  <2> QED
    BY <1>1, <1>2, <2>1
<1>8. ASSUME NEW s, Ending(n, s) PROVE Grammatical(us \o s)
  <2>1. Ending(n, a \o s) /\ s \in Seq(Seq(Char))
    BY <1>4, <1>8, EndingAfter, EndingType
  <2>2. Grammatical(pre \o (a \o s))
    BY <2>1 DEF Pending
  <2>3. pre \o (a \o s) = (pre \o a) \o s
    BY <1>4, <2>1, Associates
  <2> QED
    BY <1>5, <2>2, <2>3
<1>9. \E s : Ending(n, s)
  BY DEF Pending
<1>10. Pending(us, n, us, <<>>)
  BY <1>6, <1>7, <1>8, <1>9 DEF Pending
<1> QED
  BY <1>10 DEF us, e

LEMMA EnclosedBehind ==
  ASSUME NEW a \in Seq(Seq(Char)), NEW ws \in Words, NEW c \in Seq(Seq(Char))
  PROVE  a \o Enclosed(<<>>, ws, c) = Enclosed(a, ws, c)
<1> DEFINE z == <<>>
<1>1. z \in Seq(Seq(Char)) /\ a \o z = a
  BY Nothing
<1> HIDE DEF z
<1>2. a \o Enclosed(z, ws, c) = Enclosed(a \o z, ws, c)
  BY <1>1, EnclosedAfter
<1>3. a \o Enclosed(z, ws, c) = Enclosed(a, ws, c)
  BY <1>1, <1>2
<1> QED
  BY <1>3 DEF z

LEMMA PendingOpen ==
  ASSUME NEW ts \in Seq(Seq(Char)), NEW n \in Nat, NEW pre \in Seq(Seq(Char)),
         NEW ws \in Seq(Seq(Char)), Pending(ts, n, pre, ws), Behind(ts) = "normal"
  PROVE  LET us == Append(ts, <<"{">>) IN Pending(us, n + 1, us, <<>>)
<1> DEFINE b == <<"{">>
           e == <<"}">>
           us == Append(ts, b)
<1>1. ws \in Words /\ ts = pre \o ws /\ Opened(ts) = Closed(ts) + n
  BY DEF Pending
<1>2. /\ b \in Seq(Char) /\ b = <<"{">> /\ b # <<"}">> /\ Kind(b) = "open"
      /\ e \in Seq(Char)
  BY MarkTokens, Marks, Kinds
<1>3. <<>> \in Seq(Seq(Char)) /\ pre \o <<>> = pre /\ <<>> \in Configs
  BY Nothing, ConfigRules
<1>4. ASSUME NEW c \in Configs
      PROVE  /\ Enclosed(<<>>, ws, c) \in Configs
             /\ pre \o Enclosed(<<>>, ws, c) = Append(us \o c, e)
  <2>1. c \in Seq(Seq(Char))
    BY DEF Configs
  <2>2. pre \o Enclosed(<<>>, ws, c) = Enclosed(pre, ws, c)
    BY <1>1, <2>1, EnclosedBehind
  <2>3. Enclosed(<<>>, ws, c) \in Configs
    BY <1>1, <1>3, ConfigRules
  <2> QED
    BY <1>1, <1>3, <2>2, <2>3 DEF Enclosed
<1> HIDE DEF b, e, us
<1>5. us \in Seq(Seq(Char))
  BY <1>2, AppendToken DEF us
<1>6. us = us \o <<>>
  BY <1>5, Nothing
<1>7. Opened(us) = Closed(us) + (n + 1) /\ Behind(us) # "normal"
  <2>1. /\ Opened(us) = Opened(ts) + 1 /\ Closed(us) = Closed(ts)
        /\ Closed(ts) \in Nat /\ Opened(ts) \in Nat
    BY <1>2, TokenAppend DEF us
  <2>2. Behind(us) = Kind(b)
    BY <1>2, TokenAppend DEF us
  <2>3. Opened(ts) + 1 = Closed(ts) + (n + 1)
    BY <1>1, <2>1, Deeper
  <2> QED
    BY <1>2, <2>1, <2>2, <2>3, Zenon
<1>8. ASSUME NEW s, Ending(n + 1, s) PROVE Grammatical(us \o s)
  <2>1. Closes(n + 1, s)
    BY <1>8, EndingParts
  <2>2. PICK m \in Nat : \E c \in Configs : \E r \in Seq(Seq(Char)) :
          n + 1 = m + 1 /\ Ending(m, r) /\ s = Upward(c, r)
    BY <2>1 DEF Closes
  <2>3. PICK c \in Configs : \E r \in Seq(Seq(Char)) : Ending(n, r) /\ s = Upward(c, r)
    <3>1. m = n
      BY <2>2
    <3> QED
      BY <2>2, <3>1
  <2>4. PICK r \in Seq(Seq(Char)) : Ending(n, r) /\ s = Upward(c, r)
    BY <2>3
  <2> DEFINE a == Enclosed(<<>>, ws, c)
  <2>5. a \in Configs /\ a \in Seq(Seq(Char)) /\ pre \o a = Append(us \o c, e)
    BY <1>4 DEF Configs
  <2> HIDE DEF a
  <2>6. c \in Seq(Seq(Char)) /\ Append(c, e) \in Seq(Seq(Char))
    BY <1>2, AppendToken DEF Configs
  <2>7. Ending(n, a \o r)
    BY <2>4, <2>5, EndingAfter
  <2>8. Grammatical(pre \o (a \o r))
    BY <2>7 DEF Pending
  <2>9. pre \o (a \o r) = (pre \o a) \o r
    BY <2>5, Associates
  <2>10. us \o Append(c, e) = Append(us \o c, e)
    BY <1>2, <1>5, <2>6, AppendAfter
  <2>11. us \o (Append(c, e) \o r) = (us \o Append(c, e)) \o r
    BY <1>5, <2>6, Associates
  <2>12. s = Append(c, e) \o r
    BY <2>4 DEF Upward, e
  <2> QED
    BY <2>5, <2>8, <2>9, <2>10, <2>11, <2>12
<1>9. \E s : Ending(n + 1, s)
  <2>1. PICK s : Ending(n, s)
    BY DEF Pending
  <2>2. s \in Seq(Seq(Char))
    BY <2>1, EndingType
  <2>3. Ending(n + 1, Upward(<<>>, s))
    BY <1>3, <2>1, <2>2, EndingRules
  <2> QED
    BY <2>3
<1>10. Pending(us, n + 1, us, <<>>)
  BY <1>6, <1>7, <1>8, <1>9 DEF Pending
<1> QED
  BY <1>10 DEF us, b

LEMMA PendingClose ==
  ASSUME NEW ts \in Seq(Seq(Char)), NEW n \in Nat, NEW pre \in Seq(Seq(Char)),
         NEW ws \in Seq(Seq(Char)), Pending(ts, n + 1, pre, ws), Behind(ts) # "normal"
  PROVE  LET us == Append(ts, <<"}">>) IN Pending(us, n, us, <<>>)
<1> DEFINE e == <<"}">>
           us == Append(ts, e)
<1>1. ts = pre \o <<>> /\ Opened(ts) = Closed(ts) + (n + 1)
  BY DEF Pending
<1>2. ts = pre
  BY <1>1, Nothing
<1>3. e \in Seq(Char) /\ e = <<"}">> /\ e # <<"{">> /\ Kind(e) = "close"
  BY MarkTokens, Marks, Kinds
<1> HIDE DEF e, us
<1>4. us \in Seq(Seq(Char))
  BY <1>3, AppendToken DEF us
<1>5. us = us \o <<>>
  BY <1>4, Nothing
<1>6. Opened(us) = Closed(us) + n /\ Behind(us) # "normal"
  <2>1. /\ Opened(us) = Opened(ts) /\ Closed(us) = Closed(ts) + 1
        /\ Closed(ts) \in Nat /\ Opened(ts) \in Nat
    BY <1>3, TokenAppend DEF us
  <2>2. Behind(us) = Kind(e)
    BY <1>3, TokenAppend DEF us
  <2>3. Opened(ts) = (Closed(ts) + 1) + n
    BY <1>1, <2>1, Deeper
  <2> QED
    BY <1>3, <2>1, <2>2, <2>3, Zenon
<1>7. ASSUME NEW s, Ending(n, s) PROVE Grammatical(us \o s)
  <2>1. s \in Seq(Seq(Char)) /\ <<>> \in Configs /\ <<>> \in Seq(Seq(Char))
    BY <1>7, EndingType, ConfigRules, Nothing
  <2>2. Ending(n + 1, Upward(<<>>, s))
    BY <1>7, <2>1, EndingRules
  <2>3. Grammatical(pre \o Upward(<<>>, s))
    BY <2>2 DEF Pending
  <2>4. Append(<<>>, e) \in Seq(Seq(Char))
    BY <1>3, <2>1, AppendToken
  <2>5. pre \o (Append(<<>>, e) \o s) = (pre \o Append(<<>>, e)) \o s
    BY <2>1, <2>4, Associates, SMTT(30)
  <2>6. pre \o Append(<<>>, e) = Append(pre \o <<>>, e)
    BY <1>3, <2>1, AppendAfter
  <2>7. Upward(<<>>, s) = Append(<<>>, e) \o s
    BY DEF Upward, e
  <2> QED
    BY <1>1, <2>3, <2>5, <2>6, <2>7 DEF us
<1>8. \E s : Ending(n, s)
  <2>1. PICK s : Ending(n + 1, s)
    BY DEF Pending
  <2>2. Closes(n + 1, s)
    BY <2>1, EndingParts
  <2>3. PICK m \in Nat : \E c \in Configs : \E r \in Seq(Seq(Char)) :
          n + 1 = m + 1 /\ Ending(m, r) /\ s = Upward(c, r)
    BY <2>2 DEF Closes
  <2>4. m = n
    BY <2>3
  <2> QED
    BY <2>3, <2>4
<1>9. Pending(us, n, us, <<>>)
  BY <1>5, <1>6, <1>7, <1>8 DEF Pending
<1> QED
  BY <1>9 DEF us, e

LEMMA PendingWord ==
  ASSUME NEW ts \in Seq(Seq(Char)), NEW n \in Nat, NEW pre \in Seq(Seq(Char)),
         NEW ws \in Seq(Seq(Char)), Pending(ts, n, pre, ws), NEW t \in Seq(Char), IsWord(t)
  PROVE  Append(ws, t) \in Seq(Seq(Char)) /\ Pending(Append(ts, t), n, pre, Append(ws, t))
<1> DEFINE us == Append(ts, t)
           xs == Append(ws, t)
<1>1. t # <<"{">> /\ t # <<"}">> /\ Kind(t) = "normal"
  BY Marks, Kinds
<1>2. ts = pre \o ws /\ Opened(ts) = Closed(ts) + n
  BY DEF Pending
<1>3. xs \in Words /\ xs \in Seq(Seq(Char))
  <2>1. CASE Behind(ts) = "normal"
    <3>1. ws \in Words
      BY <2>1 DEF Pending
    <3> QED
      BY <3>1, WordsAppend, WordsType
  <2>2. CASE Behind(ts) # "normal"
    <3>1. ws = <<>>
      BY <2>2 DEF Pending
    <3>2. xs = <<t>>
      BY <3>1
    <3> QED
      BY <3>2 DEF Words
  <2> QED
    BY <2>1, <2>2
<1>4. us = pre \o xs
  BY <1>2, AppendAfter
<1>5. Opened(us) = Closed(us) + n /\ Behind(us) = "normal"
  <2>1. Opened(us) = Opened(ts) /\ Closed(us) = Closed(ts) /\ Behind(us) = Kind(t)
    BY <1>1, TokenAppend
  <2> QED
    BY <1>1, <1>2, <2>1
<1>6. (\E s : Ending(n, s)) /\ \A s : Ending(n, s) => Grammatical(pre \o s)
  BY DEF Pending
<1> HIDE DEF us, xs
<1>7. Pending(us, n, pre, xs)
  BY <1>3, <1>4, <1>5, <1>6 DEF Pending
<1> QED
  BY <1>3, <1>7 DEF us, xs

LEMMA CompletesStep ==
  ASSUME NEW ts \in Seq(Seq(Char)), NEW t \in Seq(Char), Completes(ts)
  PROVE  Completes(Append(ts, t))
<1> DEFINE us == Append(ts, t)
<1> SUFFICES ASSUME Begins(us)
             PROVE  \E n \in Nat : \E pre \in Seq(Seq(Char)) : \E ws \in Seq(Seq(Char)) :
                      Pending(us, n, pre, ws)
  BY DEF Completes
<1>1. /\ Begins(ts)
      /\ t \in {<<";">>, <<"{">>} => Behind(ts) = "normal"
      /\ t = <<"}">> => Behind(ts) \in {"end", "open", "close"}
      /\ Closed(us) <= Opened(us)
  BY TokenAppend
<1>2. us \in Seq(Seq(Char)) /\ <<>> \in Seq(Seq(Char))
  BY AppendToken, Nothing
<1>3. PICK n \in Nat : \E pre \in Seq(Seq(Char)) : \E ws \in Seq(Seq(Char)) :
        Pending(ts, n, pre, ws)
  BY <1>1 DEF Completes
<1>4. PICK pre \in Seq(Seq(Char)) : \E ws \in Seq(Seq(Char)) : Pending(ts, n, pre, ws)
  BY <1>3
<1>5. PICK ws \in Seq(Seq(Char)) : Pending(ts, n, pre, ws)
  BY <1>4
<1>6. CASE t = <<";">>
  <2>1. Behind(ts) = "normal"
    BY <1>1, <1>6
  <2>2. Pending(us, n, us, <<>>)
    BY <1>5, <1>6, <2>1, PendingEnd
  <2> QED
    BY <1>2, <2>2
<1>7. CASE t = <<"{">>
  <2>1. Behind(ts) = "normal"
    BY <1>1, <1>7
  <2>2. n + 1 \in Nat
    OBVIOUS
  <2>3. Pending(us, n + 1, us, <<>>)
    BY <1>5, <1>7, <2>1, PendingOpen
  <2> QED
    BY <1>2, <2>2, <2>3
<1>8. CASE t = <<"}">>
  <2>1. Behind(ts) # "normal"
    BY <1>1, <1>8
  <2>2. n # 0
    <3>1. Opened(ts) = Closed(ts) + n
      BY <1>5 DEF Pending
    <3>2. t # <<"{">>
      BY <1>8, Marks
    <3>3. /\ Closed(us) = Closed(ts) + 1 /\ Opened(us) = Opened(ts)
          /\ Closed(ts) \in Nat /\ Opened(ts) \in Nat
      BY <1>8, <3>2, TokenAppend
    <3>4. Closed(ts) + 1 <= Opened(ts)
      BY <1>1, <3>3, Zenon
    <3> QED
      BY <3>1, <3>3, <3>4, Deeper
  <2>3. PICK m \in Nat : n = m + 1
    <3>1. n - 1 \in Nat /\ n = (n - 1) + 1
      BY <2>2
    <3> QED
      BY <3>1
  <2>4. Pending(us, m, us, <<>>)
    BY <1>5, <1>8, <2>1, <2>3, PendingClose
  <2> QED
    BY <1>2, <2>4
<1>9. CASE t \notin {<<";">>, <<"{">>, <<"}">>}
  <2>1. IsWord(t)
    BY <1>9, Marks
  <2>2. Append(ws, t) \in Seq(Seq(Char)) /\ Pending(us, n, pre, Append(ws, t))
    BY <1>5, <2>1, PendingWord
  <2> QED
    BY <2>2
<1> QED
  BY <1>6, <1>7, <1>8, <1>9

(* What begins as a configuration is the beginning of one. *)
LEMMA CompletesEnd ==
  ASSUME NEW ts \in Seq(Seq(Char)), Completes(ts), Begins(ts)
  PROVE  \E us \in Seq(Seq(Char)) : Grammatical(ts \o us)
<1>1. PICK n \in Nat : \E pre \in Seq(Seq(Char)) : \E ws \in Seq(Seq(Char)) :
        Pending(ts, n, pre, ws)
  BY DEF Completes
<1>2. PICK pre \in Seq(Seq(Char)) : \E ws \in Seq(Seq(Char)) : Pending(ts, n, pre, ws)
  BY <1>1
<1>3. PICK ws \in Seq(Seq(Char)) : Pending(ts, n, pre, ws)
  BY <1>2
<1>4. PICK s : Ending(n, s)
  BY <1>3 DEF Pending
<1>5. s \in Seq(Seq(Char))
  BY <1>4, EndingType
<1>6. CASE Behind(ts) = "normal"
  <2>1. Pending(Append(ts, <<";">>), n, Append(ts, <<";">>), <<>>)
    BY <1>3, <1>6, PendingEnd
  <2>2. Grammatical(Append(ts, <<";">>) \o s)
    BY <1>4, <2>1 DEF Pending
  <2>3. /\ Append(ts, <<";">>) \o s = ts \o (<< <<";">> >> \o s)
        /\ << <<";">> >> \o s \in Seq(Seq(Char))
    BY <1>5, MarkTokens, TokenBefore
  <2> QED
    BY <2>2, <2>3
<1>7. CASE Behind(ts) # "normal"
  <2>1. ts = pre \o <<>> /\ Grammatical(pre \o s)
    BY <1>3, <1>4, <1>7 DEF Pending
  <2>2. ts = pre
    BY <2>1, Nothing
  <2> QED
    BY <1>5, <2>1, <2>2
<1> QED
  BY <1>6, <1>7

(* ts is the beginning of a configuration. *)
Completable(ts) == \E us \in Seq(Seq(Char)) : Grammatical(ts \o us)

(* Parse returns true for a configuration of the grammar, without an error of *)
(* ParseToken; where it does not, the tokens are no configuration at the end  *)
(* of the file, and before it they are not even the beginning of one; and     *)
(* while it goes on they are the beginning of one, except when a closing      *)
(* brace too many has emptied the stack ("Returns true iff the input config   *)
(* file is valid", config_parser.h:38-40; AcceptsExactly, for the grammar).   *)
AcceptsGrammar ==
  /\ (result = "none" /\ last # "eof") => (Empty <=> ~Completable(tokens))
  /\ result = "true" => Grammatical(tokens) /\ ~error
  /\ result = "undefined" => ~Completable(tokens)
  /\ (result = "false" /\ ~error) =>
       IF ahead = "eof" THEN ~Grammatical(tokens) ELSE ~Completable(tokens)

BuildAll == \A V \in SUBSET Seq(Seq(Char)) : Grammar(V) => BuildInv(<<{}, V>>)

LEMMA BuildGrammar ==
  ASSUME AcceptInv, BuildAll, Completes(tokens)
  PROVE  AcceptsGrammar
<1> USE DEF AcceptInv
<1>1. tokens \in Seq(Seq(Char)) /\ result \in {"none", "true", "false", "undefined"}
  BY DEF TypeOK
<1>2. ASSUME result = "true" PROVE Grammatical(tokens) /\ ~error
  <2>1. ASSUME NEW V \in SUBSET Seq(Seq(Char)), Grammar(V) PROVE tokens \in V
    <3> DEFINE R == <<{}, V>>
    <3>1. BuildInv(R) /\ R[2] = V
      BY <2>1 DEF BuildAll
    <3> HIDE DEF R
    <3> QED
      BY <1>2, <3>1 DEF BuildInv, In
  <2> QED
    BY <1>2, <2>1 DEF Grammatical, AcceptsBalanced
<1>3. ~Balanced(tokens) => ~Grammatical(tokens)
  BY <1>1, GrammaticalBalanced
<1>4. ASSUME ~Begins(tokens), NEW us \in Seq(Seq(Char)) PROVE ~Grammatical(tokens \o us)
  <2>1. tokens \o us \in Seq(Seq(Char))
    BY <1>1, ConcatCounts
  <2>2. ~Begins(tokens \o us)
    BY <1>1, <1>4, BeginsPrefix
  <2> QED
    BY <2>1, <2>2, GrammaticalBalanced, BalancedParts
<1>5. Completable(tokens) <=> Begins(tokens)
  <2>1. Begins(tokens) => Completable(tokens)
    BY <1>1, CompletesEnd DEF Completable
  <2>2. ~Begins(tokens) => ~Completable(tokens)
    BY <1>4 DEF Completable
  <2> QED
    BY <2>1, <2>2
<1>6. (result = "none" /\ last # "eof") => (Empty <=> ~Completable(tokens))
  BY <1>5 DEF AcceptsBalanced
<1>7. result = "undefined" => ~Completable(tokens)
  BY <1>5 DEF AcceptsBalanced
<1>8. (result = "false" /\ ~error) =>
        IF ahead = "eof" THEN ~Grammatical(tokens) ELSE ~Completable(tokens)
  BY <1>3, <1>5 DEF AcceptsBalanced
<1> QED
  BY <1>2, <1>6, <1>7, <1>8 DEF AcceptsGrammar

LEMMA NextTokens ==
  ASSUME TypeOK, [Next]_vars
  PROVE  tokens' = tokens \/ \E t \in Seq(Char) : tokens' = Append(tokens, t)
<1>1. Next \/ UNCHANGED vars
  OBVIOUS
<1>2. TypeOK'
  BY NextType
<1>3. tokens' = tokens \/ \E t : tokens' = Append(tokens, t)
  <2>1. CASE UNCHANGED vars
    BY <2>1 DEF vars, parser
  <2>2. CASE White
    BY <2>2 DEF White, Go, Give, parser
  <2>3. CASE Quotation
    BY <2>3 DEF Quotation, Go, Give, GiveError, parser
  <2>4. CASE Escape
    BY <2>4 DEF Escape, Go, parser
  <2>5. CASE Comment
    BY <2>5 DEF Comment, Go, parser
  <2>6. CASE InWord
    BY <2>6 DEF InWord, Go, Give, parser
  <2>7. CASE AtEnd
    BY <2>7 DEF AtEnd, GiveError, GiveEnd
  <2> QED
    BY <1>1, <2>1, <2>2, <2>3, <2>4, <2>5, <2>6, <2>7 DEF Next
<1>4. ASSUME NEW t, tokens' = Append(tokens, t) PROVE t \in Seq(Char)
  <2>1. tokens \in Seq(Seq(Char)) /\ tokens' \in Seq(Seq(Char))
    BY <1>2 DEF TypeOK
  <2> DEFINE S == Seq(Char)
  <2> HIDE DEF S
  <2>2. tokens \in Seq(S) /\ Append(tokens, t) \in Seq(S)
    BY <1>4, <2>1 DEF S
  <2>3. Len(Append(tokens, t)) = Len(tokens) + 1
    BY <2>2
  <2>4. Append(tokens, t)[Len(tokens) + 1] = t /\ Len(tokens) + 1 \in 1..(Len(tokens) + 1)
    BY <2>2
  <2>5. t \in S
    BY <2>2, <2>3, <2>4
  <2> QED
    BY <2>5 DEF S
<1> QED
  BY <1>3, <1>4

LEMMA CompletesInit ==
  ASSUME Init
  PROVE  Completes(tokens)
<1> DEFINE z == <<>>
<1>1. tokens = z /\ Behind(z) # "normal"
  BY DEF Init, Behind
<1>2. z \in Seq(Seq(Char)) /\ z = z \o z
  BY Nothing
<1>3. z \in Configs
  BY ConfigRules
<1>4. Opened(z) = Closed(z) + 0
  <2>1. Len(<<>>) = 0 /\ \A x : {i \in 1..0 : <<>>[i] = x} = {}
    OBVIOUS
  <2>2. Opened(z) = Closed(z)
    BY <2>1 DEF Opened, Closed, Count
  <2>3. Closed(z) \in Nat
    BY <1>2, ConcatCounts
  <2> HIDE DEF z
  <2> QED
    BY <2>2, <2>3
<1> HIDE DEF z
<1>5. \A s : Ending(0, s) => Grammatical(z \o s)
  <2> SUFFICES ASSUME NEW s, Ending(0, s) PROVE Grammatical(z \o s)
    OBVIOUS
  <2>1. s \in Configs
    <3>1. ~Closes(0, s)
      BY DEF Closes
    <3> QED
      BY <3>1, EndingParts
  <2>2. z \o s = s
    BY <2>1, Nothing DEF Configs, z
  <2> QED
    BY <2>1, <2>2 DEF Configs
<1>6. \E s : Ending(0, s)
  BY <1>3, EndingRules
<1>7. Pending(z, 0, z, z)
  BY <1>1, <1>2, <1>4, <1>5, <1>6 DEF Pending, z
<1>8. 0 \in Nat
  OBVIOUS
<1> QED
  BY <1>1, <1>2, <1>7, <1>8 DEF Completes

(* Parse accepts the grammar's token sequences and no others, for files of    *)
(* any length and blocks of any depth (Parse, config_parser.cc:291-391).      *)
THEOREM AcceptsGrammarHolds == Spec => []AcceptsGrammar
<1>r. ASSUME NEW V, Grammar(V) PROVE Rules(<<{}, V>>)
  BY <1>r, BothRules
<1>1. Init => AcceptInv /\ BuildAll /\ Completes(tokens)
  BY <1>r, AcceptInit, BuildInit, CompletesInit DEF BuildAll
<1>2. AcceptInv /\ BuildAll /\ Completes(tokens) /\ [Next]_vars
      => AcceptInv' /\ BuildAll' /\ Completes(tokens)'
  <2> SUFFICES ASSUME AcceptInv, BuildAll, Completes(tokens), [Next]_vars
               PROVE  AcceptInv' /\ BuildAll' /\ Completes(tokens)'
    OBVIOUS
  <2>1. ASSUME NEW V \in SUBSET Seq(Seq(Char)), Grammar(V) PROVE BuildInv(<<{}, V>>)'
    BY <1>r, <2>1, BuildStep DEF BuildAll
  <2>2. Completes(tokens')
    <3>1. TypeOK /\ tokens \in Seq(Seq(Char))
      BY DEF AcceptInv, TypeOK
    <3>2. CASE tokens' = tokens
      BY <3>2
    <3>3. ASSUME NEW t \in Seq(Char), tokens' = Append(tokens, t) PROVE Completes(tokens')
      <4>1. Completes(Append(tokens, t))
        BY <3>1, CompletesStep
      <4> QED
        BY <3>3, <4>1
    <3> QED
      BY <3>1, <3>2, <3>3, NextTokens
  <2> QED
    BY <2>1, <2>2, AcceptStep DEF BuildAll
<1>3. AcceptInv /\ BuildAll /\ Completes(tokens) => AcceptsGrammar
  BY BuildGrammar
<1> QED
  BY <1>1, <1>2, <1>3, PTL DEF Spec
=============================================================================
