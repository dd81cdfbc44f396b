----------------------------- MODULE ConfigParser -----------------------------
(* The configuration parser (src/config_parser.cc): ParseToken reads the file *)
(* a character at a time and returns tokens, Parse builds the configuration   *)
(* from them on a stack.  A token is the sequence of its characters; one step *)
(* is one character, or one token when its last character has been read.      *)
EXTENDS Naturals, Sequences, FiniteSets, SequencesExt

CONSTANTS
  Letter,    \* characters without a meaning of their own
  Quote,     \* quotation marks, by name: each has the same two states in ParseToken
  MaxChars   \* BOUND: characters of the file; not counted: white space before a
             \* token and the character that follows a quotation

ASSUME MaxCharsAssumption == MaxChars \in Nat

(* A tab is a space; a carriage return is white space and a line's end, but   *)
(* separates no words.                                                        *)
Space     == {" ", "\n"}
Mark      == {";", "{", "}"}
Separator == Space \cup Mark
Char      == Letter \cup Quote \cup Separator \cup {"\r", "#", "\\"}

ASSUME CharAssumption ==
  /\ (Letter \cup Quote) \cap (Separator \cup {"\r", "#", "\\"}) = {}
  /\ Letter \cap Quote = {} /\ {"none", "eof"} \cap Char = {}

VARIABLES
  lex,     \* state of ParseToken
  quote,   \* in a quotation: its mark
  value,   \* *value: the token read so far; of a comment, only its beginning
  ahead,   \* the character peeked at or put back, "eof" at the end, or "none"
  chars,   \* BOUND: characters read
  last,    \* last_token_type
  stack,   \* config_stack: the configurations that are open, outermost first
  result,  \* what Parse has returned: "none" yet, "true", "false", or "undefined"
  config,  \* the configuration, when Parse has returned true
  tokens,  \* HISTORY: the tokens Parse has been given, comments left out
  error    \* HISTORY: ParseToken has returned TOKEN_TYPE_ERROR

lexer  == <<lex, quote, value, ahead, chars>>
parser == <<last, stack, result, config, tokens, error>>
vars   == <<lexer, parser>>

(* A configuration is a sequence of statements; block holds the child block,  *)
(* if there is one.                                                           *)
Statement(ts) == [tokens |-> ts, block |-> <<>>]

Init ==
  /\ lex = "white" /\ quote = "none" /\ value = <<>> /\ ahead = "none" /\ chars = 0
  /\ last = "start" /\ stack = << <<>> >> /\ result = "none"
  /\ config = <<>> /\ tokens = <<>> /\ error = FALSE
-----------------------------------------------------------------------------
(* Parse: what it does with a token.                                          *)

Return(r) == result' = r /\ UNCHANGED <<last, stack, config>>

NextLastKept(k) == last' = last
NextLast(k)     == last' = k
Continue(k, s)  == stack' = s /\ NextLast(k) /\ UNCHANGED <<result, config>>

Top == Last(stack)

(* The current configuration with a word added to it. *)
AddWordAnew(w) == Append(Top, Statement(<<w>>))
AddWord(w) ==
  IF last = "normal"
    THEN Append(Front(Top), [Last(Top) EXCEPT !.tokens = Append(@, w)])
    ELSE Append(Top, Statement(<<w>>))

(* Using the top of an empty stack, or popping it, is undefined: a closing    *)
(* brace too many has removed the configuration itself.                       *)
Empty == stack = <<>>

Word(w) ==
  IF last \notin {"start", "end", "open", "close", "normal"} THEN Return("false")
  ELSE IF Empty THEN Return("undefined")
  ELSE Continue("normal", Append(Front(stack), AddWord(w)))

StatementEnd ==
  IF last # "normal" THEN Return("false") ELSE Continue("end", stack)

StartBlock ==
  IF last # "normal" THEN Return("false") ELSE Continue("open", Append(stack, <<>>))

(* The child block has been in its statement since it was opened; here it is  *)
(* put there when it is complete.                                             *)
Close ==
  LET outer == Front(stack)
      above == Last(outer)
      statement == [Last(above) EXCEPT !.block = <<Top>>] IN
  IF outer = <<>> THEN <<>> ELSE Append(Front(outer), Append(Front(above), statement))

EndBlock ==
  IF last \notin {"end", "close", "open"} THEN Return("false")
  ELSE IF Empty THEN Return("undefined")
  ELSE Continue("close", Close)

EndOfFileOpen ==
  IF last \notin {"end", "close", "start"} THEN Return("false")
  ELSE IF Empty THEN Return("undefined")
  ELSE result' = "true" /\ config' = Top /\ UNCHANGED <<last, stack>>
EndOfFile ==
  IF last \notin {"end", "close", "start"} THEN Return("false")
  ELSE IF Empty THEN Return("undefined")
  ELSE IF Len(stack) = 1
    THEN result' = "true" /\ config' = Top /\ UNCHANGED <<last, stack>>
    ELSE Continue("eof", Front(stack))

(* Parse is given the token t. *)
Give(t) ==
  /\ tokens' = Append(tokens, t) /\ UNCHANGED error
  /\ CASE t = <<";">> -> StatementEnd
       [] t = <<"{">> -> StartBlock
       [] t = <<"}">> -> EndBlock
       [] OTHER -> Word(t)

GiveEnd   == EndOfFile /\ UNCHANGED <<tokens, error>>
GiveError == Return("false") /\ error' = TRUE /\ UNCHANGED tokens
-----------------------------------------------------------------------------
(* ParseToken, one character.                                                 *)

(* input->get() returns c, which is to be read. *)
Get(c) ==
  /\ result = "none"
  /\ \/ ahead # "none" /\ c = ahead /\ UNCHANGED chars
     \/ ahead = "none" /\ c = "eof" /\ UNCHANGED chars
     \/ ahead = "none" /\ c \in Char /\ chars < MaxChars
        /\ chars' = IF lex = "white" /\ c \in Space \cup {"\r"} THEN chars ELSE chars + 1

Go(l, v) == lex' = l /\ value' = v /\ UNCHANGED <<quote, parser>>

(* The next call of ParseToken starts afresh. *)
RestartQuoted == lex' = "white" /\ value' = <<>> /\ quote' = quote
Restart       == lex' = "white" /\ value' = <<>> /\ quote' = "none"

White ==
  /\ lex = "white"
  /\ \E c \in Char :
       /\ Get(c) /\ ahead' = "none"
       /\ \/ c \in Mark /\ Give(<<c>>) /\ Restart
          \/ c = "#" /\ Go("comment", <<c>>)
          \/ c \in Quote /\ lex' = "quote" /\ quote' = c /\ value' = <<c>> /\ UNCHANGED parser
          \/ c \in Space \cup {"\r"} /\ Go("white", <<>>)
          \/ c \in Letter \cup {"\\"} /\ Go("word", <<c>>)

(* A quotation ends at its mark, which must be followed by a separator. *)
Quotation ==
  /\ lex = "quote"
  /\ \E c \in Char :
       /\ Get(c)
       /\ \/ /\ c = quote
             /\ \E n \in Char \cup {"eof"} :
                  /\ ahead' = n
                  /\ \/ n \in Separator /\ Give(Append(value, c))
                     \/ n \notin Separator /\ GiveError
             /\ Restart
          \/ c = "\\" /\ ahead' = "none" /\ Go("escape", Append(value, c))
          \/ c \notin {quote, "\\"} /\ ahead' = "none" /\ Go("quote", Append(value, c))

(* After a backslash any character belongs to the quotation. *)
Escape ==
  /\ lex = "escape"
  /\ \E c \in Char : Get(c) /\ ahead' = "none" /\ Go("quote", Append(value, c))

Comment ==
  /\ lex = "comment"
  /\ \E c \in Char :
       /\ Get(c) /\ ahead' = "none"
       /\ \/ c \in {"\n", "\r"} /\ Restart /\ UNCHANGED parser
          \/ c \notin {"\n", "\r"} /\ Go("comment", value)

(* What ends a word; it is put back. *)
WordEndSpace == Space
WordEnd      == Separator

InWord ==
  /\ lex = "word"
  /\ \E c \in Char :
       /\ Get(c)
       /\ \/ c \in WordEnd /\ ahead' = c /\ Give(value) /\ Restart
          \/ c \notin WordEnd /\ ahead' = "none" /\ Go("word", Append(value, c))

(* At the end of the file an open quotation is an error; a word or a comment  *)
(* that was being read is dropped.                                            *)
AtEnd ==
  /\ Get("eof") /\ ahead' = "eof" /\ Restart
  /\ IF lex = "quote" THEN GiveError ELSE GiveEnd

Next == White \/ Quotation \/ Escape \/ Comment \/ InWord \/ AtEnd

Spec == Init /\ [][Next]_vars
-----------------------------------------------------------------------------
(* Every variable has its type, and a quotation mark is remembered exactly    *)
(* inside a quotation (the states of TokenParserState, config_parser.h).      *)
TypeOK ==
  /\ lex \in {"white", "quote", "escape", "comment", "word"}
  /\ quote \in Quote \cup {"none"} /\ (quote # "none" <=> lex \in {"quote", "escape"})
  /\ value \in Seq(Char) /\ (lex = "white" => value = <<>>)
  /\ ahead \in Char \cup {"none", "eof"}
  /\ chars \in 0..MaxChars
  /\ last \in {"start", "normal", "end", "open", "close", "eof"}
  /\ result \in {"none", "true", "false", "undefined"}
  /\ tokens \in Seq(Seq(Char))
  /\ error \in BOOLEAN

(* Inside t, a character counts as escaped when an odd number of backslashes  *)
(* stands before it.                                                          *)
Backslashes(t, i) ==
  {j \in 1..(i - 1) : \A k \in j..(i - 1) : t[k] = "\\"}
Escaped(t, i) == Cardinality(Backslashes(t, i)) % 2 = 1

Quoted(t) == t[1] \in Quote

(* Every token ParseToken has returned is one token and all of it: a          *)
(* quotation goes from its mark to the first such mark that is not escaped, a *)
(* word holds no separator, does not begin as a comment or a quotation, and   *)
(* what is neither is a single punctuation mark (ParseToken, 164-287).        *)
TokenShape ==
  \A i \in 1..Len(tokens) :
    LET t == tokens[i] n == Len(tokens[i]) IN
    /\ n > 0
    /\ Quoted(t) => {k \in 2..n : t[k] = t[1] /\ ~Escaped(t, k)} = {n}
    /\ ~Quoted(t) => \/ n = 1 /\ t[1] \in Mark
                     \/ /\ t[1] \notin {"#", "\r"}
                        /\ Range(t) \cap Separator = {}

(* Which token sequences are the beginning of a configuration, and which are  *)
(* a whole one: what may stand behind what, and every closing brace has an    *)
(* opening one before it, at the end also the other way round.                *)
IsWord(t) == t \notin {<<c>> : c \in Mark}
Count(ts, t, n) == Cardinality({i \in 1..n : ts[i] = t})

Begins(ts) ==
  \A i \in 1..Len(ts) :
    /\ ts[i] \in {<<";">>, <<"{">>} => i > 1 /\ IsWord(ts[i - 1])
    /\ ts[i] = <<"}">> => i > 1 /\ ~IsWord(ts[i - 1])
    /\ Count(ts, <<"}">>, i) <= Count(ts, <<"{">>, i)

Balanced(ts) ==
  LET n == Len(ts) IN
  /\ Begins(ts) /\ Count(ts, <<"{">>, n) = Count(ts, <<"}">>, n)
  /\ n > 0 => ts[n] \in {<<";">>, <<"}">>}

(* Parse returns true exactly if the braces balance and every statement ends, *)
(* and stops with the token that ends all hope of it; a closing brace too     *)
(* many it only notices at the next token, by then with an undefined result   *)
(* if that is a word, another closing brace or the end (Parse, 316-381).      *)
AcceptsBalanced ==
  /\ (result = "none" /\ last # "eof") => (Empty <=> ~Begins(tokens))
  /\ result = "true" => Balanced(tokens) /\ ~error
  /\ result = "undefined" => ~Begins(tokens)
  /\ (result = "false" /\ ~error) =>
       IF ahead = "eof" THEN ~Balanced(tokens) ELSE ~Begins(tokens)
=============================================================================
