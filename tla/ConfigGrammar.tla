----------------------------- MODULE ConfigGrammar -----------------------------
(* What ConfigParser should accept and build: the grammar of configurations,  *)
(*     Config    = Statement*                                                 *)
(*     Statement = Word+ ";"  |  Word+ "{" Config "}"                         *)
(* as a recursive recogniser of token sequences, and the text of a            *)
(* configuration as the sequence of its tokens (NginxConfig::ToString).       *)
EXTENDS ConfigParser

(* ts[i..j] is a Config, or a Statement. *)
RECURSIVE IsConfig(_, _, _)
IsStatement(ts, i, j) ==
  \/ i < j /\ ts[j] = <<";">> /\ \A k \in i..(j - 1) : IsWord(ts[k])
  \/ \E b \in (i + 1)..(j - 1) :
       /\ ts[b] = <<"{">> /\ ts[j] = <<"}">>
       /\ \A k \in i..(b - 1) : IsWord(ts[k])
       /\ IsConfig(ts, b + 1, j - 1)
IsConfig(ts, i, j) ==
  \/ i > j
  \/ \E k \in i..j : IsStatement(ts, i, k) /\ IsConfig(ts, k + 1, j)

Valid(ts) == IsConfig(ts, 1, Len(ts))

(* ts can be continued to a configuration: end the statement that has begun,  *)
(* if one has, then close what is open.                                       *)
CanBecomeValid(ts) ==
  \E e \in {<<>>, << <<";">> >>}, n \in 0..Len(ts) :
    Valid(ts \o e \o [k \in 1..n |-> <<"}">>])

(* The configuration c written out. *)
RECURSIVE ConfigToString(_)
StatementToString(s) ==
  s.tokens \o (IF s.block = <<>> THEN << <<";">> >>
                ELSE << <<"{">> >> \o ConfigToString(s.block[1]) \o << <<"}">> >>)
ConfigToString(c) ==
  IF c = <<>> THEN <<>> ELSE StatementToString(Head(c)) \o ConfigToString(Tail(c))

(* Parse returns true exactly if the tokens it has been given are a           *)
(* configuration ("Returns true iff the input config file is valid",          *)
(* config_parser.h:38-40; a word the file ends in is not among the tokens).   *)
(* It rejects nothing else, before the end of the file not before the first   *)
(* token that cannot be continued to a configuration, and goes on after such  *)
(* a token only when a closing brace too many has emptied the stack; only     *)
(* then is its behaviour undefined.  ParseToken's errors reject the file.     *)
AcceptsExactly ==
  /\ (result = "none" /\ last # "eof") => (Empty <=> ~CanBecomeValid(tokens))
  /\ result = "true" => Valid(tokens) /\ ~error
  /\ result = "undefined" => ~CanBecomeValid(tokens)
  /\ (result = "false" /\ ~error) =>
       IF ahead = "eof" THEN ~Valid(tokens) ELSE ~CanBecomeValid(tokens)

(* An accepted configuration holds what the file says: written out by         *)
(* ToString (96-137) it is the file's tokens, every word in its statement and *)
(* every block at the statement that opens it.                                *)
RoundTrip == result = "true" => ConfigToString(config) = tokens
=============================================================================
