----------------------------- MODULE MCBlogSystem -----------------------------
(* Instances of BlogSystem for TLC. *)
EXTENDS BlogSystem, TLC

CONSTANTS A, B

(* One post in directory A, none in B. *)
MCStored == (A :> << << <<A, 1>> >> >>) @@ (B :> <<>>)

(* The brand's link, the list of A, and a post that is there, one that is not *)
(* and the blank one.                                                         *)
MCTyped ==
  {NoHash, Listed(A), Path("preview", A, 0), Path("edit", A, 1), Path("edit", A, 2)}

MCSymmetry == Permutations(Conn)
=============================================================================
