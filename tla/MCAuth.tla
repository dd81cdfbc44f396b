-------------------------------- MODULE MCAuth --------------------------------
(* Instances of Auth for TLC. *)
EXTENDS Auth, TLC

CONSTANTS s1, s2, a1, a2, c1, c2

MCPeer == (s1 :> a1) @@ (s2 :> a2)

(* Sessions are interchangeable together with their addresses. *)
MCSymmetry ==
  {p \in Permutations({s1, s2, a1, a2}) :
     \A s \in {s1, s2} : p[s] \in {s1, s2} /\ p[MCPeer[s]] = MCPeer[p[s]]}

MCPassword == {<<c1>>, <<c2, c2>>}
=============================================================================
