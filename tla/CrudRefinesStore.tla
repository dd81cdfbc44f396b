--------------------------- MODULE CrudRefinesStore ---------------------------
(* The refinement mapping from the system calls of CrudHandler to the atomic  *)
(* store of PostStore.  A request takes effect when its path is settled: a    *)
(* write still to come is counted as done.                                    *)
EXTENDS CrudHandler

InFlight(w) == pc[w] \in Writing

LandsOn(w, d) == InFlight(w) /\ req[w].dir = d /\ id[w] # 0

PostBar ==
  [d \in Dir |->
    [i \in DOMAIN post[d] \cup {id[w] : w \in {v \in Worker : LandsOn(v, d)}} |->
      IF \E w \in Worker : LandsOn(w, d) /\ id[w] = i
        THEN req[CHOOSE w \in Worker : LandsOn(w, d) /\ id[w] = i].body
        ELSE post[d][i]]]

PhaseBar ==
  [w \in Worker |-> CASE pc[w] = "idle" -> "idle"
                      [] pc[w] = "reply" \/ InFlight(w) -> "done"
                      [] OTHER -> "pending"]

OutBar == [w \in Worker |-> IF InFlight(w) THEN Promise(w) ELSE out[w]]

Atomic == INSTANCE PostStore WITH post <- PostBar, phase <- PhaseBar, out <- OutBar

(* One thread serving requests one after the other is an atomic store: lowest *)
(* free id, whole-body replacement, failed requests without effect.           *)
ImplementsPostStore == Atomic!Spec
=============================================================================
