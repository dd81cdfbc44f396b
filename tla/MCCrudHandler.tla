---------------------------- MODULE MCCrudHandler ----------------------------
(* Instances of CrudHandler for TLC: the races between threads are about    *)
(* which ids exist, so one body (the front end's empty one) is enough here.   *)
EXTENDS CrudHandler, TLC

CONSTANTS a, b

MCCell == {a, b}
MCBody == {<<>>}
MCSymmetry == Permutations(Worker)
=============================================================================
