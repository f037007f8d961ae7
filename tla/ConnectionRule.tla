---------------------------- MODULE ConnectionRule ----------------------------
(***************************************************************************)
(* What ConnBuilder::connect() promises its caller, whatever rule, thread  *)
(* count or node-to-thread layout is used: the builder hands to the        *)
(* connection storage, one at a time and in any order, edges of the bag    *)
(* `planned' (a bag, because the make_symmetric replay may plan the same   *)
(* edge twice) and then either returns with exactly `planned' created, or  *)
(* raises an error, keeping every edge created so far (no rollback).  It   *)
(* may raise only when the inputs make failure possible (`mayFail').       *)
(*                                                                         *)
(* `planned' and `mayFail' are fixed by the detailed specification that    *)
(* instantiates this module; no action changes them.                       *)
(***************************************************************************)
EXTENDS Naturals, Bags, BagsExt

VARIABLES edges, status, planned, mayFail

vars == << edges, status, planned, mayFail >>

Init ==
  /\ edges = EmptyBag
  /\ status = "running"

\* One more copy of a planned edge is created.
Emit ==
  /\ status = "running"
  /\ \E e \in BagToSet(planned) :
       /\ CopiesIn(e, edges) < planned[e]
       /\ edges' = BagAdd(edges, e)
  /\ UNCHANGED << status, planned, mayFail >>

\* connect() returns normally: everything planned has been created.
Return ==
  /\ status = "running"
  /\ edges = planned
  /\ status' = "ok"
  /\ UNCHANGED << edges, planned, mayFail >>

\* connect() raises; edges already created stay.
Raise ==
  /\ status = "running"
  /\ mayFail
  /\ status' = "failed"
  /\ UNCHANGED << edges, planned, mayFail >>

Next == Emit \/ Return \/ Raise

Spec == Init /\ [][Next]_vars

===============================================================================
