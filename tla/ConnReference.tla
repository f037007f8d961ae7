---------------------------- MODULE ConnReference ----------------------------
(***************************************************************************)
(* The edges a deterministic rule creates when one thread owns every node: *)
(* the reference against which the multi-threaded builders are checked.   *)
(* An edge is [src, tgt, val]; val is the index into an array-indexed      *)
(* synapse parameter the edge receives (0 for a scalar parameter).  The    *)
(* array index of a pair is its place in the rule's iteration schedule.    *)
(***************************************************************************)
EXTENDS Integers, Sequences, FiniteSets, Bags

\* The bag of the images F(i), i \in D, each counted as often as it occurs.
BagOfImages(F(_), D) ==
  [r \in {F(i) : i \in D} |-> Cardinality({i \in D : F(i) = r})]

\* The rules reject a pair that is an autapse when autapses are disabled.
KeptPair(s, t, allowAutapses) == s # t \/ allowAutapses

\* One-to-one and pair lists: pair i, if kept, reads the array at the number
\* of kept pairs up to i (a rejected autapse reads and skips nothing).
PairListPlan(S, T, allowAutapses, array) ==
  LET kept == {k \in 1 .. Len(T) : KeptPair(S[k], T[k], allowAutapses)}
  IN BagOfImages(LAMBDA i : [src |-> S[i], tgt |-> T[i],
                            val |-> IF array THEN Cardinality({k \in kept : k <= i})
                                             ELSE 0],
                  kept)

\* All-to-all: pair (target i, source j) reads the array at (i-1)*|S| + j;
\* a rejected autapse still uses up its index.
AllToAllPlan(S, T, allowAutapses, array) ==
  LET kept == {p \in (1 .. Len(T)) \X (1 .. Len(S)) :
                 KeptPair(S[p[2]], T[p[1]], allowAutapses)}
  IN BagOfImages(LAMBDA p : [src |-> S[p[2]], tgt |-> T[p[1]],
                            val |-> IF array THEN (p[1] - 1) * Len(S) + p[2] ELSE 0],
                  kept)
===============================================================================
