--------------------------- MODULE MCFixedInDegree ---------------------------
(***************************************************************************)
(* Model of FixedInDegreeBuilder for TLC: two threads, three nodes, every  *)
(* node-to-thread layout.                                                  *)
(***************************************************************************)
EXTENDS FixedInDegree

MCThreads == {0, 1}

MCNodeIds == {1, 2, 3}

\* The whole network as one range (the only case of the local-node loop),
\* overlapping and disjoint populations.
MCCollections == { << <<1, 2, 3>>, <<1, 2, 3>> >>,
                   << <<1, 2>>, <<2, 3>> >>,
                   << <<1, 2>>, <<3>> >> }

\* Constants 0 and 2 (2 = |sources| for two of the populations), a
\* negative constant, and a random indegree of 1 or 2.
MCIndegrees == { [random |-> FALSE, values |-> {0}],
                 [random |-> FALSE, values |-> {2}],
                 [random |-> FALSE, values |-> {-1}],
                 [random |-> TRUE, values |-> {1, 2}] }

AllConfs == [allow_autapses : BOOLEAN, allow_multapses : BOOLEAN,
             indegree : MCIndegrees, array_param : BOOLEAN,
             coll : MCCollections, refused : { {}, {2} }]

\* Sources a draw for target tg may accept.
Acceptable(c, tg) ==
  {k \in 1 .. Len(c.coll[1]) : c.allow_autapses \/ c.coll[1][k] # tg}

\* Every redraw loop of c can end: each target has enough acceptable
\* sources for the largest indegree (one suffices with multapses on).
Feasible(c) ==
  \A k \in 1 .. Len(c.coll[2]), v \in c.indegree.values :
    v > 0 => Cardinality(Acceptable(c, c.coll[2][k]))
               >= (IF c.allow_multapses THEN 1 ELSE v)

\* Every input whose loops can end, except an array parameter with a random
\* indegree (whether a caller can pass it is decided outside this code).
MCConfs == {c \in AllConfs : Feasible(c)
                             /\ ~(c.indegree.random /\ c.array_param)}

===============================================================================
