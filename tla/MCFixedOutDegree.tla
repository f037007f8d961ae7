--------------------------- MODULE MCFixedOutDegree ---------------------------
(***************************************************************************)
(* Model of FixedOutDegreeBuilder for TLC: two threads, three nodes, every *)
(* node-to-thread layout.                                                  *)
(***************************************************************************)
EXTENDS FixedOutDegree

MCThreads == {0, 1}

MCNodeIds == {1, 2, 3}

\* Overlapping populations, two sources sharing targets, disjoint ones.
MCCollections == { << <<1, 2>>, <<2, 3>> >>,
                   << <<2, 3>>, <<1, 2, 3>> >>,
                   << <<3>>, <<1, 2>> >> }

\* Constants 0 and 2 (2 = |targets| for two of the populations), a
\* negative constant, and a random outdegree of 1 or 2.
MCOutdegrees == { [random |-> FALSE, values |-> {0}],
                  [random |-> FALSE, values |-> {2}],
                  [random |-> FALSE, values |-> {-1}],
                  [random |-> TRUE, values |-> {1, 2}] }

AllConfs == [allow_autapses : BOOLEAN, allow_multapses : BOOLEAN,
             outdegree : MCOutdegrees, array_param : BOOLEAN,
             coll : MCCollections, refused : { {}, {2} }]

\* Targets a draw for source s may accept.
Acceptable(c, s) ==
  {k \in 1 .. Len(c.coll[2]) : c.allow_autapses \/ c.coll[2][k] # s}

\* Every redraw loop of c can end: each source has enough acceptable
\* targets for the largest outdegree (one suffices with multapses on).
Feasible(c) ==
  \A k \in 1 .. Len(c.coll[1]), v \in c.outdegree.values :
    v > 0 => Cardinality(Acceptable(c, c.coll[1][k]))
               >= (IF c.allow_multapses THEN 1 ELSE v)

\* Every input whose loops can end.
MCConfs == {c \in AllConfs : Feasible(c)}

\* The storage refuses node 2, the first target of the first source and a
\* target of the second.
MCRefusedConfs ==
  {c \in AllConfs : c.outdegree = [random |-> FALSE, values |-> {2}]
                    /\ c.allow_autapses /\ ~c.allow_multapses
                    /\ ~c.array_param /\ c.refused = {2}
                    /\ c.coll = << <<2, 3>>, <<1, 2, 3>> >>}
===============================================================================
