----------------------------- MODULE MCSPConnect -----------------------------
(***************************************************************************)
(* Model of the structural-plasticity paths for TLC: two threads, three    *)
(* nodes, every node-to-thread layout.                                     *)
(***************************************************************************)
EXTENDS SPConnect

MCThreads == {0, 1}

MCNodeIds == {1, 2, 3}

\* Pair lists with a self pair, with a repeated target (a plain vector of
\* SPBuilder::sp_connect; a NodeCollection holds distinct ids) and with a
\* swapped pair; one all-to-all population with two self pairs; lists of
\* unequal length.
MCSPCollections == { << <<1, 2, 3>>, <<1, 3, 3>> >>,
                     << <<1, 2, 3>>, <<1, 3, 2>> >>,
                     << <<1, 2>>, <<2, 1>> >>,
                     << <<1, 2>>, <<1, 2>> >>,
                     << <<3>>, <<1, 2>> >> }

\* Both lists hold distinct node ids.
Distinct(coll) == \A k \in 1 .. 2 : IsInjective(coll[k])

\* A syn_spec naming both synaptic elements, one, or none.
Both == [pre |-> TRUE, post |-> TRUE]
PreOnly == [pre |-> TRUE, post |-> FALSE]
Neither == [pre |-> FALSE, post |-> FALSE]

AllConfs == [rule : {"one_to_one", "all_to_all", "sp_builder"},
             allow_autapses : BOOLEAN, make_symmetric : BOOLEAN,
             array_param : BOOLEAN, coll : MCSPCollections,
             refused : { {}, {3} }, specs : {<< Both >>}]

\* The element names the constructors refuse: one element only, two
\* syn_specs, and none at all for SPBuilder.
MCSpecConfs ==
  [rule : {"one_to_one", "all_to_all", "sp_builder"}, allow_autapses : {TRUE},
   make_symmetric : {FALSE}, array_param : {FALSE},
   coll : { << <<1, 2>>, <<2, 1>> >> }, refused : { {} },
   specs : { << PreOnly >>, << Both, Neither >> }]
  \cup
  [rule : {"sp_builder"}, allow_autapses : {TRUE},
   make_symmetric : {FALSE}, array_param : {FALSE},
   coll : { << <<1, 2>>, <<2, 1>> >> }, refused : { {} }, specs : { << Neither >> }]

\* Every input except an array parameter with all_to_all, whose skip
\* accounting the run sp_all_to_all_skip examines on its own.
MCConfs == {c \in AllConfs : /\ ~(c.rule = "all_to_all" /\ c.array_param)
                             /\ c.rule # "sp_builder" => Distinct(c.coll)}
           \cup MCSpecConfs

\* all_to_all with an array parameter over a population with a self pair.
MCAllToAllArrayConfs ==
  {c \in AllConfs : c.rule = "all_to_all" /\ c.array_param
                    /\ ~c.make_symmetric /\ c.refused = {}
                    /\ c.coll = << <<1, 2>>, <<1, 2>> >>}

\* one_to_one without autapses over a list with a self pair, the storage
\* accepting everything.
MCRoundTripConfs ==
  {c \in AllConfs : c.rule = "one_to_one" /\ ~c.allow_autapses
                    /\ ~c.make_symmetric /\ ~c.array_param /\ c.refused = {}
                    /\ c.coll = << <<1, 2, 3>>, <<1, 3, 2>> >>}

\* SPBuilder with the storage refusing edges onto node 3.
MCRefusedConfs ==
  {c \in AllConfs : c.rule = "sp_builder" /\ c.allow_autapses
                    /\ ~c.make_symmetric /\ ~c.array_param /\ c.refused = {3}
                    /\ c.coll = << <<1, 2, 3>>, <<1, 3, 3>> >>}
===============================================================================
