----------------------------- MODULE MCBernoulli -----------------------------
(***************************************************************************)
(* Model of the three Bernoulli rules for TLC: two threads, three nodes,   *)
(* every node-to-thread layout.                                            *)
(***************************************************************************)
EXTENDS Bernoulli

MCThreads == {0, 1}

MCNodeIds == {1, 2, 3}

\* All nodes (the loop over local nodes), and overlapping populations (the
\* loop over targets).
MCCollections == { << <<1, 2, 3>>, <<1, 2, 3>> >>, << <<1, 2>>, <<2, 3>> >> }

\* p in halves: 0, strictly between, 1, and out of range; a Parameter p
\* of values between 0 and 1.
MCPairwise ==
  [rule : {"pairwise_bernoulli"}, allow_autapses : BOOLEAN,
   allow_multapses : {TRUE}, make_symmetric : {FALSE},
   p : [random : {FALSE}, values : {{0}, {1}, {2}, {3}}]
       \cup [random : {TRUE}, values : {{1, 2}}],
   p_third : {0}, pool_size : {1}, pool_type : {"random"}, third : {<< >>},
   coll : MCCollections, refused : { {}, {3} }, refused_third_out : { {} }, weight : {"constant"}]

\* The flags the constructor requires, and each of them broken once; a
\* distribution weight, which the reset of make_symmetric refuses.
MCSymmetric ==
  [rule : {"symmetric_pairwise_bernoulli"},
   allow_autapses : {FALSE}, allow_multapses : {TRUE}, make_symmetric : {TRUE},
   p : [random : {FALSE}, values : {{0}, {1}, {2}}],
   p_third : {0}, pool_size : {1}, pool_type : {"random"}, third : {<< >>},
   coll : MCCollections, refused : { {}, {2} }, refused_third_out : { {} }, weight : {"constant"}]
  \cup
  [rule : {"symmetric_pairwise_bernoulli"},
   allow_autapses : {TRUE}, allow_multapses : {TRUE}, make_symmetric : {TRUE},
   p : [random : {FALSE}, values : {{1}}],
   p_third : {0}, pool_size : {1}, pool_type : {"random"}, third : {<< >>},
   coll : MCCollections, refused : { {} }, refused_third_out : { {} }, weight : {"constant"}]
  \cup
  [rule : {"symmetric_pairwise_bernoulli"},
   allow_autapses : {FALSE}, allow_multapses : {TRUE}, make_symmetric : {TRUE},
   p : [random : {FALSE}, values : {{1}}],
   p_third : {0}, pool_size : {1}, pool_type : {"random"}, third : {<< >>},
   coll : MCCollections, refused : { {} }, refused_third_out : { {} }, weight : {"random"}]

\* A tripartite input: p_primary and p_third_if_primary in halves.
Tri(pp, pt, size, type, sources, targets, third, autapses, refused, refusedOut) ==
  [rule |-> "tripartite_bernoulli_with_pool", allow_autapses |-> autapses,
   allow_multapses |-> TRUE, make_symmetric |-> FALSE,
   p |-> [random |-> FALSE, values |-> {pp}], p_third |-> pt,
   pool_size |-> size, pool_type |-> type, third |-> third,
   coll |-> << sources, targets >>, refused |-> refused,
   refused_third_out |-> refusedOut, weight |-> "constant"]

\* Block pools of one node shared by two targets, of one node per target
\* and of two nodes for one target, random pools of one and two nodes,
\* certain and uncertain primary edges and trials, a refused node that is
\* target and third node, a target that refuses only the third_out model;
\* then a bad pool type, a pool larger than the population, block sizes
\* that do not fit, and out-of-range probabilities.
MCTripartite ==
  { Tri(1, 1, 1, "block", <<1, 2>>, <<1, 2>>, <<3>>, FALSE, {}, {}),
    Tri(2, 2, 1, "block", <<1>>, <<1, 2>>, <<2, 3>>, TRUE, {}, {}),
    Tri(2, 2, 1, "random", <<1>>, <<2>>, <<3>>, FALSE, {}, {2}),
    Tri(2, 1, 2, "block", <<1, 2>>, <<1>>, <<2, 3>>, FALSE, {}, {}),
    Tri(1, 2, 1, "random", <<1, 2>>, <<1, 3>>, <<2, 3>>, TRUE, {3}, {}),
    Tri(1, 1, 2, "random", <<1>>, <<2>>, <<2, 3>>, FALSE, {}, {}),
    Tri(0, 1, 1, "random", <<1, 2>>, <<3>>, <<3>>, FALSE, {}, {}),
    Tri(1, 1, 1, "other", <<1>>, <<2>>, <<3>>, FALSE, {}, {}),
    Tri(1, 1, 2, "random", <<1>>, <<2>>, <<3>>, FALSE, {}, {}),
    Tri(1, 1, 1, "block", <<1>>, <<1>>, <<2, 3>>, FALSE, {}, {}),
    Tri(3, 1, 1, "random", <<1>>, <<2>>, <<3>>, FALSE, {}, {}),
    Tri(1, 3, 1, "random", <<1>>, <<2>>, <<3>>, FALSE, {}, {}) }

MCConfs == MCPairwise \cup MCSymmetric \cup MCTripartite

\* Room for two redrawn values on the tape: each loop of the symmetric rule
\* redraws, and a thread reads a redraw another thread fixed.
MCMaxTape == 2

==============================================================================
