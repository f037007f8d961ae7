-------------------------- MODULE MCFixedTotalNumber --------------------------
(***************************************************************************)
(* Model of FixedTotalNumberBuilder for TLC: three VPs, three nodes, every *)
(* node-to-VP layout.                                                      *)
(***************************************************************************)
EXTENDS FixedTotalNumber

MCThreads == {0, 1, 2}

MCNodeIds == {1, 2, 3}

\* Overlapping and disjoint populations, and one source that is also a
\* target.
MCCollections == { << <<1, 2>>, <<1, 2, 3>> >>,
                   << <<3>>, <<1, 2>> >>,
                   << <<1>>, <<1, 2>> >> }

AllConfs == [N : -1 .. 3, allow_autapses : BOOLEAN, allow_multapses : BOOLEAN,
             coll : MCCollections, refused : { {}, {2} }]

\* Every target has a source other than itself, or autapses are allowed:
\* every thread's while loop can accept a pair under every layout.
Feasible(c) ==
  \A tg \in ToSet(c.coll[2]) :
    c.allow_autapses \/ \E s \in ToSet(c.coll[1]) : s # tg

MCConfs == {c \in AllConfs : Feasible(c)}

\* A 16-bit unsigned int (2^32 exceeds the integers of TLC): for N <= 3
\* sum_partitions no more wraps than the 32-bit one does below 2^32.
MCUIntBits == 16

\* A scaled unsigned int of 2 bits: sum_partitions wraps at N = 4, as the
\* 32-bit one does at N = 2^32.
MCSmallUIntBits == 2

MCWrapConfs == [N : {4}, allow_autapses : {TRUE}, allow_multapses : {TRUE},
                coll : { << <<1, 2>>, <<1, 2, 3>> >> }, refused : { {} }]

===============================================================================
