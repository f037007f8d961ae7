---------------------------- MODULE MCConnBuilder ----------------------------
(***************************************************************************)
(* Model of ConnBuilder for TLC: two virtual processes, three nodes.       *)
(***************************************************************************)
EXTENDS ConnBuilder

\* Two threads (or one thread on each of two ranks).
MCThreads == {0, 1}

MCNodeIds == {1, 2, 3}

\* Overlapping collections whose swap matters, the whole network as one
\* contiguous collection (the only case in which the local-node loop is
\* used), and collections of different size (one_to_one must reject them).
MCCollections == { << <<1, 2>>, <<2, 1>> >>,
                   << <<1, 2, 3>>, <<1, 2, 3>> >>,
                   << <<3>>, <<1, 2>> >> }

\* The storage accepts everything, or refuses edges onto node 2.
MCRefusals == { {}, {2} }

\* Only the layouts and passes in which a refused edge meets the symmetric
\* replay: the failure is recorded before the second region starts.
MCReplayAfterFailure == { << <<1, 2>>, <<2, 1>> >> }
===============================================================================
