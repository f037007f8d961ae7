--------------------------- MODULE FixedTotalNumber ---------------------------
(***************************************************************************)
(* FixedTotalNumberBuilder of src/nestkernel/conn_builder.cpp: the checks *)
(* of its constructor and connect_(), inside ConnBuilder::connect().       *)
(*                                                                         *)
(* connect_() first partitions N over the virtual processes on the calling *)
(* thread: for each VP k in turn it draws num_conns_on_vp[k] from a        *)
(* binomial distribution over the edges still to place, with probability   *)
(* the VP's share of the targets not yet accounted for, and stops once the *)
(* counts add up to N.  The running sum is an unsigned int.  Then every    *)
(* thread, in one parallel region, draws source / local-target pairs from  *)
(* its own generator until its count is used up; only an accepted pair     *)
(* (no autapse, or autapses allowed) lowers the count.                     *)
(*                                                                         *)
(* One MPI rank: every VP is local and is one thread of the model.  A      *)
(* binomial draw is any value of its support; a pair draw is an existential *)
(* choice, and a rejected pair changes no state (a stuttering step), so    *)
(* the loop of a thread ends exactly when it can accept some pair.         *)
(***************************************************************************)
EXTENDS Integers, Sequences, SequencesExt, BagsExt

CONSTANTS
  Threads,      \* 0 .. M-1: the virtual processes, one thread each
  NodeIds,      \* every node id the node manager knows
  Confs,        \* the caller's inputs, records of: N, allow_autapses,
                \* allow_multapses, coll: << sources, targets >> (sequences
                \* of distinct ids), refused: targets the storage refuses
  UIntBits,     \* width of unsigned int, the type of sum_partitions
  NoFailure     \* model value: an empty slot of exceptions_raised_

ASSUME Threads = 0 .. Cardinality(Threads) - 1
ASSUME \A c \in Confs : Len(c.coll[1]) > 0 /\ Len(c.coll[2]) > 0
ASSUME UIntBits \in Nat \ {0}

VARIABLES
  conf,     \* the inputs of this connect() call
  owner,    \* node id -> owning VP (node_id_to_vp)
  phase,    \* "init", "partition", "region", "done", "raised", "rejected"
  k,        \* the VP the partition loop is at
  sum,      \* sum_partitions
  num,      \* num_conns_on_vp: VP -> connections still to make
  part,     \* history: VP -> num_conns_on_vp as the partition drew it
  edges,    \* bag of [src, tgt] handed to the connection storage
  exc,      \* thread -> NoFailure or the pair whose connect threw
  raised    \* the failure connect() re-raises, or NoFailure

vars == << conf, owner, phase, k, sum, num, part, edges, exc, raised >>

M == Cardinality(Threads)

-----------------------------------------------------------------------------
Src == conf.coll[1]
Tgt == conf.coll[2]

\* The constructor: BadProperty when multapses are off and N exceeds
\* |sources| * |targets|, or N < 0; then NotImplemented when multapses are
\* off at all.
Rejected ==
  \/ ~conf.allow_multapses /\ conf.N > Len(Src) * Len(Tgt)
  \/ conf.N < 0
  \/ ~conf.allow_multapses

\* number_of_targets_on_vp[ v ]
TargetsOnVP(v) == Cardinality({i \in 1 .. Len(Tgt) : owner[Tgt[i]] = v})

\* sum_dist before VP v: the targets of the VPs before it.
SumDist(v) == MapThenSumSet(TargetsOnVP, 0 .. v - 1)

\* Mutant: p_local divides by all targets, not by those still unaccounted.
UnaccountedTargetsAll(v) == Len(Tgt)

\* size_targets - sum_dist
UnaccountedTargets(v) == Len(Tgt) - SumDist(v)

\* Support of bino_dist( grng, param( n, p_local ) ): every count from 0 to
\* n, and n itself when p_local = 1 (the VP holds every target left).
Binomial(n, v) ==
  IF TargetsOnVP(v) = UnaccountedTargets(v) THEN {n} ELSE 0 .. n

\* One pass of the partition loop: stop when the counts add up to N, else
\* draw the count of a VP with targets, and add it to sum_partitions,
\* which wraps at 2^UIntBits.
PartitionStep ==
  /\ phase = "partition"
  /\ \/ /\ k < M /\ conf.N # sum
        /\ \E x \in (IF TargetsOnVP(k) > 0 THEN Binomial(conf.N - sum, k)
                                           ELSE {0}) :
             /\ num' = [num EXCEPT ![k] = x]
             /\ part' = [part EXCEPT ![k] = x]
             /\ sum' = (sum + x) % (2 ^ UIntBits)
        /\ k' = k + 1
        /\ UNCHANGED phase
     \/ /\ k = M \/ conf.N = sum
        /\ phase' = "region"
        /\ UNCHANGED << k, sum, num, part >>
  /\ UNCHANGED << conf, owner, edges, exc, raised >>

-----------------------------------------------------------------------------
(* The parallel region.                                                     *)

\* Mutant: a thread keeps drawing after its catch block.
RunningAfterFailure(t) == phase = "region" /\ num[t] > 0

\* Mutant: the loop runs while num_conns_on_vp >= 0.
RunningWhileNonNegative(t) == phase = "region" /\ num[t] >= 0 /\ exc[t] = NoFailure

\* The while loop runs until the count is used up or a connect throws.
Running(t) == phase = "region" /\ num[t] > 0 /\ exc[t] = NoFailure

\* Mutant: thread_local_targets keeps every local target, not only the VP's.
ThreadLocalTargetsAll(t) == ToSet(Tgt)

\* thread_local_targets: the targets of VP t.
ThreadLocalTargets(t) == {tg \in ToSet(Tgt) : owner[tg] = t}

\* One pass of the while loop: draw a source and a local target; an autapse
\* with autapses off is drawn again, anything else goes to single_connect_()
\* and lowers the count; a refused edge throws out of the loop.
ThreadStep(t) ==
  /\ Running(t)
  /\ \E s \in ToSet(Src), tg \in ThreadLocalTargets(t) :
       /\ conf.allow_autapses \/ s # tg
       /\ \/ /\ tg \notin conf.refused
             /\ edges' = BagAdd(edges, [src |-> s, tgt |-> tg])
             /\ num' = [num EXCEPT ![t] = @ - 1]
             /\ UNCHANGED exc
          \/ /\ tg \in conf.refused
             /\ exc' = [exc EXCEPT ![t] = [src |-> s, tgt |-> tg]]
             /\ UNCHANGED << edges, num >>
  /\ UNCHANGED << conf, owner, phase, k, sum, part, raised >>

-----------------------------------------------------------------------------
(* ConnBuilder::connect() around connect_().                                *)

Validate ==
  /\ phase = "init"
  /\ phase' = IF Rejected THEN "rejected" ELSE "partition"
  /\ UNCHANGED << conf, owner, k, sum, num, part, edges, exc, raised >>

Failed == {t \in Threads : exc[t] # NoFailure}

\* After the region: throw the slot of the first thread that holds one.
Finish ==
  /\ phase = "region" /\ \A t \in Threads : ~Running(t)
  /\ IF Failed = {}
       THEN phase' = "done" /\ raised' = NoFailure
       ELSE phase' = "raised" /\ raised' = exc[Min(Failed)]
  /\ UNCHANGED << conf, owner, k, sum, num, part, edges, exc >>

Init ==
  /\ conf \in Confs
  /\ owner \in [NodeIds -> Threads]
  /\ phase = "init"
  /\ k = 0
  /\ sum = 0
  /\ num = [t \in Threads |-> 0]
  /\ part = [t \in Threads |-> 0]
  /\ edges = EmptyBag
  /\ exc = [t \in Threads |-> NoFailure]
  /\ raised = NoFailure

Next ==
  \/ Validate
  \/ PartitionStep
  \/ \E t \in Threads : ThreadStep(t)
  \/ Finish

\* The partition loop runs to its end, OpenMP runs every thread to the end
\* of its loop, ulrand() eventually draws every pair, and the code after
\* the region runs.
Spec == Init /\ [][Next]_vars /\ WF_vars(Validate) /\ WF_vars(PartitionStep)
          /\ WF_vars(Finish) /\ \A t \in Threads : WF_vars(ThreadStep(t))

-----------------------------------------------------------------------------
(* Properties.                                                              *)

MaxN == Max({c.N : c \in Confs})

TypeOK ==
  /\ conf \in Confs
  /\ owner \in [NodeIds -> Threads]
  /\ phase \in {"init", "partition", "region", "done", "raised", "rejected"}
  /\ k \in 0 .. M
  /\ sum \in 0 .. 2 ^ UIntBits - 1
  /\ num \in [Threads -> 0 .. MaxN]
  /\ part \in [Threads -> 0 .. MaxN]
  /\ IsABag(edges)
  /\ exc \in [Threads -> {NoFailure} \cup [src : NodeIds, tgt : NodeIds]]
  /\ raised \in {NoFailure} \cup [src : NodeIds, tgt : NodeIds]

\* Spec section 8: the per-VP counts of the partition add up to N, whatever
\* the layout of the targets over the VPs and whatever the binomial draws.
PartitionSumsToN ==
  phase \in {"region", "done", "raised"} =>
    MapThenSumSet(LAMBDA v : part[v], Threads) = conf.N

\* Number of edges in the storage whose target the VP v owns.
EdgesOnVP(v) ==
  BagCardinality([e \in {x \in DOMAIN edges : owner[x.tgt] = v} |-> edges[e]])

\* Spec sections 4.2.5 and 8: when connect() returns, each VP has made
\* exactly its share of the partition, all onto its own targets, so the
\* storage holds N edges in total.
EdgesFollowPartition ==
  phase = "done" => \A v \in Threads : EdgesOnVP(v) = part[v]

\* connect() always returns or raises: the partition loop and every
\* thread's while loop end.
Termination ==
  \A p \in {"init", "partition", "region"} :
    (phase = p) ~> (phase \in {"done", "raised", "rejected"})

====
