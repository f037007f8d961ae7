------------------------------ MODULE Bernoulli ------------------------------
(***************************************************************************)
(* BernoulliBuilder, SymmetricBernoulliBuilder and                        *)
(* TripartiteBernoulliWithPoolBuilder of                                  *)
(* src/nestkernel/conn_builder.cpp: their constructors and connect_(),     *)
(* inside ConnBuilder::connect().                                          *)
(*                                                                         *)
(* pairwise_bernoulli: every thread walks the targets (or its local nodes) *)
(* and, for a target it owns, draws for each source from its own generator *)
(* whether to connect.  A probability p is counted in halves: 0 is p = 0,  *)
(* 2 is p = 1 and 1 is any p strictly between, for which both outcomes of  *)
(* drand() < p are possible.                                               *)
(*                                                                         *)
(* symmetric_pairwise_bernoulli: every thread draws the same structure    *)
(* from get_vp_synced_rng(), a generator whose sequence is the same on     *)
(* all threads.  It is a shared tape that each thread reads with its own   *)
(* cursor `pos': the first thread to reach a position fixes its value, the *)
(* others read it.  The generator is also handed to single_connect_(), but *)
(* make_symmetric makes the constructor reset every parameter, which only  *)
(* deterministic (scalar or array) parameters allow, so no connect draws   *)
(* from it.  A redrawn value (an indegree of |sources|, an autapse or a    *)
(* source already chosen) is a tape position of its own; there are at most *)
(* MaxTape positions with such values, after which a fresh draw is one the *)
(* loop accepts.                                                           *)
(***************************************************************************)
EXTENDS Integers, Sequences, SequencesExt, BagsExt

CONSTANTS
  Threads,      \* thread ids, one virtual process each
  NodeIds,      \* every node id the node manager knows
  Confs,        \* the caller's inputs, records of: rule; allow_autapses,
                \* allow_multapses, make_symmetric; p: [random : BOOLEAN,
                \* values : set of halves]; coll: << sources, targets >>,
                \* sequences of distinct ids; refused: targets the
                \* connection storage refuses; refused_third_out: targets
                \* that refuse only the third_out synapse model; weight:
                \* "constant" or "random" (a distribution)
  MaxTape,      \* bound on the tape positions that may hold a redraw
  NoFailure     \* model value: an empty slot of exceptions_raised_

ASSUME Threads \subseteq Nat /\ Threads # {} /\ MaxTape \in Nat
ASSUME \A c \in Confs : Len(c.coll[1]) > 0 /\ Len(c.coll[2]) > 0

VARIABLES
  conf,     \* the inputs of this connect() call
  owner,    \* node id -> owning thread
  phase,    \* "init", "region", "done", "raised", "rejected"
  pc,       \* thread -> [i: target position, j: source position
            \*   (pairwise, 0 before inner_connect_) or sources chosen
            \*   (symmetric), deg: indegree (-1 before the draw),
            \*   prev: previous_snode_ids]
  tape,     \* the values of the synced generator fixed so far
  pos,      \* thread -> its next position on the tape
  edges,    \* bag of [src, tgt] handed to the connection storage
  exc,      \* thread -> NoFailure or the pair whose connect threw
  raised    \* the failure connect() re-raises, or NoFailure

vars == << conf, owner, phase, pc, tape, pos, edges, exc, raised >>

-----------------------------------------------------------------------------
Src == conf.coll[1]
Tgt == conf.coll[2]
Third == conf.third

Pairwise == conf.rule = "pairwise_bernoulli"
Symmetric == conf.rule = "symmetric_pairwise_bernoulli"
Tripartite == conf.rule = "tripartite_bernoulli_with_pool"

IsRange(c) == \A k \in 1 .. Len(c) - 1 : c[k + 1] = c[k] + 1

\* ConnBuilder::loop_over_targets_() (no array parameter here)
LoopOverTargets == Len(Tgt) < Cardinality(NodeIds) \/ ~IsRange(Tgt)

\* kernel().node_manager.get_local_nodes( tid ), in node id order
LocalNodes(t) == SetToSortSeq({n \in NodeIds : owner[n] = t}, <)

LoopLen(t) == IF Pairwise /\ ~LoopOverTargets THEN Len(LocalNodes(t)) ELSE Len(Tgt)

\* The target the loop of thread t is at.
Target(t) ==
  IF Pairwise /\ ~LoopOverTargets THEN LocalNodes(t)[pc[t].i] ELSE Tgt[pc[t].i]

\* The scalar p of the constructor, in halves.
PValue == CHOOSE v \in conf.p.values : TRUE

\* BernoulliBuilder's constructor: a scalar p must lie in [0, 1]; a
\* Parameter p is not checked.
PairwiseRejected == ~conf.p.random /\ (PValue < 0 \/ 2 < PValue)

\* SymmetricBernoulliBuilder's constructor: 0 <= p < 1, multapses on,
\* autapses off, make_symmetric on (which connect() allows, as the rule
\* supports it).
SymmetricRejected ==
  \/ PValue < 0 \/ 2 <= PValue
  \/ ~conf.allow_multapses
  \/ conf.allow_autapses
  \/ ~conf.make_symmetric

\* TripartiteBernoulliWithPoolBuilder's constructor: pool_type random or
\* block, both probabilities in [0, 1], 1 <= pool_size <= |third|, and
\* block pools that fit the sizes.
TripartiteRejected ==
  \/ conf.pool_type \notin {"random", "block"}
  \/ PValue < 0 \/ 2 < PValue
  \/ conf.p_third < 0 \/ 2 < conf.p_third
  \/ conf.pool_size < 1 \/ Len(Third) < conf.pool_size
  \/ /\ conf.pool_type = "block"
     /\ ~ \/ Len(Tgt) * conf.pool_size = Len(Third)
          \/ conf.pool_size = 1 /\ Len(Tgt) % Len(Third) = 0

\* Mutant: the base constructor leaves the parameters alone.
ResetNothing == FALSE

\* ConnBuilder's constructor with make_symmetric resets every parameter
\* to check that it supports symmetric connections; a distribution cannot
\* be reset to a deterministic state (spec section 3, invariant 5).
ResetRefused == conf.make_symmetric /\ conf.weight = "random"

Rejected ==
  \/ ResetRefused
  \/ CASE Pairwise -> PairwiseRejected
       [] Symmetric -> SymmetricRejected
       [] Tripartite -> TripartiteRejected

-----------------------------------------------------------------------------
Running(t) == phase = "region" /\ pc[t].i <= LoopLen(t)

Fresh == [j |-> 0, deg |-> -1, prev |-> {}, stage |-> "indegree", pool |-> << >>, srcs |-> << >>]

NextTarget(t) ==
  pc' = [pc EXCEPT ![t] = [i |-> pc[t].i + 1, prev |-> pc[t].prev] @@ Fresh]

LeaveLoop(t) == pc' = [pc EXCEPT ![t] = [i |-> LoopLen(t) + 1] @@ Fresh]

\* Mutant: the thread of a node looked up wrongly, every node looks local.
OwnsAll(t, n) == TRUE

\* get_node_or_proxy( n, tid ) is no proxy, and target->get_thread() = tid.
Owns(t, n) == owner[n] = t

\* An edge handed to the storage, with the synapse spec it is made with:
\* primary, third_in (source -> third) or third_out (third -> target).
Edge(s, tg, k) == [src |-> s, tgt |-> tg, kind |-> k]

\* The bag of the pairs of a sequence (distinct here).
PairsToBag(s) == [e \in ToSet(s) |-> 1]

\* A connect of the sequence E throws: the storage refuses one of its edges.
\* The storage refuses the edge e: its target refuses every synapse model,
\* or the third_out builder's model only (a receptor the primary lacks).
Refuses(e) ==
  e.tgt \in conf.refused \/ (e.kind = "third_out" /\ e.tgt \in conf.refused_third_out)

Throws(E) == \E k \in 1 .. Len(E) : Refuses(E[k])

\* single_connect_() for each edge of the sequence E in turn, until the
\* first refused one throws; the caller's catch block ends its loop.
SingleConnects(t, E) ==
  LET bad == {k \in 1 .. Len(E) : Refuses(E[k])}
      n == IF bad = {} THEN Len(E) ELSE Min(bad) - 1
  IN /\ edges' = edges (+) PairsToBag(SubSeq(E, 1, n))
     /\ exc' = IF bad = {} THEN exc ELSE [exc EXCEPT ![t] = E[n + 1]]

-----------------------------------------------------------------------------
(* BernoulliBuilder::connect_() and inner_connect_().                       *)

\* Mutant: a source is skipped when drand() > p, not when drand() >= p.
ConnectsSkipAbove(v) == IF v = 2 THEN {TRUE} ELSE {FALSE, TRUE}

\* The outcomes of drand() < p for p of v halves; drand() is in [0, 1).
Connects(v) == CASE v = 0 -> {FALSE} [] v = 2 -> {TRUE} [] OTHER -> {FALSE, TRUE}

\* One pass of the target loop: a proxy target is skipped (as is a target
\* of another thread by inner_connect_'s early return); a local target
\* starts the source loop.  In the loop over local nodes every node is a
\* target, since that loop is only taken when the targets are all nodes,
\* so the get_lid() < 0 test never skips one.
BernoulliTarget(t) ==
  /\ Pairwise /\ Running(t) /\ pc[t].j = 0
  /\ Contains(Tgt, Target(t))
  /\ IF Owns(t, Target(t))
       THEN pc' = [pc EXCEPT ![t].j = 1]
       ELSE NextTarget(t)
  /\ UNCHANGED << edges, exc >>

\* The next pass of inner_connect_'s source loop, or the next target.
NextSource(t) ==
  IF pc[t].j < Len(Src)
    THEN pc' = [pc EXCEPT ![t] = [pc[t] EXCEPT !.j = @ + 1]]
    ELSE NextTarget(t)

\* One pass of inner_connect_'s source loop: skip an autapse when autapses
\* are off, else draw p->value() and drand(), and connect if drand() < p.
BernoulliSource(t) ==
  LET s == Src[pc[t].j]
      tg == Target(t)
  IN /\ Pairwise /\ Running(t) /\ pc[t].j > 0
     /\ \/ /\ ~conf.allow_autapses /\ s = tg
           /\ NextSource(t) /\ UNCHANGED << edges, exc >>
        \/ /\ conf.allow_autapses \/ s # tg
           /\ \E v \in conf.p.values, c \in BOOLEAN :
                /\ c \in Connects(v)
                /\ \/ /\ c
                      /\ SingleConnects(t, << Edge(s, tg, "primary") >>)
                      /\ IF Throws(<< Edge(s, tg, "primary") >>)
                           THEN LeaveLoop(t) ELSE NextSource(t)
                   \/ /\ ~c
                      /\ NextSource(t) /\ UNCHANGED << edges, exc >>

-----------------------------------------------------------------------------
(* SymmetricBernoulliBuilder::connect_().                                   *)

\* Mutant: each thread draws from its own generator, not the synced one.
DrawVPSpecific(p, F) == F

\* The values a draw at tape position p may have: the value fixed there
\* by the first thread to draw it, or one of F when p is fresh.
Draw(p, F) == IF p <= Len(tape) THEN {tape[p]} ELSE F

\* The tape after a draw of v at position p.
Drawn(p, v) == IF p <= Len(tape) THEN tape ELSE Append(tape, v)

\* A draw of one number: the tape holds it as a sequence of one, so that
\* every entry is a sequence of numbers like the sampled ones.
DrawOne(p, F) == {w[1] : w \in Draw(p, {<< v >> : v \in F})}

DrawnOne(p, v) == Drawn(p, << v >>)

\* A fresh draw may be one the loop redraws while fewer than MaxTape
\* positions are fixed.
MayRedraw == Len(tape) < MaxTape

\* Mutant: previous_snode_ids is not cleared for a new target.
ClearedKept(t) == pc[t].prev

\* previous_snode_ids.clear() once the indegree of a target is drawn.
Cleared(t) == {}

\* bino_dist( synced_rng, param( |sources|, p ) ): only 0 when p = 0.
IndegreeDraws == IF PValue = 0 THEN {0} ELSE 0 .. Len(Src) - 1 + (IF MayRedraw THEN 1 ELSE 0)

\* The tape after n draws of any value, the first at position p: a
\* distribution takes whatever the generator yields.
DrawnAny(tp, p, n) == tp \o [i \in 1 .. p + n - 1 - Len(tp) |-> << 1 >>]

\* The values a distribution weight draws from the generator handed to
\* single_connect_: one per call, the call that throws included.
WeightDraws(E) ==
  LET bad == {k \in 1 .. Len(E) : Refuses(E[k])}
  IN IF conf.weight = "constant" THEN 0
     ELSE IF bad = {} THEN Len(E) ELSE Min(bad)

\* Mutant: the loop redraws only indegrees above |sources|.
TruncatedAbove(v) == v > Len(Src)

\* The condition of the truncated binomial loop: indegree >= |sources|.
Truncated(v) == v >= Len(Src)

\* One pass of the truncated binomial loop of a target: a draw of
\* |sources| is drawn again; an indegree of 0 ends the target.
SymmetricIndegree(t) ==
  /\ Symmetric /\ Running(t) /\ pc[t].deg = -1
  /\ \E v \in DrawOne(pos[t], IndegreeDraws) :
       /\ tape' = DrawnOne(pos[t], v)
       /\ pos' = [pos EXCEPT ![t] = @ + 1]
       /\ IF Truncated(v)
            THEN UNCHANGED pc
            ELSE pc' = [pc EXCEPT ![t].j = 0, ![t].deg = v, ![t].prev = Cleared(t)]
  /\ UNCHANGED << edges, exc >>

\* The source positions ulrand( |sources| ) may fix fresh.
SourceDraws(t) ==
  {k \in 1 .. Len(Src) : MayRedraw \/ Src[k] \notin {Target(t)} \cup pc[t].prev}

\* A source index from the synced generator; a tape position another
\* thread filled with a draw of another kind (the copies out of step)
\* reads as any index.
SourceDrawn(t) ==
  LET D == DrawOne(pos[t], SourceDraws(t))
  IN IF D \subseteq 1 .. Len(Src) THEN D ELSE SourceDraws(t)

\* The source loop of a target ends once indegree sources are chosen.
SymmetricTargetDone(t) ==
  /\ Symmetric /\ Running(t) /\ pc[t].deg >= 0 /\ pc[t].j = pc[t].deg
  /\ NextTarget(t)
  /\ UNCHANGED << tape, pos, edges, exc >>

\* One pass of the source loop: an autapse or a source already chosen is
\* drawn again; otherwise connect source -> target if this thread owns
\* the target, then target -> source if it owns the source, each through
\* single_connect_ handed the synced generator.
SymmetricSource(t) ==
  LET tg == Target(t)
  IN /\ Symmetric /\ Running(t) /\ pc[t].j < pc[t].deg
     /\ \E k \in SourceDrawn(t) :
          LET s == Src[k]
              E == (IF Owns(t, tg) THEN << Edge(s, tg, "primary") >> ELSE << >>)
                   \o (IF Owns(t, s) THEN << Edge(tg, s, "primary") >> ELSE << >>)
              n == IF s \in {tg} \cup pc[t].prev THEN 0 ELSE WeightDraws(E)
          IN /\ tape' = DrawnAny(DrawnOne(pos[t], k), pos[t] + 1, n)
             /\ pos' = [pos EXCEPT ![t] = @ + 1 + n]
             /\ IF s \in {tg} \cup pc[t].prev
                  THEN UNCHANGED << pc, edges, exc >>
                  ELSE /\ SingleConnects(t, E)
                       /\ IF Throws(E) THEN LeaveLoop(t)
                          ELSE pc' = [pc EXCEPT ![t] = [pc[t] EXCEPT
                                        !.j = @ + 1, !.prev = @ \cup {s}]]

-----------------------------------------------------------------------------
(* TripartiteBernoulliWithPoolBuilder::connect_().  Structure draws come    *)
(* from the synced generator, parameters from the thread's own; the pool,   *)
(* the sampled sources and the third-factor trial are one tape entry each. *)

\* targets_per_third_
TargetsPerThird == Len(Tgt) \div Len(Third)

\* Mutant: the block index of pool_size 1 taken as for larger pools.
FirstPoolIndexAtLeastOne(ti) ==
  IF conf.pool_size >= 1 THEN ti * conf.pool_size ELSE ti \div TargetsPerThird

\* get_first_pool_index_( target_index )
FirstPoolIndex(ti) ==
  IF conf.pool_size > 1 THEN ti * conf.pool_size ELSE ti \div TargetsPerThird

\* synced_rng->sample( c, n ): n elements of c, in the order of c.
Sample(c, n) == {x \in AllSubSeqs(c) : Len(x) = n}

\* bino_dist( synced_rng, param( |sources|, p_primary ) )
PrimaryIndegrees ==
  CASE PValue = 0 -> {0} [] PValue = 2 -> {Len(Src)} [] OTHER -> 0 .. Len(Src)

SetStage(t, st) == pc' = [pc EXCEPT ![t] = [pc[t] EXCEPT !.stage = st]]

\* Step 1: the indegree of the target; a target of indegree 0 is skipped.
TripartiteIndegree(t) ==
  /\ Tripartite /\ Running(t) /\ pc[t].stage = "indegree"
  /\ \E v \in DrawOne(pos[t], PrimaryIndegrees) :
       /\ tape' = DrawnOne(pos[t], v)
       /\ pos' = [pos EXCEPT ![t] = @ + 1]
       /\ IF v = 0 THEN NextTarget(t)
          ELSE pc' = [pc EXCEPT ![t] = [pc[t] EXCEPT !.deg = v, !.stage = "pool"]]
  /\ UNCHANGED << edges, exc >>

\* Mutant: the block copied from the start of the third-factor population.
TripartitePoolFromBegin(t) ==
  /\ Tripartite /\ Running(t) /\ pc[t].stage = "pool"
  /\ \/ /\ conf.pool_type = "random"
        /\ \E pl \in Draw(pos[t], Sample(Third, conf.pool_size)) :
             /\ tape' = Drawn(pos[t], pl)
             /\ pos' = [pos EXCEPT ![t] = @ + 1]
             /\ pc' = [pc EXCEPT ![t] = [pc[t] EXCEPT !.pool = pl, !.stage = "sources"]]
     \/ /\ conf.pool_type = "block"
        /\ pc' = [pc EXCEPT ![t] = [pc[t] EXCEPT
                    !.pool = SubSeq(Third, 1, conf.pool_size), !.stage = "sources"]]
        /\ UNCHANGED << tape, pos >>
  /\ UNCHANGED << edges, exc >>

\* Step 2: a random pool sampled from the third-factor population, or the
\* block of pool_size nodes from get_first_pool_index_( target.lid ).
TripartitePool(t) ==
  /\ Tripartite /\ Running(t) /\ pc[t].stage = "pool"
  /\ \/ /\ conf.pool_type = "random"
        /\ \E pl \in Draw(pos[t], Sample(Third, conf.pool_size)) :
             /\ tape' = Drawn(pos[t], pl)
             /\ pos' = [pos EXCEPT ![t] = @ + 1]
             /\ pc' = [pc EXCEPT ![t] = [pc[t] EXCEPT !.pool = pl, !.stage = "sources"]]
     \/ /\ conf.pool_type = "block"
        /\ LET first == FirstPoolIndex(pc[t].i - 1)
           IN pc' = [pc EXCEPT ![t] = [pc[t] EXCEPT
                       !.pool = SubSeq(Third, first + 1, first + conf.pool_size),
                       !.stage = "sources"]]
        /\ UNCHANGED << tape, pos >>
  /\ UNCHANGED << edges, exc >>

\* The sources of the target: synced_rng->sample( sources, indegree ).
SampledSources(n) == Sample(Src, n)

\* Step 3 begins: sample indegree sources.
TripartiteSources(t) ==
  /\ Tripartite /\ Running(t) /\ pc[t].stage = "sources"
  /\ \E ss \in Draw(pos[t], SampledSources(pc[t].deg)) :
       /\ tape' = Drawn(pos[t], ss)
       /\ pos' = [pos EXCEPT ![t] = @ + 1]
       /\ pc' = [pc EXCEPT ![t] = [pc[t] EXCEPT !.srcs = ss, !.j = 1, !.stage = "primary"]]
  /\ UNCHANGED << edges, exc >>

\* Mutant: a failed trial or a finished triad leaves the target's sources.
NextSampledBreak(t) == NextTarget(t)

\* The next sampled source, or the next target.
NextSampled(t) ==
  IF pc[t].j < Len(pc[t].srcs)
    THEN pc' = [pc EXCEPT ![t] = [pc[t] EXCEPT !.j = @ + 1, !.stage = "primary"]]
    ELSE NextTarget(t)

\* For a sampled source: skip an autapse when autapses are off; else make
\* the primary edge if this thread owns the target.
TripartitePrimary(t) ==
  LET s == pc[t].srcs[pc[t].j]
      tg == Target(t)
      E == IF Owns(t, tg) THEN << Edge(s, tg, "primary") >> ELSE << >>
  IN /\ Tripartite /\ Running(t) /\ pc[t].stage = "primary"
     /\ \/ /\ ~conf.allow_autapses /\ s = tg
           /\ NextSampled(t) /\ UNCHANGED << edges, exc >>
        \/ /\ conf.allow_autapses \/ s # tg
           /\ SingleConnects(t, E)
           /\ IF Throws(E) THEN LeaveLoop(t) ELSE SetStage(t, "trial")
     /\ UNCHANGED << tape, pos >>

\* Mutant: the third-factor trial drawn from the thread's own generator.
TrialDrawVPSpecific(p, F) == F

\* synced_rng->drand() < p_third_if_primary
TrialDraw(p, F) == DrawOne(p, F)

\* The conditional third-factor trial; a failed one goes to the next source.
TripartiteTrial(t) ==
  /\ Tripartite /\ Running(t) /\ pc[t].stage = "trial"
  /\ \E b \in TrialDraw(pos[t], {IF c THEN 1 ELSE 0 : c \in Connects(conf.p_third)}) :
       /\ tape' = DrawnOne(pos[t], b)
       /\ pos' = [pos EXCEPT ![t] = @ + 1]
       /\ IF b = 1 THEN SetStage(t, "third") ELSE NextSampled(t)
  /\ UNCHANGED << edges, exc >>

\* The pool index: 0 for a pool of one, else synced_rng->ulrand( pool_size ).
ThirdIndices == IF conf.pool_size = 1 THEN {0} ELSE 0 .. conf.pool_size - 1

\* Connect source -> third node if this thread owns it, then third node ->
\* target if it owns the target, through the auxiliary builders.
TripartiteThird(t) ==
  LET s == pc[t].srcs[pc[t].j]
      tg == Target(t)
  IN /\ Tripartite /\ Running(t) /\ pc[t].stage = "third"
     /\ \E x \in (IF conf.pool_size = 1 THEN ThirdIndices
                  ELSE DrawOne(pos[t], ThirdIndices)) :
          LET a == pc[t].pool[x + 1]
              E == (IF Owns(t, a) THEN << Edge(s, a, "third_in") >> ELSE << >>)
                   \o (IF Owns(t, tg) THEN << Edge(a, tg, "third_out") >> ELSE << >>)
          IN /\ IF conf.pool_size = 1 THEN UNCHANGED << tape, pos >>
                ELSE /\ tape' = DrawnOne(pos[t], x)
                     /\ pos' = [pos EXCEPT ![t] = @ + 1]
             /\ SingleConnects(t, E)
             /\ IF Throws(E) THEN LeaveLoop(t) ELSE NextSampled(t)

ThreadStep(t) ==
  /\ \/ BernoulliTarget(t) /\ UNCHANGED << tape, pos >>
     \/ BernoulliSource(t) /\ UNCHANGED << tape, pos >>
     \/ SymmetricIndegree(t)
     \/ SymmetricSource(t)
     \/ SymmetricTargetDone(t)
     \/ TripartiteIndegree(t)
     \/ TripartitePool(t)
     \/ TripartiteSources(t)
     \/ TripartitePrimary(t)
     \/ TripartiteTrial(t)
     \/ TripartiteThird(t)
  /\ UNCHANGED << conf, owner, phase, raised >>

-----------------------------------------------------------------------------
(* ConnBuilder::connect() around connect_().                                *)

Validate ==
  /\ phase = "init"
  /\ phase' = IF Rejected THEN "rejected" ELSE "region"
  /\ UNCHANGED << conf, owner, pc, tape, pos, edges, exc, raised >>

Failed == {t \in Threads : exc[t] # NoFailure}

\* After the region: throw the slot of the first thread that holds one.
Finish ==
  /\ phase = "region" /\ \A t \in Threads : ~Running(t)
  /\ IF Failed = {}
       THEN phase' = "done" /\ raised' = NoFailure
       ELSE phase' = "raised" /\ raised' = exc[Min(Failed)]
  /\ UNCHANGED << conf, owner, pc, tape, pos, edges, exc >>

Init ==
  /\ conf \in Confs
  /\ owner \in [NodeIds -> Threads]
  /\ phase = "init"
  /\ pc = [t \in Threads |-> [i |-> 1] @@ Fresh]
  /\ tape = << >>
  /\ pos = [t \in Threads |-> 1]
  /\ edges = EmptyBag
  /\ exc = [t \in Threads |-> NoFailure]
  /\ raised = NoFailure

Next ==
  \/ Validate
  \/ \E t \in Threads : ThreadStep(t)
  \/ Finish

\* OpenMP runs every thread to the end of its loop, and the code after the
\* region runs.
Spec == Init /\ [][Next]_vars /\ WF_vars(Validate) /\ WF_vars(Finish)
          /\ \A t \in Threads : WF_vars(ThreadStep(t))

-----------------------------------------------------------------------------
(* Properties.                                                              *)

Pair == [src : NodeIds, tgt : NodeIds, kind : {"primary", "third_in", "third_out"}]

TypeOK ==
  /\ conf \in Confs
  /\ owner \in [NodeIds -> Threads]
  /\ phase \in {"init", "region", "done", "raised", "rejected"}
  /\ \A t \in Threads :
       /\ pc[t].i \in 1 .. Cardinality(NodeIds) + 1
       /\ pc[t].j \in 0 .. Cardinality(NodeIds)
       /\ pc[t].deg \in -1 .. Cardinality(NodeIds) - 1
       /\ pc[t].prev \subseteq NodeIds
       /\ pc[t].stage \in {"indegree", "pool", "sources", "primary", "trial", "third"}
       /\ pc[t].pool \in BoundedSeq(NodeIds, Cardinality(NodeIds))
       /\ pc[t].srcs \in BoundedSeq(NodeIds, Cardinality(NodeIds))
  /\ tape \in Seq(BoundedSeq(0 .. Cardinality(NodeIds), Cardinality(NodeIds)))
  /\ pos \in [Threads -> 1 .. Len(tape) + 1]
  /\ IsABag(edges) /\ DOMAIN edges \subseteq Pair
  /\ exc \in [Threads -> {NoFailure} \cup Pair]
  /\ raised \in {NoFailure} \cup Pair

\* The pairs all-to-all would connect: every source to every target, save
\* autapses when they are off.
AllPairs ==
  {e \in [src : ToSet(Src), tgt : ToSet(Tgt), kind : {"primary"}] :
     conf.allow_autapses \/ e.src # e.tgt}

\* The comments of BernoulliBuilder::inner_connect_ and of the tripartite
\* connect_ (no multapses) and spec section 8: with pairwise_bernoulli and
\* with the primary edges of tripartite_bernoulli_with_pool each pair of a
\* source and a target is connected at most once, and never as an autapse
\* when autapses are off, whichever threads own the nodes: exactly one
\* thread connects each target.
PrimaryEdgesSimple ==
  Pairwise \/ Tripartite =>
    \A e \in DOMAIN edges : e.kind = "primary" => e \in AllPairs /\ edges[e] = 1

\* Spec section 8: a pairwise_bernoulli call with p = 1 that returns has
\* made all-to-all's edges, and one with p = 0 has made none.
BernoulliExtremes ==
  Pairwise /\ phase = "done" =>
    /\ conf.p.values = {2} => DOMAIN edges = AllPairs
    /\ conf.p.values = {0} => edges = EmptyBag

Reversed(e) == [e EXCEPT !.src = e.tgt, !.tgt = e.src]

\* Spec sections 4.2.7 and 8: when symmetric_pairwise_bernoulli returns,
\* every edge s -> t has as many t -> s edges and none is an autapse,
\* though each thread makes only the edges whose target it owns and
\* draws the structure from its own copy of the synced generator.  When
\* it raises, the two single_connect_() of a pair (line 1903) or the two
\* threads that own its ends may have made one direction only: an edge
\* without its reverse has an end owned by a thread whose connect threw.
SymmetricEdges ==
  Symmetric /\ phase \in {"done", "raised"} =>
    \A e \in DOMAIN edges :
      /\ e.src # e.tgt
      /\ owner[e.src] \notin Failed /\ owner[e.tgt] \notin Failed =>
           Reversed(e) \in DOMAIN edges /\ edges[Reversed(e)] = edges[e]

\* The block pool of target index ti as spec section 4.2.8 states it: the
\* ti-th run of pool_size third-factor indices when |targets| * pool_size
\* = |third|, else the group of |targets| / |third| consecutive targets
\* that index ti falls in shares one third-factor node.
BlockPoolSpec(ti) ==
  LET G == Len(Tgt) \div Len(Third)
  IN IF Len(Tgt) * conf.pool_size = Len(Third)
       THEN {ti * conf.pool_size + k : k \in 0 .. conf.pool_size - 1}
       ELSE {g \in 0 .. Len(Third) - 1 : ti \in g * G .. g * G + G - 1}

\* Spec sections 4.2.8 and 8: for every input the constructor accepts with
\* block pools, the pool get_first_pool_index_() gives each target is the
\* contiguous pool the spec assigns to it, and lies inside the third-factor
\* population.
BlockPoolsMatchSpec ==
  Tripartite /\ conf.pool_type = "block" /\ phase \notin {"init", "rejected"} =>
    \A ti \in 0 .. Len(Tgt) - 1 :
      /\ {FirstPoolIndex(ti) + k : k \in 0 .. conf.pool_size - 1} = BlockPoolSpec(ti)
      /\ BlockPoolSpec(ti) \subseteq 0 .. Len(Third) - 1

\* Spec section 8: with block pools, each target's third-factor neighbours
\* lie within its assigned contiguous pool: the third node of every
\* third_out edge is in the spec's pool of its target, though the pool is
\* computed from get_first_pool_index_(), copied by copy_n and indexed by
\* a synced draw on whichever thread owns the target.
ThirdFactorInPool ==
  Tripartite /\ conf.pool_type = "block" =>
    \A e \in DOMAIN edges : e.kind = "third_out" =>
      \E ti \in 0 .. Len(Tgt) - 1 :
        /\ Tgt[ti + 1] = e.tgt
        /\ e.src \in {Third[k + 1] : k \in BlockPoolSpec(ti)}

\* The edges one thread owning every node makes for the sampled sources
\* ss[j..] of target tg with pool pl, reading the synced stream tp from
\* position p, as spec section 4.2.8 states the rule: << edges, next p >>,
\* the position Overrun if the rule needs a draw the stream does not hold.
Overrun == -1

RECURSIVE TriadsFrom(_, _, _, _, _, _)
TriadsFrom(tp, p, tg, pl, ss, j) ==
  IF j > Len(ss) \/ p = Overrun THEN << << >>, p >>
  ELSE IF ~conf.allow_autapses /\ ss[j] = tg THEN TriadsFrom(tp, p, tg, pl, ss, j + 1)
  ELSE IF p > Len(tp) THEN << << >>, Overrun >>
  ELSE LET s == ss[j]
           hit == tp[p][1] = 1
           q == p + (IF hit /\ conf.pool_size > 1 THEN 2 ELSE 1)
           a == pl[(IF conf.pool_size = 1 THEN 0 ELSE tp[p + 1][1]) + 1]
           rest == TriadsFrom(tp, q, tg, pl, ss, j + 1)
       IN IF q > Len(tp) + 1 THEN << << >>, Overrun >>
          ELSE << << Edge(s, tg, "primary") >>
                  \o (IF hit THEN << Edge(s, a, "third_in"), Edge(a, tg, "third_out") >> ELSE << >>)
                  \o rest[1], rest[2] >>

\* The tripartite edges of targets Tgt[i..] read from position p.
RECURSIVE TripartitePlan(_, _, _)
TripartitePlan(tp, p, i) ==
  IF i > Len(Tgt) \/ p = Overrun THEN << << >>, p >>
  ELSE IF p > Len(tp) THEN << << >>, Overrun >>
  ELSE IF tp[p][1] = 0 THEN TripartitePlan(tp, p + 1, i + 1)
  ELSE LET random == conf.pool_type = "random"
           blk == SetToSortSeq(BlockPoolSpec(i - 1), <)
           pl == IF random THEN tp[p + 1] ELSE [k \in 1 .. Len(blk) |-> Third[blk[k] + 1]]
           ps == p + (IF random THEN 2 ELSE 1)
           r == TriadsFrom(tp, ps + 1, Tgt[i], pl, tp[ps], 1)
           rest == TripartitePlan(tp, r[2], i + 1)
       IN IF ps > Len(tp) THEN << << >>, Overrun >>
          ELSE << r[1] \o rest[1], rest[2] >>

\* The symmetric edge pairs of the n sources still to choose for target tg,
\* prev chosen already: an autapse or a repeat is drawn again.
RECURSIVE PairsFrom(_, _, _, _, _)
PairsFrom(tp, p, tg, n, prev) ==
  IF n = 0 THEN << << >>, p >>
  ELSE IF p > Len(tp) \/ tp[p][1] \notin 1 .. Len(Src) THEN << << >>, Overrun >>
  ELSE LET s == Src[tp[p][1]]
       IN IF s \in {tg} \cup prev THEN PairsFrom(tp, p + 1, tg, n, prev)
          ELSE LET rest == PairsFrom(tp, p + 1, tg, n - 1, prev \cup {s})
               IN << << Edge(s, tg, "primary"), Edge(tg, s, "primary") >> \o rest[1], rest[2] >>

\* The symmetric edges of targets Tgt[i..]; an indegree of at least
\* |sources| is drawn again.
RECURSIVE SymmetricPlan(_, _, _)
SymmetricPlan(tp, p, i) ==
  IF i > Len(Tgt) \/ p = Overrun THEN << << >>, p >>
  ELSE IF p > Len(tp) THEN << << >>, Overrun >>
  ELSE IF Truncated(tp[p][1]) THEN SymmetricPlan(tp, p + 1, i)
  ELSE LET r == PairsFrom(tp, p + 1, Tgt[i], tp[p][1], {})
           rest == SymmetricPlan(tp, r[2], i + 1)
       IN << r[1] \o rest[1], rest[2] >>

\* Spec sections 4.2 and 8: the structure of the symmetric and tripartite
\* rules is drawn from the rank-synchronized generator, so the edge set is
\* fixed by the seeds alone: when connect() returns, every thread has read
\* exactly the draws one thread owning every node reads, so the copies of
\* the generator stay in step for later calls, and the edges they
\* made, each for the nodes it owns, are exactly the edges that thread
\* makes, whatever the layout of nodes on threads.
EdgesFollowSyncedStream ==
  LET plan == IF Symmetric THEN SymmetricPlan(tape, 1, 1) ELSE TripartitePlan(tape, 1, 1)
  IN (Symmetric \/ Tripartite) /\ phase = "done" =>
       /\ plan[2] = Len(tape) + 1
       /\ \A t \in Threads : pos[t] = plan[2]
       /\ edges = FoldLeft(BagAdd, EmptyBag, plan[1])

\* Number of edges of kind k whose endpoint f( e ) is n.
EdgeCount(k, f(_), n) ==
  MapThenSumSet(LAMBDA e : edges[e], {e \in DOMAIN edges : e.kind = k /\ f(e) = n})

\* Spec section 4.2.8: the third-factor edges come in triads with the
\* primary ones, though the third node's thread makes source -> third and
\* the target's thread makes third -> target: when the call returns, each
\* third node has as many incoming third_in as outgoing third_out edges,
\* and no target (source) has more third_out (third_in) than primary edges.
\* When it raises, the halves of a triad may be missing (source -> third
\* made before third -> target throws, line 1778): only a thread whose
\* connect threw leaves a triad short, so a third node whose owner did not
\* fail has no third_out without its third_in, and if no target's owner
\* failed, no third_in lacks its third_out or its primary edge.
ThirdFactorTriads ==
  LET In(a) == EdgeCount("third_in", LAMBDA e : e.tgt, a)
      Out(a) == EdgeCount("third_out", LAMBDA e : e.src, a)
      TargetsIntact == \A tg \in ToSet(Tgt) : owner[tg] \notin Failed
  IN Tripartite /\ phase \in {"done", "raised"} =>
       /\ \A a \in ToSet(Third) :
            /\ owner[a] \notin Failed => In(a) >= Out(a)
            /\ TargetsIntact => Out(a) >= In(a)
       /\ \A n \in NodeIds :
            /\ EdgeCount("third_out", LAMBDA e : e.tgt, n) <= EdgeCount("primary", LAMBDA e : e.tgt, n)
            /\ TargetsIntact =>
                 EdgeCount("third_in", LAMBDA e : e.src, n) <= EdgeCount("primary", LAMBDA e : e.src, n)

\* connect() always returns or raises: every thread's loops end.
Termination ==
  \A p \in {"init", "region"} :
    (phase = p) ~> (phase \in {"done", "raised", "rejected"})

====
