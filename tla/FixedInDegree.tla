----------------------------- MODULE FixedInDegree -----------------------------
(***************************************************************************)
(* FixedInDegreeBuilder of src/nestkernel/conn_builder.cpp: the range     *)
(* checks of its constructor, connect_() with its two loop regimes, and    *)
(* inner_connect_() with its redraw loop, inside ConnBuilder::connect().   *)
(*                                                                         *)
(* Each thread draws, from its own virtual-process generator, an indegree  *)
(* for every target it visits, then that many source indices; a draw that  *)
(* would make an autapse or (multapses off) repeat a source is redrawn.    *)
(* A draw is an existential choice.  A rejected draw changes no state: it  *)
(* is a stuttering step, so the redraw loop ends exactly when some draw is *)
(* acceptable, and weak fairness on the thread's step stands for ulrand()  *)
(* drawing every index eventually.                                         *)
(*                                                                         *)
(* A constant indegree is one value; a random indegree (a Parameter) is a  *)
(* set of values any of which a draw may give.                             *)
(***************************************************************************)
EXTENDS Integers, Sequences, SequencesExt, BagsExt

CONSTANTS
  Threads,      \* thread ids, one virtual process each
  NodeIds,      \* every node id the node manager knows
  Confs,        \* the caller's inputs, records of: allow_autapses,
                \* allow_multapses; indegree: [random : BOOLEAN, values :
                \* set of Int] (a constant is one value); array_param (a
                \* synapse parameter is an array); coll: << sources,
                \* targets >>, sequences of distinct ids; refused: the
                \* targets the connection storage refuses
  NoFailure     \* model value: an empty slot of exceptions_raised_

ASSUME Threads \subseteq Nat /\ Threads # {}
ASSUME \A c \in Confs : Len(c.coll[1]) > 0 /\ Len(c.coll[2]) > 0

VARIABLES
  conf,     \* the inputs of this connect() call
  owner,    \* node id -> owning thread
  phase,    \* "init", "region", "done", "raised", "rejected"
  pc,       \* thread -> [i: target position, j: sources connected,
            \*            deg: indegree drawn (0 before the draw), ch: ch_ids]
  cursor,   \* thread -> next index of the array parameter
  edges,    \* bag of [src, tgt, val] handed to the connection storage
  exc,      \* thread -> NoFailure or the pair whose connect threw
  raised,   \* the failure connect() re-raises, or NoFailure
  degree    \* history: target -> indegree its owner drew (-1 before)

vars == << conf, owner, phase, pc, cursor, edges, exc, raised, degree >>

-----------------------------------------------------------------------------
Src == conf.coll[1]
Tgt == conf.coll[2]

IsRange(c) == \A k \in 1 .. Len(c) - 1 : c[k + 1] = c[k] + 1

\* ConnBuilder::loop_over_targets_()
LoopOverTargets ==
  Len(Tgt) < Cardinality(NodeIds) \/ ~IsRange(Tgt) \/ conf.array_param

\* kernel().node_manager.get_local_nodes( tid ), in node id order
LocalNodes(t) == SetToSortSeq({n \in NodeIds : owner[n] = t}, <)

LoopLen(t) == IF LoopOverTargets THEN Len(Tgt) ELSE Len(LocalNodes(t))

\* The target visited at loop position i of thread t.
Target(t, i) == IF LoopOverTargets THEN Tgt[i] ELSE LocalNodes(t)[i]

\* The constructor: BadProperty on the range checks of a constant indegree
\* (a random one is not checked).  value == n_sources with autapses and
\* multapses off only logs that the loop may never end and returns.
Rejected ==
  LET value == CHOOSE v \in conf.indegree.values : TRUE
  IN /\ ~conf.indegree.random
     /\ \/ ~conf.allow_multapses /\ value > Len(Src)
        \/ value < 0

-----------------------------------------------------------------------------
(* Per-thread steps.                                                        *)

Running(t) == phase = "region" /\ pc[t].i <= LoopLen(t)

Idle == [j |-> 0, deg |-> 0, ch |-> {}]

\* Mutant: the next target keeps the j count and ch_ids of the last one.
GotoKeepsCount(t, i) == pc' = [pc EXCEPT ![t].i = i, ![t].deg = 0]

\* Go to loop position i with no draw pending.
Goto(t, i) == pc' = [pc EXCEPT ![t] = [i |-> i] @@ Idle]

ParamValue(t) == IF conf.array_param THEN cursor[t] ELSE 0

SkipConnParameter(t, n) ==
  cursor' = IF conf.array_param THEN [cursor EXCEPT ![t] = @ + n] ELSE cursor

\* ConnBuilder::single_connect_(): reads and advances the array cursor; a
\* refused edge throws into the catch block, which ends the thread's loop.
SingleConnect(t, s, tg, Continue) ==
  /\ SkipConnParameter(t, 1)
  /\ \/ /\ tg \notin conf.refused
        /\ edges' = BagAdd(edges, [src |-> s, tgt |-> tg, val |-> ParamValue(t)])
        /\ Continue
        /\ UNCHANGED exc
     \/ /\ tg \in conf.refused
        /\ exc' = [exc EXCEPT ![t] = [src |-> s, tgt |-> tg]]
        /\ Goto(t, LoopLen(t) + 1)
        /\ UNCHANGED edges

\* Mutant: a proxy target skips one array value whatever its indegree.
ProxySkipOne(v) == 1

\* skip_conn_parameter_( tid, indegree_value ) for a proxy target.
ProxySkip(v) == v

\* connect_(), one target: draw indegree_value from the thread's generator
\* (before the proxy test).  A proxy target skips indegree_value array
\* values; otherwise inner_connect_() starts.  Two tests of the code cannot
\* fail: the local-node loop runs only when targets_ is the whole network,
\* so get_lid() < 0 never holds, and both loops call inner_connect_() only
\* for nodes of this thread, so its early return never fires.
DrawIndegree(t) ==
  LET i == pc[t].i
      tg == Target(t, i)
  IN /\ Running(t) /\ pc[t].deg = 0 /\ Contains(Tgt, tg)
     /\ \E v \in conf.indegree.values :
          \/ /\ LoopOverTargets /\ owner[tg] # t
             /\ SkipConnParameter(t, ProxySkip(v))
             /\ Goto(t, i + 1)
             /\ UNCHANGED degree
          \/ /\ ~LoopOverTargets \/ owner[tg] = t
             /\ degree' = [degree EXCEPT ![tg] = v]
             /\ IF v > 0 THEN pc' = [pc EXCEPT ![t].deg = v]
                         ELSE Goto(t, i + 1)
             /\ UNCHANGED cursor
     /\ UNCHANGED << edges, exc >>

\* Mutants: the autapse test or the duplicate test of the redraw loop is
\* missing.
SkipAutapseNever(s, tg) == FALSE
SkipMultapseNever(t, k) == FALSE

\* Mutant: ch_ids is one set shared by all threads instead of a local of
\* inner_connect_().
SkipMultapseShared(t, k) ==
  ~conf.allow_multapses /\ \E u \in Threads : k \in pc[u].ch

\* skip_autapse = not allow_autapses_ and snode_id == tnode_id
SkipAutapse(s, tg) == ~conf.allow_autapses /\ s = tg

\* skip_multapse = not allow_multapses_ and s_id already in ch_ids
SkipMultapse(t, k) == ~conf.allow_multapses /\ k \in pc[t].ch

\* Mutant: the j loop runs once more than indegree_value.
MoreSourcesOffByOne(t) == pc[t].j + 1 <= pc[t].deg

\* for ( j = 0; j < indegree_value; ++j ), tested after pass j.
MoreSources(t) == pc[t].j + 1 < pc[t].deg

\* inner_connect_(), one pass of the j loop: the do-while loop redraws until
\* s_id is acceptable, ch_ids records it when multapses are off, then
\* single_connect_() creates the edge.
ConnectSource(t) ==
  LET i == pc[t].i
      tg == Target(t, i)
      j == pc[t].j
  IN /\ Running(t) /\ pc[t].deg > 0
     /\ \E k \in 1 .. Len(Src) :
          /\ ~SkipAutapse(Src[k], tg) /\ ~SkipMultapse(t, k)
          /\ SingleConnect(t, Src[k], tg,
               IF MoreSources(t)
                 THEN pc' = [pc EXCEPT ![t].j = j + 1,
                                       ![t].ch = IF conf.allow_multapses THEN @
                                                 ELSE @ \cup {k}]
                 ELSE Goto(t, i + 1))
     /\ UNCHANGED degree

ThreadStep(t) ==
  /\ DrawIndegree(t) \/ ConnectSource(t)
  /\ UNCHANGED << conf, owner, phase, raised >>

-----------------------------------------------------------------------------
(* ConnBuilder::connect() around the parallel region.                       *)

Validate ==
  /\ phase = "init"
  /\ phase' = IF Rejected THEN "rejected" ELSE "region"
  /\ UNCHANGED << conf, owner, pc, cursor, edges, exc, raised, degree >>

RegionOver == phase = "region" /\ \A t \in Threads : ~Running(t)

Failed == {t \in Threads : exc[t] # NoFailure}

\* After the region: throw the slot of the first thread that holds one.
Finish ==
  /\ RegionOver
  /\ IF Failed = {}
       THEN phase' = "done" /\ raised' = NoFailure
       ELSE phase' = "raised" /\ raised' = exc[Min(Failed)]
  /\ UNCHANGED << conf, owner, pc, cursor, edges, exc, degree >>

Init ==
  /\ conf \in Confs
  /\ owner \in [NodeIds -> Threads]
  /\ phase = "init"
  /\ pc = [t \in Threads |-> [i |-> 1] @@ Idle]
  /\ cursor = [t \in Threads |-> 1]
  /\ edges = EmptyBag
  /\ exc = [t \in Threads |-> NoFailure]
  /\ raised = NoFailure
  /\ degree = [n \in NodeIds |-> -1]

Next ==
  \/ Validate
  \/ \E t \in Threads : ThreadStep(t)
  \/ Finish

\* OpenMP runs every thread to the end of its loop and the code after the
\* region always runs; ulrand() eventually draws every index.
Spec == Init /\ [][Next]_vars /\ WF_vars(Validate) /\ WF_vars(Finish)
          /\ \A t \in Threads : WF_vars(ThreadStep(t))

-----------------------------------------------------------------------------
(* Properties.                                                              *)

MaxLen == Max({Len(c.coll[k]) : c \in Confs, k \in 1 .. 2})
MaxDeg == Max(UNION {c.indegree.values : c \in Confs})

TypeOK ==
  /\ conf \in Confs
  /\ owner \in [NodeIds -> Threads]
  /\ phase \in {"init", "region", "done", "raised", "rejected"}
  /\ pc \in [Threads -> [i : 1 .. MaxLen + 1, j : 0 .. MaxDeg - 1, deg : 0 .. MaxDeg,
                         ch : SUBSET (1 .. MaxLen)]]
  /\ cursor \in [Threads -> Nat]
  /\ IsABag(edges)
  /\ exc \in [Threads -> {NoFailure} \cup [src : NodeIds, tgt : NodeIds]]
  /\ raised \in {NoFailure} \cup [src : NodeIds, tgt : NodeIds]
  /\ degree \in [NodeIds -> -1 .. MaxDeg]

\* Number of edges into tg in the storage.
InCount(tg) == BagCardinality([e \in {x \in DOMAIN edges : x.tgt = tg} |-> edges[e]])

\* Spec section 4.2.3: every edge comes from a drawn source; there is no
\* autapse when autapses are off and no repeated source -> target pair
\* when multapses are off, whichever threads connect which targets.
NoForbiddenEdges ==
  \A e \in BagToSet(edges) :
    /\ Contains(Src, e.src)
    /\ ~(~conf.allow_autapses /\ e.src = e.tgt)
    /\ ~conf.allow_multapses => edges[e] = 1
         /\ \A f \in BagToSet(edges) : (f.src = e.src /\ f.tgt = e.tgt) => f = e

\* Spec section 7: when connect() returns, every target has exactly the
\* indegree its owning thread drew for it (the constant, for a scalar).
InDegreesAsDrawn ==
  phase = "done" => \A tg \in ToSet(Tgt) : InCount(tg) = degree[tg]

\* Position of target tg in targets_.
TgtIndex(tg) == CHOOSE k \in 1 .. Len(Tgt) : Tgt[k] = tg

\* Values of the array parameter the targets before tg take in the
\* single-threaded schedule: the sum of their drawn indegrees.
Offset(tg) == MapThenSumSet(LAMBDA k : degree[Tgt[k]], 1 .. TgtIndex(tg) - 1)

\* Spec invariants 2 and 7: when connect() returns, the edges into the
\* k-th target carry the array values the schedule gives that target, the
\* next indegree values after those of the targets before it, on every
\* node-to-thread layout.
ArrayValuesFollowSchedule ==
  (phase = "done" /\ conf.array_param) =>
    \A e \in BagToSet(edges) :
      e.val \in Offset(e.tgt) + 1 .. Offset(e.tgt) + degree[e.tgt]

\* connect() always returns or raises: every thread leaves its redraw and
\* target loops and the code after the region runs.
Termination == \A p \in {"init", "region"} : (phase = p) ~> (phase # p)

====
