---------------------------- MODULE FixedOutDegree ----------------------------
(***************************************************************************)
(* FixedOutDegreeBuilder of src/nestkernel/conn_builder.cpp: the range    *)
(* checks of its constructor and connect_(), inside ConnBuilder::connect().*)
(*                                                                         *)
(* connect_() walks the sources on the calling thread.  For each source it *)
(* draws, from the rank-synchronised generator, an outdegree and then that *)
(* many target indices, redrawing an index that would make an autapse or  *)
(* (multapses off) repeat a target; the list tgt_ids_ is the same on every *)
(* thread.  Then it opens one parallel region in which every thread walks  *)
(* tgt_ids_, skips one array value for a target it does not own and       *)
(* connects the others.  A failure is caught per region: the thread leaves *)
(* that region's loop, and the next source opens a new region.            *)
(*                                                                         *)
(* A draw is an existential choice; a rejected draw changes no state (a    *)
(* stuttering step), so the redraw loop ends exactly when some draw is     *)
(* acceptable, and weak fairness stands for ulrand() drawing every index  *)
(* eventually.                                                             *)
(***************************************************************************)
EXTENDS Integers, Sequences, SequencesExt, BagsExt

CONSTANTS
  Threads,      \* thread ids, one virtual process each
  NodeIds,      \* every node id the node manager knows
  Confs,        \* the caller's inputs, records of: allow_autapses,
                \* allow_multapses; outdegree: [random : BOOLEAN, values :
                \* set of Int] (a constant is one value); array_param;
                \* coll: << sources, targets >>, sequences of distinct ids;
                \* refused: the targets the connection storage refuses
  NoFailure     \* model value: an empty slot of exceptions_raised_

ASSUME Threads \subseteq Nat /\ Threads # {}
ASSUME \A c \in Confs : Len(c.coll[1]) > 0 /\ Len(c.coll[2]) > 0

VARIABLES
  conf,     \* the inputs of this connect() call
  owner,    \* node id -> owning thread
  phase,    \* "init", "draw", "region", "done", "raised", "rejected"
  src,      \* position of the current source in sources_
  deg,      \* outdegree_value of the current source, -1 before its draw
  tgts,     \* tgt_ids_: the targets drawn for the current source
  ch,       \* ch_ids: the target indices drawn (multapses off)
  pc,       \* thread -> position in tgt_ids_ of the current region
  cursor,   \* thread -> next index of the array parameter
  edges,    \* bag of [src, tgt, val] handed to the connection storage
  exc,      \* thread -> NoFailure or the pair whose connect threw
  raised,   \* the failure connect() re-raises, or NoFailure
  degree    \* history: source -> outdegree drawn for it (-1 before)

vars == << conf, owner, phase, src, deg, tgts, ch, pc, cursor, edges, exc,
           raised, degree >>

-----------------------------------------------------------------------------
Src == conf.coll[1]
Tgt == conf.coll[2]

\* The constructor: BadProperty on the range checks of a constant outdegree
\* (a random one is not checked).  value == n_targets with autapses and
\* multapses off only logs that the loop may never end and returns.
Rejected ==
  LET value == CHOOSE v \in conf.outdegree.values : TRUE
  IN /\ ~conf.outdegree.random
     /\ \/ ~conf.allow_multapses /\ value > Len(Tgt)
        \/ value < 0

-----------------------------------------------------------------------------
(* The draws of connect_(), on the calling thread.                          *)

\* Mutant: ch_ids is declared outside the loop over sources.
KeepChosen == UNCHANGED ch

\* std::set< long > ch_ids, std::vector tgt_ids_: empty for each source.
ClearChosen == ch' = {}

\* outdegree_value = round( outdegree_->value( grng, source_node ) )
DrawOutdegree ==
  /\ phase = "draw" /\ src <= Len(Src) /\ deg = -1
  /\ \E v \in conf.outdegree.values :
       /\ deg' = v
       /\ degree' = [degree EXCEPT ![Src[src]] = v]
  /\ tgts' = << >>
  /\ ClearChosen
  /\ UNCHANGED << conf, owner, phase, src, pc, cursor, edges, exc, raised >>

\* Mutant: one target more than outdegree_value.
MoreTargetsOffByOne == Len(tgts) <= deg

\* for ( j = 0; j < outdegree_value; ++j )
MoreTargets == Len(tgts) < deg

\* Mutant: the autapse test of the redraw loop is missing.
SkipAutapseNever(k) == FALSE

\* skip_autapse = not allow_autapses_ and tnode_id == snode_id
SkipAutapse(k) == ~conf.allow_autapses /\ Tgt[k] = Src[src]

\* skip_multapse = not allow_multapses_ and t_id already in ch_ids
SkipMultapse(k) == ~conf.allow_multapses /\ k \in ch

\* One pass of the j loop: the do-while loop redraws t_id until it is
\* acceptable, ch_ids records it when multapses are off, and its node id is
\* appended to tgt_ids_.
DrawTarget ==
  /\ phase = "draw" /\ src <= Len(Src) /\ deg >= 0 /\ MoreTargets
  /\ \E k \in 1 .. Len(Tgt) :
       /\ ~SkipAutapse(k) /\ ~SkipMultapse(k)
       /\ ch' = IF conf.allow_multapses THEN ch ELSE ch \cup {k}
       /\ tgts' = Append(tgts, Tgt[k])
  /\ UNCHANGED << conf, owner, phase, src, deg, pc, cursor, edges, exc,
                  raised, degree >>

\* #pragma omp parallel for the current source.
StartRegion ==
  /\ phase = "draw" /\ src <= Len(Src) /\ deg >= 0 /\ ~MoreTargets
  /\ phase' = "region"
  /\ pc' = [t \in Threads |-> 1]
  /\ UNCHANGED << conf, owner, src, deg, tgts, ch, cursor, edges, exc,
                  raised, degree >>

-----------------------------------------------------------------------------
(* The parallel region of one source.                                       *)

Running(t) == phase = "region" /\ pc[t] <= Len(tgts)

ParamValue(t) == IF conf.array_param THEN cursor[t] ELSE 0

SkipConnParameter(t, n) ==
  cursor' = IF conf.array_param THEN [cursor EXCEPT ![t] = @ + n] ELSE cursor

\* Mutant: a proxy target skips no array value.
ProxySkipNone == 0

\* skip_conn_parameter_( tid ) for a proxy target.
ProxySkip == 1

\* ConnBuilder::single_connect_(): reads and advances the array cursor; a
\* refused edge throws into the catch block, which ends this region's loop.
SingleConnect(t, s, tg) ==
  /\ SkipConnParameter(t, 1)
  /\ \/ /\ tg \notin conf.refused
        /\ edges' = BagAdd(edges, [src |-> s, tgt |-> tg, val |-> ParamValue(t)])
        /\ pc' = [pc EXCEPT ![t] = @ + 1]
        /\ UNCHANGED exc
     \/ /\ tg \in conf.refused
        /\ exc' = [exc EXCEPT ![t] = [src |-> s, tgt |-> tg]]
        /\ pc' = [pc EXCEPT ![t] = Len(tgts) + 1]
        /\ UNCHANGED edges

\* Mutant: the proxy test is missing.
IsProxyNever(t, tg) == FALSE

\* target->is_proxy(): thread t does not own tg.
IsProxy(t, tg) == owner[tg] # t

\* One iteration of the loop over tgt_ids_ of thread t.
ThreadStep(t) ==
  LET tg == tgts[pc[t]]
  IN /\ Running(t)
     /\ \/ /\ IsProxy(t, tg)
           /\ SkipConnParameter(t, ProxySkip)
           /\ pc' = [pc EXCEPT ![t] = @ + 1]
           /\ UNCHANGED << edges, exc >>
        \/ /\ ~IsProxy(t, tg)
           /\ SingleConnect(t, Src[src], tg)
     /\ UNCHANGED << conf, owner, phase, src, deg, tgts, ch, raised, degree >>

\* The implicit barrier: the next source.
EndRegion ==
  /\ phase = "region" /\ \A t \in Threads : ~Running(t)
  /\ phase' = "draw"
  /\ src' = src + 1
  /\ deg' = -1
  /\ UNCHANGED << conf, owner, tgts, ch, pc, cursor, edges, exc, raised,
                  degree >>

-----------------------------------------------------------------------------
(* ConnBuilder::connect() around connect_().                                *)

Validate ==
  /\ phase = "init"
  /\ phase' = IF Rejected THEN "rejected" ELSE "draw"
  /\ UNCHANGED << conf, owner, src, deg, tgts, ch, pc, cursor, edges, exc,
                  raised, degree >>

Failed == {t \in Threads : exc[t] # NoFailure}

\* After the last source: throw the slot of the first thread that holds one.
Finish ==
  /\ phase = "draw" /\ src > Len(Src)
  /\ IF Failed = {}
       THEN phase' = "done" /\ raised' = NoFailure
       ELSE phase' = "raised" /\ raised' = exc[Min(Failed)]
  /\ UNCHANGED << conf, owner, src, deg, tgts, ch, pc, cursor, edges, exc,
                  degree >>

Init ==
  /\ conf \in Confs
  /\ owner \in [NodeIds -> Threads]
  /\ phase = "init"
  /\ src = 1
  /\ deg = -1
  /\ tgts = << >>
  /\ ch = {}
  /\ pc = [t \in Threads |-> 1]
  /\ cursor = [t \in Threads |-> 1]
  /\ edges = EmptyBag
  /\ exc = [t \in Threads |-> NoFailure]
  /\ raised = NoFailure
  /\ degree = [n \in NodeIds |-> -1]

Next ==
  \/ Validate
  \/ DrawOutdegree
  \/ DrawTarget
  \/ StartRegion
  \/ \E t \in Threads : ThreadStep(t)
  \/ EndRegion
  \/ Finish

\* connect_() runs its loops to the end, OpenMP runs every thread of each
\* region to the end of its loop, and ulrand() eventually draws every index.
Fairness ==
  /\ WF_vars(Validate) /\ WF_vars(DrawOutdegree) /\ WF_vars(DrawTarget)
  /\ WF_vars(StartRegion) /\ WF_vars(EndRegion) /\ WF_vars(Finish)
  /\ \A t \in Threads : WF_vars(ThreadStep(t))

Spec == Init /\ [][Next]_vars /\ Fairness

-----------------------------------------------------------------------------
(* Properties.                                                              *)

MaxLen == Max({Len(c.coll[k]) : c \in Confs, k \in 1 .. 2})
MaxDeg == Max(UNION {c.outdegree.values : c \in Confs})

TypeOK ==
  /\ conf \in Confs
  /\ owner \in [NodeIds -> Threads]
  /\ phase \in {"init", "draw", "region", "done", "raised", "rejected"}
  /\ src \in 1 .. MaxLen + 1
  /\ deg \in -1 .. MaxDeg
  /\ tgts \in BoundedSeq(NodeIds, MaxDeg)
  /\ ch \in SUBSET (1 .. MaxLen)
  /\ pc \in [Threads -> 1 .. MaxDeg + 1]
  /\ cursor \in [Threads -> Nat]
  /\ IsABag(edges)
  /\ exc \in [Threads -> {NoFailure} \cup [src : NodeIds, tgt : NodeIds]]
  /\ raised \in {NoFailure} \cup [src : NodeIds, tgt : NodeIds]
  /\ degree \in [NodeIds -> -1 .. MaxDeg]

\* Number of edges out of s in the storage.
OutCount(s) == BagCardinality([e \in {x \in DOMAIN edges : x.src = s} |-> edges[e]])

\* Spec section 4.2.4: every edge goes to a target of targets_; there is
\* no autapse when autapses are off and no repeated source -> target pair
\* when multapses are off, whichever threads own the targets.
NoForbiddenEdges ==
  \A e \in BagToSet(edges) :
    /\ Contains(Tgt, e.tgt)
    /\ ~(~conf.allow_autapses /\ e.src = e.tgt)
    /\ ~conf.allow_multapses => edges[e] = 1
         /\ \A f \in BagToSet(edges) : (f.src = e.src /\ f.tgt = e.tgt) => f = e

\* Spec section 7: when connect() returns, every source has exactly the
\* outdegree drawn for it, the owners of its targets together creating
\* each edge of tgt_ids_ once.
OutDegreesAsDrawn ==
  phase = "done" => \A s \in ToSet(Src) : OutCount(s) = degree[s]

\* Position of source s in sources_.
SrcIndex(s) == CHOOSE k \in 1 .. Len(Src) : Src[k] = s

\* Values of the array parameter the sources before s take in the
\* single-threaded schedule: the sum of their outdegrees.
Offset(s) == MapThenSumSet(LAMBDA k : degree[Src[k]], 1 .. SrcIndex(s) - 1)

\* Spec invariants 2 and 7: when connect() returns, the edges out of the
\* k-th source carry the array values the schedule gives that source, the
\* next outdegree values after those of the sources before it, although
\* every source has a parallel region of its own.
ArrayValuesFollowSchedule ==
  (phase = "done" /\ conf.array_param) =>
    \A e \in BagToSet(edges) :
      e.val \in Offset(e.src) + 1 .. Offset(e.src) + degree[e.src]

\* connect() always returns or raises: every redraw loop, every region and
\* the loop over the sources end.
Termination ==
  \A p \in {"init", "draw", "region"} : (phase = p) ~> (phase \in {"done", "raised", "rejected"})

\* Spec sections 5 and 9: a worker that failed has exited and its further
\* work is abandoned; it never hands another edge to the connection
\* storage, in this region or in the region of a later source.
NoWorkAfterFailure ==
  [][\A t \in Threads : exc[t] # NoFailure => edges' = edges \/ ~ThreadStep(t)]_vars

====
