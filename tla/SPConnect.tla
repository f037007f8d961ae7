------------------------------- MODULE SPConnect -------------------------------
(***************************************************************************)
(* The structural-plasticity paths of src/nestkernel/conn_builder.cpp:     *)
(* OneToOneBuilder::sp_connect_() / sp_disconnect_(),                      *)
(* AllToAllBuilder::sp_connect_() / sp_disconnect_() and                   *)
(* SPBuilder::connect_( sources, targets ), all built on                   *)
(* ConnBuilder::change_connected_synaptic_elements().                      *)
(*                                                                         *)
(* Every thread walks every pair.  For each pair it updates the connected  *)
(* pre-synaptic element count of the source if it owns the source and the  *)
(* post-synaptic count of the target if it owns the target, and creates   *)
(* (or deletes) the edge only if it owns the target.  Counts live in       *)
(* `pre' and `post'; each is written only by the owner of its node.        *)
(* The caller first connects; for the two rules it may then disconnect     *)
(* with the same specification, as the structural plasticity manager does. *)
(***************************************************************************)
EXTENDS Integers, Sequences, SequencesExt, BagsExt

CONSTANTS
  Threads,     \* thread ids, one virtual process each
  NodeIds,     \* every node id
  Confs,       \* set of inputs: [rule, allow_autapses, make_symmetric,
               \*                 array_param, coll, refused, specs]; specs
               \* is the syn_spec list, [pre, post] for each: whether it
               \* names a pre- / post-synaptic element
  NoFailure    \* model value: an empty slot of exceptions_raised_

ASSUME Threads \subseteq Nat /\ Threads # {}
ASSUME \A c \in Confs : c.rule \in {"one_to_one", "all_to_all", "sp_builder"}
\* one_to_one and all_to_all take the structural-plasticity path only when a
\* syn_spec names an element; without one, ConnBuilder models the call.
ASSUME \A c \in Confs : Len(c.specs) > 0 /\
         (c.rule # "sp_builder" => \E k \in 1 .. Len(c.specs) : c.specs[k].pre \/ c.specs[k].post)

VARIABLES
  conf,     \* the inputs of the calls
  owner,    \* node id -> owning thread
  phase,    \* "init", "connect", "connected", "connect_raised",
            \* "disconnect", "disconnected", "disconnect_raised", "rejected"
  pc,       \* thread -> [i, j]: loop position
  cursor,   \* thread -> next index of the array parameter
  edges,    \* bag of [src, tgt, val] in the connection storage
  pre,      \* node id -> connected pre-synaptic elements
  post,     \* node id -> connected post-synaptic elements
  exc       \* thread -> NoFailure or the pair whose (dis)connect threw

vars == << conf, owner, phase, pc, cursor, edges, pre, post, exc >>

Src == conf.coll[1]
Tgt == conf.coll[2]

PairList == conf.rule \in {"one_to_one", "sp_builder"}

LoopLen == Len(Tgt)

Autapse(s, tg) == s = tg /\ ~conf.allow_autapses

Running(t) == phase \in {"connect", "disconnect"} /\ pc[t].i <= LoopLen

Goto(t, i, j) == pc' = [pc EXCEPT ![t] = [i |-> i, j |-> j]]

\* The all-to-all double loop: targets outer, sources inner.
NextPair(t) ==
  IF pc[t].j < Len(Src) THEN Goto(t, pc[t].i, pc[t].j + 1)
                        ELSE Goto(t, pc[t].i + 1, 1)

\* The pair at the thread's loop position: << source, target >>.
Pair(t) == IF PairList THEN << Src[pc[t].i], Tgt[pc[t].i] >>
                       ELSE << Src[pc[t].j], Tgt[pc[t].i] >>

ParamValue(t) == IF conf.array_param THEN cursor[t] ELSE 0

\* skip_conn_parameter_( tid, n )
SkipConnParameter(t, n) ==
  cursor' = IF conf.array_param THEN [cursor EXCEPT ![t] = @ + n] ELSE cursor

-----------------------------------------------------------------------------
(* change_connected_synaptic_elements( snode_id, tnode_id, tid, update ):   *)
(* the source's count moves on the source's thread, the target's count on  *)
(* the target's thread; the result `local' says the target is ours.        *)

\* Mutant: the target's count moves on every thread, not only its owner's.
ChangeConnectedSynapticElementsAnyThread(t, s, tg, update) ==
  /\ pre' = IF owner[s] = t THEN [pre EXCEPT ![s] = @ + update] ELSE pre
  /\ post' = [post EXCEPT ![tg] = @ + update]

ChangeConnectedSynapticElements(t, s, tg, update) ==
  /\ pre' = IF owner[s] = t THEN [pre EXCEPT ![s] = @ + update] ELSE pre
  /\ post' = IF owner[tg] = t THEN [post EXCEPT ![tg] = @ + update] ELSE post

Local(t, tg) == owner[tg] = t

\* single_connect_(): reads and advances the parameters, then the storage
\* creates the edge or throws, which ends the thread's loop.
SingleConnect(t, s, tg, Continue) ==
  /\ SkipConnParameter(t, 1)
  /\ \/ /\ tg \notin conf.refused
        /\ edges' = BagAdd(edges, [src |-> s, tgt |-> tg, val |-> ParamValue(t)])
        /\ Continue
        /\ UNCHANGED exc
     \/ /\ tg \in conf.refused
        /\ exc' = [exc EXCEPT ![t] = [src |-> s, tgt |-> tg]]
        /\ Goto(t, LoopLen + 1, 1)
        /\ UNCHANGED edges

\* single_disconnect_(): the storage deletes one s -> tg edge, or throws
\* when there is none.
SingleDisconnect(t, s, tg, Continue) ==
  LET found == {e \in BagToSet(edges) : e.src = s /\ e.tgt = tg}
  IN \/ /\ found # {}
        /\ \E e \in found : edges' = BagRemove(edges, e)
        /\ Continue
        /\ UNCHANGED exc
     \/ /\ found = {}
        /\ exc' = [exc EXCEPT ![t] = [src |-> s, tgt |-> tg]]
        /\ Goto(t, LoopLen + 1, 1)
        /\ UNCHANGED edges

-----------------------------------------------------------------------------
(* Loop bodies.                                                             *)

\* Mutant: a pair whose target is elsewhere skips no value.
PairListSPSkipNone == 0

\* Values skipped for a pair of sp_connect_() / SPBuilder::connect_() whose
\* target is on another thread.
PairListSPSkip == 1

\* Body shared by OneToOneBuilder::sp_connect_() and SPBuilder::connect_():
\* a rejected autapse skips nothing; a pair whose target is elsewhere skips
\* one value.
PairListSPConnect(t) ==
  LET s == Pair(t)[1]
      tg == Pair(t)[2]
      next == Goto(t, pc[t].i + 1, 1)
  IN \/ /\ Autapse(s, tg)
        /\ next
        /\ UNCHANGED << cursor, edges, pre, post, exc >>
     \/ /\ ~Autapse(s, tg) /\ ~Local(t, tg)
        /\ ChangeConnectedSynapticElements(t, s, tg, 1)
        /\ SkipConnParameter(t, PairListSPSkip)
        /\ next
        /\ UNCHANGED << edges, exc >>
     \/ /\ ~Autapse(s, tg) /\ Local(t, tg)
        /\ ChangeConnectedSynapticElements(t, s, tg, 1)
        /\ SingleConnect(t, s, tg, next)

OneToOneSPConnectStep(t) ==
  conf.rule = "one_to_one" /\ phase = "connect" /\ Running(t) /\ PairListSPConnect(t)

SPBuilderConnectStep(t) ==
  conf.rule = "sp_builder" /\ phase = "connect" /\ Running(t) /\ PairListSPConnect(t)

\* Values skipped for a pair of AllToAllBuilder::sp_connect_() whose target
\* is on another thread.
AllToAllSPSkip == Len(Src)

AllToAllSPConnectStep(t) ==
  LET s == Pair(t)[1]
      tg == Pair(t)[2]
  IN /\ conf.rule = "all_to_all" /\ phase = "connect" /\ Running(t)
     /\ \/ /\ Autapse(s, tg)
           /\ SkipConnParameter(t, 1)
           /\ NextPair(t)
           /\ UNCHANGED << edges, pre, post, exc >>
        \/ /\ ~Autapse(s, tg) /\ ~Local(t, tg)
           /\ ChangeConnectedSynapticElements(t, s, tg, 1)
           /\ SkipConnParameter(t, AllToAllSPSkip)
           /\ NextPair(t)
           /\ UNCHANGED << edges, exc >>
        \/ /\ ~Autapse(s, tg) /\ Local(t, tg)
           /\ ChangeConnectedSynapticElements(t, s, tg, 1)
           /\ SingleConnect(t, s, tg, NextPair(t))

\* Mutant: disconnecting passes the connect update.
DisconnectUpdateFlipped == 1

\* The update sp_disconnect_() hands to change_connected_synaptic_elements.
DisconnectUpdate == -1

\* Loop body of OneToOneBuilder::sp_disconnect_() and
\* AllToAllBuilder::sp_disconnect_(): no autapse test, no parameters.
SPDisconnectStep(t) ==
  LET s == Pair(t)[1]
      tg == Pair(t)[2]
      next == IF PairList THEN Goto(t, pc[t].i + 1, 1) ELSE NextPair(t)
  IN /\ phase = "disconnect" /\ Running(t)
     /\ ChangeConnectedSynapticElements(t, s, tg, DisconnectUpdate)
     /\ UNCHANGED cursor
     /\ \/ /\ ~Local(t, tg)
           /\ next
           /\ UNCHANGED << edges, exc >>
        \/ /\ Local(t, tg)
           /\ SingleDisconnect(t, s, tg, next)

OneToOneSPDisconnectStep(t) == conf.rule = "one_to_one" /\ SPDisconnectStep(t)

AllToAllSPDisconnectStep(t) == conf.rule = "all_to_all" /\ SPDisconnectStep(t)

ThreadStep(t) ==
  /\ \/ OneToOneSPConnectStep(t) \/ SPBuilderConnectStep(t)
     \/ AllToAllSPConnectStep(t)
     \/ OneToOneSPDisconnectStep(t) \/ AllToAllSPDisconnectStep(t)
  /\ UNCHANGED << conf, owner, phase >>

-----------------------------------------------------------------------------
(* The calls around the parallel regions.                                   *)

StartRegion == pc' = [t \in Threads |-> [i |-> 1, j |-> 1]]

\* set_structural_plasticity_parameters(): some syn_spec names an element.
HasSPParameters ==
  \E k \in 1 .. Len(conf.specs) : conf.specs[k].pre \/ conf.specs[k].post

\* It then throws for more than one syn_spec, or for one naming only one of
\* the two elements.
SPParametersRejected ==
  /\ HasSPParameters
  /\ Len(conf.specs) > 1 \/ conf.specs[1].pre # conf.specs[1].post

\* use_structural_plasticity_ as the constructor leaves it.
UseStructuralPlasticity == HasSPParameters /\ ~SPParametersRejected

\* SPBuilder's constructor requires structural plasticity.
SPBuilderRejected == conf.rule = "sp_builder" /\ ~UseStructuralPlasticity

\* The ConnBuilder and SPBuilder constructors throw on the element names;
\* ConnBuilder::connect() refuses make_symmetric with structural
\* plasticity; SPBuilder::sp_connect() goes straight to connect_(); the
\* pair-list rules need equally long lists.
Rejected ==
  \/ SPParametersRejected
  \/ SPBuilderRejected
  \/ conf.rule # "sp_builder" /\ conf.make_symmetric
  \/ PairList /\ Len(Src) # Len(Tgt)

Connect ==
  /\ phase = "init"
  /\ \/ Rejected /\ phase' = "rejected" /\ UNCHANGED pc
     \/ ~Rejected /\ phase' = "connect" /\ StartRegion
  /\ UNCHANGED << conf, owner, cursor, edges, pre, post, exc >>

\* Mutant: the region is over only when every thread left its loop without
\* failing; a thread that threw is waited for.
RegionOverCleanOnly == \A t \in Threads : ~Running(t) /\ exc[t] = NoFailure

\* The implicit barrier at the end of the parallel region: every thread has
\* left its loop, normally or through its catch block.
RegionOver == \A t \in Threads : ~Running(t)

Failed == {t \in Threads : exc[t] # NoFailure}

\* After the region: re-raise the first captured failure, or return.
EndRegion ==
  /\ phase \in {"connect", "disconnect"}
  /\ RegionOver
  /\ phase' = IF Failed = {}
                THEN [connect |-> "connected", disconnect |-> "disconnected"][phase]
                ELSE [connect |-> "connect_raised",
                      disconnect |-> "disconnect_raised"][phase]
  /\ UNCHANGED << conf, owner, pc, cursor, edges, pre, post, exc >>

\* ConnBuilder::disconnect() with the same specification (SPBuilder has no
\* disconnect path).
Disconnect ==
  /\ phase = "connected"
  /\ conf.rule # "sp_builder"
  /\ phase' = "disconnect"
  /\ StartRegion
  /\ UNCHANGED << conf, owner, cursor, edges, pre, post, exc >>

Init ==
  /\ conf \in Confs
  /\ owner \in [NodeIds -> Threads]
  /\ phase = "init"
  /\ pc = [t \in Threads |-> [i |-> 1, j |-> 1]]
  /\ cursor = [t \in Threads |-> 1]
  /\ edges = EmptyBag
  /\ pre = [n \in NodeIds |-> 0]
  /\ post = [n \in NodeIds |-> 0]
  /\ exc = [t \in Threads |-> NoFailure]

Next ==
  \/ Connect
  \/ \E t \in Threads : ThreadStep(t)
  \/ EndRegion
  \/ Disconnect

\* Threads of a region run to the end; the code after a region always runs.
\* Whether the caller disconnects is its choice: no fairness on Disconnect.
Fairness ==
  /\ WF_vars(Connect)
  /\ \A t \in Threads : WF_vars(ThreadStep(t))
  /\ WF_vars(EndRegion)

Spec == Init /\ [][Next]_vars /\ Fairness

-----------------------------------------------------------------------------
(* The single-threaded reference and the properties.                       *)

Reference == INSTANCE ConnReference

\* The edges connect() creates when one thread owns every node.
Planned ==
  IF Rejected THEN EmptyBag
  ELSE IF PairList
    THEN Reference!PairListPlan(Src, Tgt, conf.allow_autapses, conf.array_param)
    ELSE Reference!AllToAllPlan(Src, Tgt, conf.allow_autapses, conf.array_param)

\* Number of stored edges leaving / entering node n.
OutDegree(n) == BagCardinality([e \in {x \in DOMAIN edges : x.src = n} |-> edges[e]])
InDegree(n) == BagCardinality([e \in {x \in DOMAIN edges : x.tgt = n} |-> edges[e]])

CountsMatchEdges ==
  \A n \in NodeIds : pre[n] = OutDegree(n) /\ post[n] = InDegree(n)

Busy == {"init", "connect", "disconnect"}

\* Longest collection; a node takes part in at most MaxLen pairs.
MaxLen == Max({Len(c.coll[k]) : c \in Confs, k \in 1 .. 2})

TypeOK ==
  /\ conf \in Confs
  /\ owner \in [NodeIds -> Threads]
  /\ phase \in Busy \cup {"connected", "connect_raised", "disconnected",
                           "disconnect_raised", "rejected"}
  /\ pc \in [Threads -> [i : 1 .. MaxLen + 1, j : 1 .. MaxLen]]
  /\ cursor \in [Threads -> 1 .. MaxLen * MaxLen + 1]
  /\ IsABag(edges)
  /\ pre \in [NodeIds -> -MaxLen .. MaxLen]
  /\ post \in [NodeIds -> -MaxLen .. MaxLen]
  /\ exc \in [Threads -> {NoFailure} \cup [src : NodeIds, tgt : NodeIds]]

\* Decomposition invariance in SP mode (spec invariant 2 and section 8):
\* under every node-to-thread layout the threads of sp_connect_() only
\* create edges of the single-threaded reference, each with the array value
\* the reference gives it, and all of them when sp_connect() returns;
\* sp_disconnect_() only removes edges.
EdgesMatchReference ==
  /\ edges \sqsubseteq Planned
  /\ phase = "connected" => edges = Planned

\* Spec section 2 (d): when sp_connect() returns, the connected pre- and
\* post-synaptic element counts that change_connected_synaptic_elements()
\* updated on the threads owning the endpoints equal the out- and
\* in-degrees of the stored edges.
ElementCountsMatchEdges == phase = "connected" => CountsMatchEdges

\* Spec section 2 (d) for an sp_connect() that raises: even when a
\* single_connect_() throws, every count still matches the stored edges.
FailedConnectKeepsCounts == phase = "connect_raised" => CountsMatchEdges

\* Spec section 8, round trip: disconnect() with the specification of a
\* connect() that returned restores every synaptic-element count to zero.
RoundTrip ==
  phase \in {"disconnected", "disconnect_raised"} =>
    \A n \in NodeIds : pre[n] = 0 /\ post[n] = 0

\* connect() and disconnect() always return or raise: no thread loops
\* forever and the code after each parallel region always runs.
Termination == \A p \in Busy : (phase = p) ~> (phase # p)

===============================================================================
