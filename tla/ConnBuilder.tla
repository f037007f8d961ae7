------------------------------ MODULE ConnBuilder ------------------------------
(***************************************************************************)
(* ConnBuilder::connect() of src/nestkernel/conn_builder.cpp driving the   *)
(* two deterministic rules, OneToOneBuilder::connect_() and               *)
(* AllToAllBuilder::connect_(), inside an OpenMP parallel region.          *)
(*                                                                         *)
(* Every virtual process is a thread of the model; `owner' says which      *)
(* thread owns each node (node_id_to_vp).  A thread sees a target it does  *)
(* not own as a proxy.  An array-indexed synapse parameter keeps one       *)
(* cursor per thread (`cursor'); single_connect_() reads the value under   *)
(* the cursor and advances it, skip_conn_parameter_() advances it without  *)
(* reading.  The connection storage may refuse an edge (bad receptor,      *)
(* delay, model): the thread's try block then records the failure in its  *)
(* slot of exceptions_raised_ and leaves its loop.  After the region,      *)
(* connect() runs the endpoint-swapped replay when make_symmetric is set,  *)
(* then re-raises the slot of the lowest thread that failed.               *)
(*                                                                         *)
(* The inputs (rule, conn_spec flags, collections, refused targets) are    *)
(* drawn in Init from small sets, and so is the node-to-thread layout: one *)
(* run checks every layout against the same single-threaded reference.     *)
(***************************************************************************)
EXTENDS Integers, Sequences, SequencesExt, BagsExt

CONSTANTS
  Threads,      \* thread ids 0..n-1, one virtual process each
  NodeIds,      \* every node id the node manager knows (node_manager.size())
  Collections,  \* set of << sources, targets >>, each a sequence of node ids
  Refusals,     \* set of sets of target ids the connection storage refuses
  NoFailure     \* model value: an empty slot of exceptions_raised_

ASSUME Threads \subseteq Nat /\ Threads # {}
ASSUME \A c \in Collections : Len(c[1]) > 0 /\ Len(c[2]) > 0

Rules == {"one_to_one", "all_to_all"}

\* The caller's inputs: the rule, the conn_spec flags, whether one synapse
\* parameter is an array (and so registered in parameters_requiring_skipping_),
\* whether the synapse model has REQUIRES_SYMMETRIC, and the collections.
Confs == [ rule : Rules, allow_autapses : BOOLEAN, make_symmetric : BOOLEAN,
           array_param : BOOLEAN, requires_symmetric : BOOLEAN,
           coll : Collections, refused : Refusals ]

VARIABLES
  conf,     \* the inputs of this connect() call
  owner,    \* node id -> owning thread
  phase,    \* "init", "region", "done", "raised", "rejected", then for a
            \* later disconnect(): "disconnect", "disconnected",
            \* "disconnect_raised"
  swapped,  \* sources_ and targets_ are swapped (second, symmetric pass)
  pc,       \* thread -> [i, j]: outer and inner loop position
  cursor,   \* thread -> next index of the array parameter
  edges,    \* bag of [src, tgt, val] handed to the connection storage
  exc,      \* thread -> NoFailure or the pair whose connect threw
  raised    \* the failure connect() re-raises, or NoFailure

vars == << conf, owner, phase, swapped, pc, cursor, edges, exc, raised >>

-----------------------------------------------------------------------------
(* Builder state read by the rules.                                        *)

Src == IF swapped THEN conf.coll[2] ELSE conf.coll[1]
Tgt == IF swapped THEN conf.coll[1] ELSE conf.coll[2]

IsRange(c) == \A k \in 1 .. Len(c) - 1 : c[k + 1] = c[k] + 1

\* ConnBuilder::loop_over_targets_()
LoopOverTargets ==
  Len(Tgt) < Cardinality(NodeIds) \/ ~IsRange(Tgt) \/ conf.array_param

\* kernel().node_manager.get_local_nodes( tid ), in node id order
LocalNodes(t) == SetToSortSeq({n \in NodeIds : owner[n] = t}, <)

\* NodeCollection::get_lid(): position of n in c, 0 when absent (-1 in C++)
Lid(c, n) == IF \E k \in 1 .. Len(c) : c[k] = n
             THEN CHOOSE k \in 1 .. Len(c) : c[k] = n
             ELSE 0

LoopLen(t) == IF LoopOverTargets THEN Len(Tgt) ELSE Len(LocalNodes(t))

\* not allow_autapses_ and snode_id == tnode_id
Autapse(s, tg) == s = tg /\ ~conf.allow_autapses

\* The is_symmetric() / supports_symmetric() answers of the two rules.
IsSymmetric ==
  conf.rule = "all_to_all" /\ conf.coll[1] = conf.coll[2] /\ ~conf.array_param
SupportsSymmetric ==
  conf.rule = "one_to_one" \/ ~conf.array_param

CreatesSymmetricConnections == FALSE

-----------------------------------------------------------------------------
(* Per-thread steps.                                                        *)

Running(t) == phase = "region" /\ pc[t].i <= LoopLen(t)

Goto(t, i, j) == pc' = [pc EXCEPT ![t] = [i |-> i, j |-> j]]

\* Next pair of the all-to-all double loop (targets outer, sources inner).
NextPair(t) ==
  IF pc[t].j < Len(Src) THEN Goto(t, pc[t].i, pc[t].j + 1)
                        ELSE Goto(t, pc[t].i + 1, 1)

\* Value of the array parameter read for an edge; a scalar reads 0.
ParamValue(t) == IF conf.array_param THEN cursor[t] ELSE 0

\* skip_conn_parameter_( tid, n ): advances the parameters requiring skipping.
SkipConnParameter(t, n) ==
  cursor' = IF conf.array_param THEN [cursor EXCEPT ![t] = @ + n] ELSE cursor

\* Mutants: a proxy target of the all-to-all loop skips one value, or the
\* whole array; a proxy target of the one-to-one loop skips nothing.
AllToAllProxySkipOne == 1
AllToAllProxySkipAll == Len(Src) * Len(Tgt)
OneToOneProxySkipNone == 0

\* Number of values skipped for a proxy target in the all-to-all loop.
AllToAllProxySkip == Len(Src)

\* Number of values skipped for a proxy target in the one-to-one loop.
OneToOneProxySkip == 1

\* Mutant: the catch block records the failure but the loop does not end.
SingleConnectStays(t, s, tg, Continue) ==
  /\ SkipConnParameter(t, 1)
  /\ \/ /\ tg \notin conf.refused
        /\ edges' = BagAdd(edges, [src |-> s, tgt |-> tg, val |-> ParamValue(t)])
        /\ Continue
        /\ UNCHANGED exc
     \/ /\ tg \in conf.refused
        /\ exc' = [exc EXCEPT ![t] = [src |-> s, tgt |-> tg]]
        /\ UNCHANGED << edges, pc >>

\* ConnBuilder::single_connect_(): fill the parameter dictionary (reads and
\* advances the array cursor), hand the edge to the connection storage.  A
\* refused edge throws out of the thread's loop into its catch block.
SingleConnect(t, s, tg, Continue) ==
  /\ SkipConnParameter(t, 1)
  /\ \/ /\ tg \notin conf.refused
        /\ edges' = BagAdd(edges, [src |-> s, tgt |-> tg, val |-> ParamValue(t)])
        /\ Continue
        /\ UNCHANGED exc
     \/ /\ tg \in conf.refused
        /\ exc' = [exc EXCEPT ![t] = [src |-> s, tgt |-> tg]]
        /\ Goto(t, LoopLen(t) + 1, 1)
        /\ UNCHANGED edges

\* OneToOneBuilder::connect_(), loop over targets.
OneToOneTargetStep(t) ==
  LET i == pc[t].i
      s == Src[i]
      tg == Tgt[i]
  IN /\ conf.rule = "one_to_one" /\ LoopOverTargets /\ Running(t)
     /\ \/ /\ Autapse(s, tg)
           /\ Goto(t, i + 1, 1)
           /\ UNCHANGED << cursor, edges, exc >>
        \/ /\ ~Autapse(s, tg) /\ owner[tg] # t
           /\ SkipConnParameter(t, OneToOneProxySkip)
           /\ Goto(t, i + 1, 1)
           /\ UNCHANGED << edges, exc >>
        \/ /\ ~Autapse(s, tg) /\ owner[tg] = t
           /\ SingleConnect(t, s, tg, Goto(t, i + 1, 1))

\* OneToOneBuilder::connect_(), loop over the thread's local nodes.
OneToOneLocalStep(t) ==
  LET i == pc[t].i
      n == LocalNodes(t)[i]
      lid == Lid(Tgt, n)
  IN /\ conf.rule = "one_to_one" /\ ~LoopOverTargets /\ Running(t)
     /\ \/ /\ lid = 0 \/ Autapse(Src[lid], n)
           /\ Goto(t, i + 1, 1)
           /\ UNCHANGED << cursor, edges, exc >>
        \/ /\ lid # 0 /\ ~Autapse(Src[lid], n)
           /\ SingleConnect(t, Src[lid], n, Goto(t, i + 1, 1))

\* AllToAllBuilder::connect_() and inner_connect_( ..., skip = true ).
AllToAllTargetStep(t) ==
  LET i == pc[t].i
      s == Src[pc[t].j]
      tg == Tgt[i]
  IN /\ conf.rule = "all_to_all" /\ LoopOverTargets /\ Running(t)
     /\ \/ /\ owner[tg] # t
           /\ SkipConnParameter(t, AllToAllProxySkip)
           /\ Goto(t, i + 1, 1)
           /\ UNCHANGED << edges, exc >>
        \/ /\ owner[tg] = t /\ Autapse(s, tg)
           /\ SkipConnParameter(t, 1)
           /\ NextPair(t)
           /\ UNCHANGED << edges, exc >>
        \/ /\ owner[tg] = t /\ ~Autapse(s, tg)
           /\ SingleConnect(t, s, tg, NextPair(t))

\* AllToAllBuilder::connect_() over local nodes, inner_connect_( ..., false ).
\* The local-node loop runs only when the targets are every node as one
\* range, so get_lid( tnode_id ) < 0 never holds here.
AllToAllLocalStep(t) ==
  LET i == pc[t].i
      n == LocalNodes(t)[i]
      s == Src[pc[t].j]
  IN /\ conf.rule = "all_to_all" /\ ~LoopOverTargets /\ Running(t)
     /\ Lid(Tgt, n) # 0
     /\ \/ /\ Autapse(s, n)
           /\ NextPair(t)
           /\ UNCHANGED << cursor, edges, exc >>
        \/ /\ ~Autapse(s, n)
           /\ SingleConnect(t, s, n, NextPair(t))

-----------------------------------------------------------------------------
(* disconnect() without structural plasticity: every thread walks every    *)
(* target and deletes the edges of the targets it owns.  No autapse test,  *)
(* no parameters, no replay.                                               *)

Disconnecting(t) == phase = "disconnect" /\ pc[t].i <= Len(Tgt)

\* Mutant: the proxy test is missing, every thread deletes for every target.
DisconnectsOnEveryThread(t, tg) == TRUE

\* The target is neither on another rank nor a proxy on this thread.
DisconnectsOn(t, tg) == owner[tg] = t

\* single_disconnect_(): the storage deletes one s -> tg edge, whatever
\* its parameters, or throws when there is none.
SingleDisconnect(t, s, tg, Continue) ==
  LET found == {e \in BagToSet(edges) : e.src = s /\ e.tgt = tg}
  IN \/ /\ found # {}
        /\ \E e \in found : edges' = BagRemove(edges, e)
        /\ Continue
        /\ UNCHANGED exc
     \/ /\ found = {}
        /\ exc' = [exc EXCEPT ![t] = [src |-> s, tgt |-> tg]]
        /\ Goto(t, Len(Tgt) + 1, 1)
        /\ UNCHANGED edges

\* OneToOneBuilder::disconnect_()
OneToOneDisconnectStep(t) ==
  LET i == pc[t].i
  IN /\ conf.rule = "one_to_one" /\ Disconnecting(t)
     /\ \/ /\ ~DisconnectsOn(t, Tgt[i])
           /\ Goto(t, i + 1, 1)
           /\ UNCHANGED << edges, exc >>
        \/ /\ DisconnectsOn(t, Tgt[i])
           /\ SingleDisconnect(t, Src[i], Tgt[i], Goto(t, i + 1, 1))

\* AllToAllBuilder::disconnect_()
AllToAllDisconnectStep(t) ==
  LET i == pc[t].i
  IN /\ conf.rule = "all_to_all" /\ Disconnecting(t)
     /\ \/ /\ ~DisconnectsOn(t, Tgt[i])
           /\ Goto(t, i + 1, 1)
           /\ UNCHANGED << edges, exc >>
        \/ /\ DisconnectsOn(t, Tgt[i])
           /\ SingleDisconnect(t, Src[pc[t].j], Tgt[i], NextPair(t))

ThreadStep(t) ==
  /\ \/ OneToOneTargetStep(t) \/ OneToOneLocalStep(t)
     \/ AllToAllTargetStep(t) \/ AllToAllLocalStep(t)
     \/ /\ OneToOneDisconnectStep(t) \/ AllToAllDisconnectStep(t)
        /\ UNCHANGED cursor
  /\ UNCHANGED << conf, owner, phase, swapped, raised >>

-----------------------------------------------------------------------------
(* ConnBuilder::connect() around the parallel regions.                      *)

\* Constructor and connect() checks that throw before any region starts.
Rejected ==
  \/ conf.rule = "one_to_one" /\ Len(conf.coll[1]) # Len(conf.coll[2])
  \/ conf.requires_symmetric /\ ~(IsSymmetric \/ conf.make_symmetric)
  \/ conf.make_symmetric /\ ~SupportsSymmetric

StartRegion ==
  /\ pc' = [t \in Threads |-> [i |-> 1, j |-> 1]]

Validate ==
  /\ phase = "init"
  /\ \/ Rejected /\ phase' = "rejected" /\ UNCHANGED pc
     \/ ~Rejected /\ phase' = "region" /\ StartRegion
  /\ UNCHANGED << conf, owner, swapped, cursor, edges, exc, raised >>

RegionOver == phase = "region" /\ \A t \in Threads : ~Running(t)

\* make_symmetric_ and not creates_symmetric_connections_: reset every
\* parameter, swap sources_ and targets_, run connect_() again.
SymmetricReplay ==
  /\ RegionOver
  /\ ~swapped /\ conf.make_symmetric /\ ~CreatesSymmetricConnections
  /\ cursor' = [t \in Threads |-> 1]
  /\ swapped' = TRUE
  /\ StartRegion
  /\ UNCHANGED << conf, owner, phase, edges, exc, raised >>

Failed == {t \in Threads : exc[t] # NoFailure}

\* Swap back, then throw the slot of the first thread that holds one.
Finish ==
  /\ RegionOver
  /\ swapped \/ ~conf.make_symmetric \/ CreatesSymmetricConnections
  /\ swapped' = FALSE
  /\ IF Failed = {}
       THEN phase' = "done" /\ raised' = NoFailure
       ELSE phase' = "raised" /\ raised' = exc[Min(Failed)]
  /\ UNCHANGED << conf, owner, pc, cursor, edges, exc >>

\* ConnBuilder::disconnect() with the specification of a connect() that
\* returned (the caller's choice).
Disconnect ==
  /\ phase = "done"
  /\ phase' = "disconnect"
  /\ StartRegion
  /\ UNCHANGED << conf, owner, swapped, cursor, edges, exc, raised >>

\* After the disconnect region: throw the first captured failure.
EndDisconnect ==
  /\ phase = "disconnect"
  /\ \A t \in Threads : ~Disconnecting(t)
  /\ IF Failed = {}
       THEN phase' = "disconnected" /\ raised' = NoFailure
       ELSE phase' = "disconnect_raised" /\ raised' = exc[Min(Failed)]
  /\ UNCHANGED << conf, owner, swapped, pc, cursor, edges, exc >>

Init ==
  /\ conf \in Confs
  /\ owner \in [NodeIds -> Threads]
  /\ phase = "init"
  /\ swapped = FALSE
  /\ pc = [t \in Threads |-> [i |-> 1, j |-> 1]]
  /\ cursor = [t \in Threads |-> 1]
  /\ edges = EmptyBag
  /\ exc = [t \in Threads |-> NoFailure]
  /\ raised = NoFailure

Next ==
  \/ Validate
  \/ \E t \in Threads : ThreadStep(t)
  \/ SymmetricReplay
  \/ Finish
  \/ Disconnect
  \/ EndDisconnect

\* OpenMP runs every thread of the team to the end of its loop, and the
\* code after the region always runs: weak fairness on each.  Whether the
\* caller disconnects is its choice: no fairness on Disconnect.
Fairness ==
  /\ WF_vars(Validate)
  /\ \A t \in Threads : WF_vars(ThreadStep(t))
  /\ WF_vars(SymmetricReplay)
  /\ WF_vars(Finish)
  /\ WF_vars(EndDisconnect)

Spec == Init /\ [][Next]_vars /\ Fairness

-----------------------------------------------------------------------------
(* The reference: the edges one thread owning every node would create.      *)

Reference == INSTANCE ConnReference

Plan(S, T) ==
  IF conf.rule = "one_to_one"
    THEN Reference!PairListPlan(S, T, conf.allow_autapses, conf.array_param)
    ELSE Reference!AllToAllPlan(S, T, conf.allow_autapses, conf.array_param)

Planned ==
  IF Rejected THEN EmptyBag
  ELSE Plan(conf.coll[1], conf.coll[2])
         (+) (IF conf.make_symmetric THEN Plan(conf.coll[2], conf.coll[1])
                                     ELSE EmptyBag)

MayFail ==
  Rejected \/ \E e \in BagToSet(Planned) : e.tgt \in conf.refused

\* A disconnect() follows only a connect() that returned: for the abstract
\* connect() it is the time after it, with the edges it created.
DisconnectPhases == {"disconnect", "disconnected", "disconnect_raised"}

Status == CASE phase \in {"init", "region"}         -> "running"
          []   phase \in {"done"} \cup DisconnectPhases -> "ok"
          []   OTHER                                 -> "failed"

ConnectEdges == IF phase \in DisconnectPhases THEN Planned ELSE edges

Abstract == INSTANCE ConnectionRule
              WITH edges <- ConnectEdges, status <- Status,
                   planned <- Planned, mayFail <- MayFail

-----------------------------------------------------------------------------
(* Properties.                                                              *)

\* Longest collection; an array parameter holds at most MaxLen^2 values.
MaxLen == Max({Len(c[k]) : c \in Collections, k \in 1 .. 2})

TypeOK ==
  /\ conf \in Confs
  /\ owner \in [NodeIds -> Threads]
  /\ phase \in {"init", "region", "done", "raised", "rejected"} \cup DisconnectPhases
  /\ swapped \in BOOLEAN
  /\ pc \in [Threads -> [i : 1 .. MaxLen + 1, j : 1 .. MaxLen]]
  /\ cursor \in [Threads -> 1 .. MaxLen * MaxLen + 1]
  /\ IsABag(edges)
  /\ exc \in [Threads -> {NoFailure} \cup [src : NodeIds, tgt : NodeIds]]
  /\ raised \in {NoFailure} \cup [src : NodeIds, tgt : NodeIds]

\* Decomposition invariance (spec invariant 2 and section 8): under every
\* node-to-thread layout and both iteration regimes of the rules, connect()
\* only ever creates edges of the single-threaded reference, each with the
\* array value the reference gives it, returns only after creating all of
\* them, and raises only when an input makes it fail.
Refinement == Abstract!Spec

\* connect() and disconnect() always return or raise: no thread loops
\* forever and the code after each parallel region always runs.
Termination == \A p \in {"init", "region", "disconnect"} : (phase = p) ~> (phase # p)

\* Spec invariant 2: at the end of a region in which no thread failed, every
\* thread's cursor of the array parameter has moved by the same amount, so
\* the read and skipped values of all threads add up to the same schedule.
CursorsInLockstep ==
  (RegionOver /\ Failed = {}) => \A t, u \in Threads : cursor[t] = cursor[u]

\* Spec sections 5 and 9: a worker that failed has exited and its further
\* work is abandoned; it never hands another edge to the connection storage.
NoWorkAfterFailure ==
  [][\A t \in Threads :
       (exc[t] # NoFailure /\ pc'[t] # pc[t]) => edges' = edges]_vars

\* Number of s -> tg edges in bag B, whatever their parameter values.
PairCount(B, s, tg) ==
  BagCardinality([e \in {x \in DOMAIN B : x.src = s /\ x.tgt = tg} |-> B[e]])

\* Spec sections 3 and 8: disconnect() with the specification of a connect()
\* that returned deletes, once each, the pairs of the rule in the given
\* direction, on the thread that owns each target and under every layout;
\* the make_symmetric replay's reverse edges stay (disconnect() has no
\* replay).
DisconnectRemovesForwardPairs ==
  phase = "disconnected" =>
    \A s, tg \in NodeIds :
      PairCount(edges, s, tg)
        = PairCount(Planned, s, tg) - PairCount(Plan(conf.coll[1], conf.coll[2]), s, tg)

===============================================================================
