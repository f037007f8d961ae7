# TLA+ models of the NEST connection builders

This directory holds TLA+ specifications of `src/nestkernel/conn_builder.cpp`:
the `ConnBuilder` base class and the connection rules that create synapses
between two node collections on many threads (OpenMP virtual processes). Each
module is checked with TLC. `PROJECT.json` lists:

- the components, and whether each is modelled;
- the runs, with their expected outcome;
- the mutants that show each property can fail;
- the source lines every definition translates;
- the findings and hazards.

## 1. Inventory

### Components and how they interact

| Part | Code | What it does |
|------|------|--------------|
| `ConnBuilder::connect()` | 189-251 | Checks `requires_symmetric`/`make_symmetric`. Dispatches to `sp_connect_()` or `connect_()`. Optionally replays the rule with sources and targets swapped. Re-raises the lowest thread's captured exception. |
| `ConnBuilder::disconnect()` | 254-273 | Dispatches to `sp_disconnect_()` or `disconnect_()` and re-raises in the same way. |
| `single_connect_`, `update_param_dict_` | 276-355 | Reads every synapse parameter for one edge (array parameters advance a per-thread cursor) and hands the edge to the connection manager, which may throw. |
| `skip_conn_parameter_` (header) | called at 609, 729, 809, 853, 867, 904 | Advances the array parameters for pairs the thread does not own. |
| `change_connected_synaptic_elements` | 146-187 | Structural plasticity (SP): the source's pre-synaptic count moves on the source's thread, the target's post count on the target's thread. Returns whether this thread owns the target. |
| `OneToOneBuilder` | 560-785 | Pairs `sources[i] -> targets[i]`. Two loop regimes: all targets, or the thread's local nodes. Plain and SP connect/disconnect. |
| `AllToAllBuilder` | 788-1010 | Every source to every target. Two loop regimes. Plain and SP connect/disconnect. |
| `SPBuilder` | 1920-2021 | `sp_connect(vectors)` for the SP manager, a copy of the one-to-one SP loop. Its constructor requires SP mode, which `set_structural_plasticity_parameters` (504-533) turns on for exactly one syn_spec naming both elements. |
| `FixedInDegreeBuilder` | 1012-1173 | Per target, an indegree and that many sources, drawn from the thread's own generator; redraws autapses and (multapses off) repeated sources. |
| `FixedOutDegreeBuilder` | 1176-1303 | Per source, on the calling thread, an outdegree and that many targets from the rank-synchronised generator; then one parallel region per source connects the owned targets. |
| `FixedTotalNumberBuilder` | 1306-1473 | A binomial partition of N over the virtual processes, then each VP draws pairs onto its own targets until its count is used up. |
| `BernoulliBuilder` | 1476-1590 | Each target's owner draws, for every source, whether `drand() < p`. |
| `SymmetricBernoulliBuilder` | 1793-1918 | Every thread draws the same truncated-binomial indegrees and distinct sources from the synced generator, and emits the edges of both directions whose endpoint it owns. |
| `TripartiteBernoulliWithPool` / `AuxiliaryBuilder` | 1592-1790 | Each thread draws, from the synced generator, every target's binomial indegree, its pool of third-factor nodes (random or block) and its sources. It makes the primary edge if it owns the target. A synced trial then picks a pool member, and the thread makes `source -> third` if it owns the third node and `third -> target` if it owns the target. |
| `GenericModel` (`genericmodel.h`) | | A template that forwards every query to a prototype node. |
| `EpropArchivingNode` (`src/unnamed/part_000`) | | A header with declarations only. |

Every thread runs the whole loop of a rule. For each pair it asks the node
manager whether it owns the target:

- If it does, it creates the edge.
- If not, it skips the pair and advances its cursors as if it had read them.

The threads share nothing but the connection storage (one part per thread),
the per-node synaptic-element counters (each written only by its owner), and
`exceptions_raised_` (one slot per thread). The region ends at an implicit
barrier, then `connect()` reads the slots.

### State, operations and hard behaviours

- **State.** The per-thread loop position, the per-thread cursor of each
  array parameter, the edges in the storage, the pre/post counters, the
  exception slots, and `sources_`/`targets_` (swapped during the replay).
- **Operations.** `connect`, `disconnect`, `sp_connect`, `sp_disconnect`, and
  one loop step per rule and loop regime.
- **Hard behaviours.**
  - Interleavings of the threads under every node-to-thread layout.
  - A thread that throws leaves its loop while the others go on.
  - The replay runs after a failed forward pass.
  - Counters change before an edge that may be refused.
  - A disconnect follows a connect with the same specification.
  - Redraw loops that end only when some draw is acceptable.
  - Threads that each read a synchronised generator at their own pace.
  - An unsigned running sum at its width.

The hazards, each at its line, are listed in `PROJECT.json`.

## 2. Modules

| Module | Models |
|--------|--------|
| `ConnectionRule` | The abstract promise of `connect()`: hand the storage edges of the bag `planned`, one at a time in any order. Then either return with exactly `planned` created, or raise (only if `mayFail`), keeping what was created. |
| `ConnReference` | Pure operators: the edge bag, with array values, that one thread owning every node would create for one_to_one / pair lists and for all_to_all. |
| `ConnBuilder` | Plain `connect()` and `disconnect()` for one_to_one and all_to_all. |
| `SPConnect` | The SP paths: `sp_connect_`/`sp_disconnect_` of both rules and `SPBuilder::sp_connect`. |
| `FixedInDegree` | `FixedInDegreeBuilder`: constructor checks, both loop regimes, the redraw loop. |
| `FixedOutDegree` | `FixedOutDegreeBuilder`: constructor checks, the draws on the calling thread, one region per source. |
| `FixedTotalNumber` | `FixedTotalNumberBuilder`: constructor checks, the partition loop, the per-VP loop. |
| `Bernoulli` | `BernoulliBuilder`, `SymmetricBernoulliBuilder` and `TripartiteBernoulliWithPoolBuilder` (with `AuxiliaryBuilder`) in one module; `conf.rule` picks the rule. |
| `MC*` | The constants for TLC. |

Every module keeps the frame of `connect()`:

- `Validate`: the constructor's and `connect()`'s checks.
- A per-thread `ThreadStep`: one pass of the rule's loop. The catch block
  records the failure and leaves the loop.
- `Finish`: re-raise the slot of the lowest failed thread.

The node-to-thread layout `owner` is drawn in `Init`, so every check covers
every layout.

### ConnBuilder

The variables:

- `conf`: the inputs (rule, conn_spec flags, whether a synapse parameter is an
  array, REQUIRES_SYMMETRIC, the collections, the targets the storage refuses).
- `owner`: the node-to-thread layout.
- `phase`: which call is running or how it ended.
- `swapped`: whether the replay is running.
- `pc`: each thread's loop position.
- `cursor`: each thread's array cursor.
- `edges`: a bag of `[src, tgt, val]`.
- `exc`: the exception slots.
- `raised`: what `connect()` re-raises.

The actions:

- `OneToOneTargetStep`, `OneToOneLocalStep`, `AllToAllTargetStep` (including
  `inner_connect_`) and `AllToAllLocalStep` are one loop iteration each. Every
  branch of the code (autapse, proxy, local) is a disjunct. `SingleConnect`
  is the call to `single_connect_`: it reads and advances the cursor, then
  either stores the edge, or records the failure and leaves the loop.
- `OneToOneDisconnectStep` and `AllToAllDisconnectStep` are `disconnect_`.
- `SymmetricReplay` resets the parameters and swaps.
- `Disconnect` and `EndDisconnect` are `disconnect()`.

`ConnBuilder` implements `ConnectionRule` through `Abstract == INSTANCE
ConnectionRule WITH ...`:

- `planned` is the `ConnReference` plan, doubled by the swapped plan under
  `make_symmetric`.
- The abstract `edges` are the stored edges until a disconnect starts.

### SPConnect

`SPConnect` adds the counters `pre` and `post`.
`ChangeConnectedSynapticElements` is one conjunct of the step that calls it,
placed before `SingleConnect`/`SingleDisconnect` as in the code.
`conf.specs` says which syn_specs name a pre- or post-synaptic element.
`SPParametersRejected` and `SPBuilderRejected` are the constructors'
checks, evaluated with the rest of `Rejected` before any region starts.

### The random rules

A random draw is an existential choice over the values the distribution can
produce. The draw is never a value written into the model.

- **FixedInDegree.**
  - `pc` holds a thread's target position, its source count, and the indegree
    drawn.
  - `DrawIndegree` draws the indegree, or skips one array value for a proxy
    target.
  - `ConnectSource` draws one source. A draw the redraw loop rejects
    (`SkipAutapse`, `SkipMultapse`) changes no state: it is a stuttering
    step. The loop therefore ends exactly when an acceptable source exists.
  - The history variable `degree` keeps the indegree each target was given.
- **FixedOutDegree.**
  - The draws on the calling thread are `DrawOutdegree` and `DrawTarget`,
    into `tgts`.
  - `StartRegion`, `ThreadStep` and `EndRegion` are the parallel region of
    one source.
  - Exception slots persist across regions, as in the code.
- **FixedTotalNumber.**
  - `PartitionStep` is one pass of the partition loop.
  - `sum` is `sum_partitions`, computed modulo `2^UIntBits`.
  - `part` is a history of the drawn counts.
  - `ThreadStep` draws one source/local-target pair.
- **Bernoulli.**
  - `BernoulliTarget` and `BernoulliSource` are the target loop and
    `inner_connect_`'s source loop. `Connects(v)` gives the possible outcomes
    of `drand() < p`, with p counted in halves (0, strictly between, 1).
  - For the symmetric rule, the synced generator is a shared `tape` that each
    thread reads at its own cursor `pos`. The first thread to reach a
    position fixes its value (`Draw`, `Drawn`).
  - `SymmetricIndegree` is the truncated binomial loop. `SymmetricSource` is
    one pass of the source loop, emitting `s -> t` if the thread owns t and
    `t -> s` if it owns s; the second connect runs only if the first did not
    throw. `SymmetricTargetDone` ends a target.
  - A redrawn value takes a tape position of its own, on at most `MaxTape`
    positions. After that, a fresh draw is one the loop accepts.
  - The tripartite rule goes through stages per target: `TripartiteIndegree`
    (the binomial indegree; 0 skips the target), `TripartitePool` (a random
    pool is `Sample` of the third collection, which keeps order like
    `std::sample`; a block pool starts at `FirstPoolIndex`),
    `TripartiteSources`, and then, per sampled source, `TripartitePrimary`,
    `TripartiteTrial` and `TripartiteThird`. All of these draw from the
    tape, so every thread reads the same values. Each tape entry is a
    sequence of integers; a trial is 0 or 1.
  - Edges carry a `kind`: `primary`, `third_in` (source -> third) or
    `third_out` (third -> target).

### Abstractions

- Node ids, threads and collections are small sets.
- An array parameter's value is its index: a wrong index is a wrong value.
- The connection storage is a bag. It refuses the targets in `conf.refused`,
  which stands for every exception `connect` can throw (bad receptor, delay,
  model). For the tripartite rule a target may also refuse only the
  `third_out` builder's synapse model (`conf.refused_third_out`): the
  auxiliary builders connect with their own synapse specs.
- `single_disconnect_` deletes one matching edge or throws.
- Several synapse specs and several parameters behave like one cursor, since
  they advance together.
- One MPI rank with several threads stands for several ranks: a node on
  another rank and a proxy on this thread take the same branch.
- Symmetric Bernoulli passes the synced generator to `single_connect_`, but
  `make_symmetric` (which the rule requires) makes the base constructor
  reset every parameter (lines 102-115). Only deterministic parameters can
  be reset (spec section 3, invariant 5). The model gives each input a
  weight, `"constant"` or `"random"`: `ResetRefused` rejects a random
  weight under `make_symmetric`, and `WeightDraws` is the one draw per
  `single_connect_` call that a random weight would take from the
  generator it is handed (`DrawnAny`: a distribution takes any value).
  For the pairwise and tripartite rules a weight draws from the thread's
  own generator, which no property observes.
- When threads' copies of the synced generator get out of step, a thread
  may read a position another thread filled with a draw of another kind.
  `SourceDrawn` reads such a position as any source index. The stream
  reading `PairsFrom` fails there.

## 3. Runs

| Run | Cfg | Expect | What it shows |
|-----|-----|--------|---------------|
| conn_builder | MCConnBuilder.cfg | pass | 2 threads, 3 nodes, every layout. Overlapping pair lists; the whole network as one range (the only case in which the local-node loop runs); lists of unequal length; refusals; both flags. Checks `Refinement`, `CursorsInLockstep` (spec invariant 2), `DisconnectRemovesForwardPairs`, `Termination` and `TypeOK`. About 24,000 states. |
| replay_after_failure | MCConnBuilderReplay.cfg | violation | `NoWorkAfterFailure`: a thread that failed in the forward pass creates edges in the replay (finding 1). |
| sp_connect | MCSPConnect.cfg | pass | SP for all three entry points. Pair lists with a self pair, a repeated target (SPBuilder only) and a swapped pair; syn_specs the constructors refuse (one element named, two syn_specs, none for SPBuilder). Checks `EdgesMatchReference`, `ElementCountsMatchEdges`, `Termination` and `TypeOK`. About 19,000 states. |
| sp_all_to_all_skip | MCSPAllToAllSkip.cfg | violation | `EdgesMatchReference`: the all_to_all SP loop skips `|sources|` values per non-local pair (finding 2). |
| sp_round_trip | MCSPRoundTrip.cfg | violation | `RoundTrip`: `sp_disconnect_` decrements the counts of a self pair that `sp_connect_` skipped (finding 3). |
| sp_failed_connect | MCSPFailedConnect.cfg | violation | `FailedConnectKeepsCounts`: the counts move before the edge is refused (finding 4). |
| fixed_in_degree | MCFixedInDegree.cfg | pass | Both loop regimes, constant and random indegrees (including -1, which is rejected), array parameters, refusals. Checks `NoForbiddenEdges`, `InDegreesAsDrawn` (each target gets the drawn indegree), `ArrayValuesFollowSchedule` (each edge reads the array value of its global position; arrays are paired with a constant indegree only) and `Termination`. About 150,000 states. |
| fixed_out_degree | MCFixedOutDegree.cfg | pass | The same properties, source-driven, across one region per source. About 190,000 states. |
| fixed_out_degree_failure | MCFixedOutDegreeFailure.cfg | violation | `NoWorkAfterFailure`: a thread that threw for one source creates edges in the next source's region (finding 5). |
| fixed_total_number | MCFixedTotalNumber.cfg | pass | Three VPs, N from -1 to 3. Checks `PartitionSumsToN`, `EdgesFollowPartition` (each VP makes exactly its share onto its own targets) and `Termination`. About 35,000 states. |
| fixed_total_number_wrap | MCFixedTotalNumberWrap.cfg | violation | `PartitionSumsToN`: with `sum_partitions` scaled to 2 bits and N = 4, the sum wraps (finding 6). |
| bernoulli | MCBernoulli.cfg | pass | All three rules. p of 0, between 0 and 1, 1, and out of range; a Parameter p; every constructor flag broken once; refusals; a distribution weight with the symmetric rule. Checks `PrimaryEdgesSimple` (no multapses among pairwise or primary tripartite edges, whichever thread owns a target), `BernoulliExtremes` (p = 1 gives all-to-all, p = 0 gives nothing), `SymmetricEdges` (a symmetric multigraph without autapses; after a raise, an edge lacks its reverse only at a node of a thread whose connect threw), `BlockPoolsMatchSpec` (`get_first_pool_index_` gives the block pools of spec section 4.2.8 and stays in range), `ThirdFactorTriads` (per third node as many `third_in` as `third_out` edges, and no more third-factor edges at a node than primary ones, though different threads make the two halves; after a raise a triad is short only at a node of a failed thread), `ThirdFactorInPool` (with block pools, every `third_out` edge comes from its target's pool as the spec assigns it), `EdgesFollowSyncedStream` (for the symmetric and tripartite rules, a recursive single-thread reading of the synced stream, written from spec section 4.2, consumes exactly the draws every thread made and gives exactly the edges they made, so the graph does not depend on the layout of nodes on threads and every thread's copy of the generator ends at the same position) and `Termination`. Tripartite inputs: block pools of one node for two targets, one node per target and two nodes for one target, random pools of size 1 and 2, p = 0, a target that refuses only the `third_out` synapse model (so `source -> third` is made and `third -> target` throws, line 1778), and each constructor check broken once. About 495,000 states. |

Every property of a passing run has a mutant in `PROJECT.json`: a plausible
bug in a mapped definition that TLC shows breaks it. Examples:

- an off-by-one skip count or loop bound;
- a missing proxy test;
- the sign of the disconnect update;
- a count updated on every thread;
- a catch block that does not leave the loop;
- a list of chosen targets not cleared for the next source;
- `drand() > p` in place of `drand() >= p`;
- a thread drawing from its own generator in place of the synced one;
- a base constructor that does not reset the parameters under
  `make_symmetric`, so a distribution weight draws from the synced
  generator on the thread that owns an endpoint;
- `previous_snode_ids` not cleared for the next target;
- `get_first_pool_index_` testing `>= 1` in place of `> 1`;
- the third-factor trial drawn from the thread's own generator;
- a block pool copied from the start of the third-factor population;
- a failed trial that leaves the target's remaining sources (a `break` for a `continue`).

### Bounds

- Two threads are the fewest that give a proxy and a skip.
- FixedTotalNumber runs on three VPs: with two, the partition loop draws
  one random count and the last VP takes the rest (p_local = 1). A second
  random draw on what the first left (p_local strictly between 0 and 1,
  line 1400) needs a third VP.
- Three nodes allow:
  - a collection that is not the whole network;
  - a self pair next to other pairs;
  - a target repeated in a list.
- Every layout of the three nodes on the two threads is an initial state, so
  each check covers owned, non-owned and mixed targets.
- Degrees and N range over 0 to 3 and a negative value, so there are
  rejections, empty loops, loops that need redraws, and degrees equal to
  the population.
- `MaxTape = 2` lets both symmetric redraw loops redraw, and lets one thread
  read a redraw fixed by the other.
- `UIntBits` is 16 in the passing run: TLC's integers cannot hold 2^32, and
  below the wrap 16 bits behave like 32. The wrap run uses 2 bits so that
  N = 4 is the analogue of N = 2^32.

These are the smallest inputs in which each branch of every loop body fires.
TLC coverage confirms every action and disjunct fires in the passing runs.

### Fairness

`WF` on each thread's step and on the code after a region:

- OpenMP runs every thread of a team until it leaves its loop.
- The code after the region runs once all have.
- For the redraw loops, WF on a step whose rejected draws are stuttering
  stands for the generator eventually producing an acceptable value, which
  `ulrand` does with probability 1.

Inputs for which no draw can ever be accepted are excluded in the MC modules
(`Feasible`). The code has such inputs: for lines 1049 and 1440 it loops
forever, as the constructor's warning at line 1049 says.

There is no fairness on `Disconnect`: calling it is the caller's choice.
`CHECK_DEADLOCK FALSE` is set because the program really stops once the calls
have returned.

## 4. Findings

1. `connect()` starts the symmetric replay without looking at the exception
   slots (line 224). A failed thread works again and may replace its
   recorded failure (spec sections 5 and 9).
2. `AllToAllBuilder::sp_connect_` skips `sources_->size()` values for one
   non-local pair (line 904). Array values then depend on the layout
   (spec invariant 2).
3. `sp_disconnect_` has no autapse test (lines 767 and 992). A
   connect/disconnect round trip with autapses disabled does not restore the
   counts (spec section 8).
4. The SP loops update the counts before `single_connect_` may throw
   (lines 727 and 2004). Counts and edges disagree after a raise
   (spec section 1 (d)).
5. `FixedOutDegreeBuilder` opens one parallel region per source (line
   1273). A thread whose connect threw keeps working in later regions and
   overwrites its slot (line 1300), so the failure re-raised need not be
   the first (spec sections 5, 7 and 9).
6. `FixedTotalNumberBuilder` sums the per-VP counts in an `unsigned int`
   (line 1407). For N of 2^32 or more the sum wraps, the loop does not stop
   at N, and the counts add up to more than N (spec section 8).

## 5. Plan and what is not modelled

Not yet modelled:

- Array parameters with the Bernoulli rules. `pairwise_bernoulli` skips
  one value per proxy target (line 1523) while the owner reads one per
  connected source, and the tripartite rule never skips. Which rules take
  array parameters is decided by the caller outside `src`, so these are
  hazard notes. The model gives these rules scalar parameters.
- An empty third-factor collection: line 1629 divides by its size before
  any check runs. Spec section 8 has empty collections refused with
  `BadProperty`, which no code under `src` does for this collection, so
  whether the division can happen is decided by the caller. The model
  takes non-empty collections.
- Bernoulli's `make_symmetric` replay. Whether the rule supports it is
  decided in a header outside this repository.
- A random indegree together with an array parameter (line 1088). The
  constructor does not reject this input, and in the model the cursors
  drift. Whether callers can pass it is decided outside `src`, so it is a
  hazard note, not a run.

The rest stays out of the model:

- The dictionary parsing of the constructors and `set_synapse_params` is
  configuration, not behaviour.
- `GenericModel` belongs to the model registry, which spec section 1 puts
  outside the connection core. It forwards every query to a prototype
  node, and its only state changes copy or write that prototype. The
  order of those calls (for instance `set_model_id` right after `clone`)
  is set by the model manager, which is not in this repository.
- The e-prop header holds declarations only.
