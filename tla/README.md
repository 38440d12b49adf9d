# Verification of Memorial TPMG

Memorial TPMG is a header-only C++23 library for temporal graphs of memories: typed nodes and
edges are appended to a *delta*, a delta is frozen into a *snapshot*, branches of a snapshot share
its rows on another worldline, queries read a snapshot, and event logs record how things came to
be known. This directory holds TLA+ models of it, the TLC runs that check them, and proofs of the
main theorems about publication, the stores with exceptions, queries, logs, the registry,
checkpoints and schemas.

The library has no threads, no I/O and no persistence. What is hard about it is

- **sequences of legal calls**: deltas and snapshots are separate values of the caller, and only
  their numbering ties one to the other (`branch_bases_match`);
- **two time axes and inherited rows**: a branch reads rows at the times of the layer that owns
  them, through indices that differ per layer;
- **partial failure**: an append writes to several containers, any of which may throw;
- **stale derived data**: indices and statistics are built once and go stale with the next append;
- **equivalence**: the optimizer and the index prefilter must not change any result, and the plan
  that `explain` prints must describe the query that runs;
- **programs over types**: schemas, their lookups and the assertions on them are computed while
  compiling, where a unit test sees only the schemas it spells out;
- **logs whose times come from callers**, and checkpoints that outlive their logs.

## Inventory

| Component (src/include/memorial) | State | Operations | Correct when |
|---|---|---|---|
| `storage/node_store.hpp` | property columns, base, size | append, contains, property | columns stay aligned; append is all or nothing |
| `storage/delta_store.hpp` (`delta_node_store`) | metadata columns, a `node_store`, four kinds of indices, ready flag | append, build_indices, indexed_candidates, indexed_property_candidates | indices called ready answer like a scan |
| `storage/adjacency_store.hpp` | columns, two hash maps, statistics | append, build_statistics, outgoing, incoming | maps agree with columns whatever threw |
| `storage/delta_store.hpp` (`delta_store`) | one store per kind and relation | append, append_edge, branch_from | every edge has ends, local ends share a worldline |
| `storage/snapshot.hpp` | immutable delta, worldline, two times, parent | publish, publish_branch, reads | ids contiguous along a chain, a branch only adds, selection and traversal exact |
| `runtime/event_log.hpp` | events | append, find | numbered without gaps, recorded times never go back |
| `runtime/memory_history.hpp` | an event log | append_original, reinterpret, at | versions form a line; the past is stable |
| `runtime/worldline.hpp` | records | create_root, fork, lineage | lineages are recorded paths from the root |
| `runtime/replay.hpp` | none (values) | make_checkpoint, replay | resuming equals replaying all |
| `query/dsl.hpp`, `query/ast.hpp` | a query as a type | the pipe operator | a query denotes a list of ids |
| `query/executor.hpp` | none | evaluate, execute | lookups invisible; only selectors fail |
| `query/optimizer.hpp` | none | optimize, required_columns | equivalent query; the columns reported suffice |
| `query/explain.hpp` | none | explain | the plan describes the query and its execution |
| `runtime/canonical_hash.hpp` | a hash | canonical_hash_of | different logs are hashed from different bytes |
| `runtime/provenance.hpp` | none (values) | make | inferred and simulated rows name a model run |
| `schema/`, `meta/type_list.hpp` | lists of types | extend a schema, look a spec up | lookups exact, edges join declared kinds that a rule allows |
| `meta/type_map.hpp`, `meta/fixed_string.hpp`, `runtime/error.hpp` | none at run time | types, texts | see *Not modelled* |

How they interact: `snapshot` owns a `delta_store` and a shared pointer to its parent; `publish`
calls `build_indices` on the delta it takes; the executor calls `source_candidates`,
`property_candidates`, `property`, `outgoing` and `edge_target` of a snapshot; `memory_history`
owns an `event_log`; `worldline_registry::fork` and `replay` read a log they are handed; `explain`
calls `optimize`, `execute` and the estimates of a snapshot. The registry, logs and snapshots share ids, not state. There are no callbacks but the reducer of
`replay`.

## Modules

| Module | Models | State and actions |
|---|---|---|
| `Temporal` | intervals of `time.hpp` | operators |
| `DeltaStore` | a `delta_store` as a value: rows, edges, bases, index selection | operators |
| `SnapshotView` | the reads of a snapshot, which is the sequence of its layers, and the shape it has (`SnapshotOK`) | operators |
| `GraphSnapshot` | callers writing and publishing | `deltas` (the callers' `delta_store` variables), `published`; `NewDelta`, `MakeBranchDelta`, `AppendNode`, `AppendEdge`, `Publish`, `PublishBranch` |
| `BranchingViews` | *abstract*: chains of graphs, a branch adds to its parent | refined by `GraphSnapshot` |
| `BranchBasis` | `GraphSnapshot` and a history variable: which snapshot a delta was made for | |
| `GraphSnapshotProofs` | theorems about the modules above | |
| `RowStore` | *abstract*: an append-only list of rows, append all or nothing | refined by `AdjacencyStore` and `DeltaNodeStore` |
| `IdLists` | lists of ids in order, the part of a list that is kept, and what `std::ranges::sort` makes of a list | operators |
| `AdjacencyStore` | one relation's edges, append write by write | columns, the two maps, statistics; `Begin`, `PushColumn`, ..., each with the exception it may raise, `BuildStatistics`; `Run` is a step of the call that is running |
| `AdjacencyStoreProofs` | theorems about `AdjacencyStore` | |
| `PropertyHistogram` | the histogram of a column, the estimate and the choice made by it | operators |
| `DeltaNodeStore` | one kind's rows, append and build step by step | columns, the four indices, the histograms, ready flag; `VisibleOf` is the loop of `append_if_visible` |
| `DeltaNodeStoreProofs` | theorems about `DeltaNodeStore` | |
| `EventLog` | a log as a value | operators |
| `MemoryHistory` | interpretations in a log | `log`; `AppendOriginal`, `Reinterpret`; `At` |
| `MemoryHistoryProofs` | theorems about `MemoryHistory` | |
| `Provenance` | the provenances that `make` returns | operators |
| `CanonicalHash` | the bytes hashed for a log of memory revisions | operators, one per overload |
| `HistoryDigest` | `MemoryHistory` and the digest of its log, compared with the logs one step away | |
| `WorldlineRegistry` | registry and the log that forks refer to | `log`, `records`; `Record`, `CreateRoot`, `Fork`; `PathsUp` is the loop of `lineage`, `Lineage` its result |
| `CheckpointReplay` | replay of a log from a checkpoint, as functions | `ReplayLog`, `MakeCheckpoint` |
| `Episode` | *composition*: the registry and checkpoints over one log | `log`, `records`, `checkpoints`; the registry's actions and `SaveCheckpoint` |
| `EpisodeProofs` | theorems about `WorldlineRegistry`, `Episode` and `CheckpointReplay` | |
| `Replay` | two logs side by side and the checkpoints made of each | `logs`, `checkpoints`; `Record`, `SaveCheckpoint` |
| `Comparison` | the five comparisons | operators |
| `QueryExecution` | AST and executor over `SnapshotView` | `EvaluateOperation` is a step of the loop of `Evaluate`; `Execute` adds the projection |
| `QueryOptimizer` | DSL and optimizer: a query grows, may be optimized, grows on | `graph`, `query`, `projection`; `Pipe`, `Optimize` |
| `QueryExplain` | required columns, counts, estimates, signature and plan | operators over the same state |
| `QueryProofs` | theorems about `QueryExecution`, `QueryOptimizer` and the columns of `QueryExplain` | |
| `TypeList` | lists of types | operators |
| `Schema` | a schema that is extended at either end, if the result compiles | `schema`; `AddNode`, `AddEdge`, `AddRule` |
| `MemorialSchema` | the schema of the project | constants |
| `SchemaProofs` | theorems about `Schema` | |
| `ProofLemmas` | induction over the natural numbers, loops, lists of ids, sorting | lemmas that several of the proofs share |

Conventions. A call that the code refuses leaves every object as it was, so a refusal is an action
that is not enabled; the inputs enumerated include the invalid ones, so the guards are exercised.
A C++ exception is an action of its own where it can leave something behind (`AdjacencyStore`,
`DeltaNodeStore`), and there an operation is a sequence of steps with a program counter `pc`; a
store has a single user, so properties are about the states between calls. `std::ranges::sort` is
not stable: sorting an index by time is a step to any order of its entries in which times do not
go down. A moved-from delta is
replaced by a fresh one at once, as no caller may use it otherwise. Every id type of 32 bits ends
at its `invalid_value`; the models have the same sentinel with a small value, so that running out
of ids happens in every run that appends.

A schema is built while compiling: a list of specs is only ever made from a shorter one by the push
and concatenation operators of `type_list.hpp`, so a schema is modelled as a value that grows, and a
static assertion that fails as an extension that does not take place.

Abstractions of data: outside queries a row has one property value, in queries one number per
property of its kind; payloads and generations are model values; the checksum of an event is the
event itself (no collisions), without its provenance, which the code leaves out too; the canonical
hash of a stream is the stream (no collisions), with numbers of one byte and tags of one byte. The
histogram is modelled over integers with exact arithmetic, and one value that is not finite; in
`QueryExecution` it is not looked at, since it only decides whether the executor uses an index:
*which predicates are looked up* is a parameter and `LookupsAreInvisible` ranges over all choices.

Definitions whose comment begins with *Mutant of* are faulty variants of the definition that
follows them. They are not used by any specification; they document which mistake each property
would reveal.

## Runs

No fairness is assumed and no liveness is claimed. The library does nothing unless called, nothing
obliges a caller to call, and every operation is straight-line code or a loop over what it was
given. The one loop that follows links in the data, `lineage`, is covered by a safety property:
`LineageIsARecordedPath` says that it ends at a root. `RowStore` and `BranchingViews` are refined as
safety specifications. Deadlock is checked except where the model really stops: full logs and
registries, and the bounds of `BranchBasis` and `Schema`.

| Run | Shows | Bounds and why they suffice |
|---|---|---|
| `MCLineage` | `IdsAreContiguous`, `EdgesWellFormed`, `EdgeEndsAreNumbered`, `TraversalIsExact`, `BranchesAddToParents` | a root and two more snapshots, so a grandchild or siblings; two node ids and two edge ids, so that edges lie in any layer, cross layers, and both kinds of ids run out; deltas made for one snapshot are offered to every other, so that an inherited end may come from elsewhere; with one root, the ids of roots start at 0 (the theorems cover the others, `MCQuery` reads one) |
| `MCTimes` | `SelectionIsExact`, `BranchKeepsInherited` | two points of time on both axes, two worldlines, two values, root and branch: rows that are not valid yet, not known yet or of the other worldline in either layer |
| `MCAdjacency` | `StoreConsistent`, `StatisticsCurrent`, `AppendsAreAtomic` | two nodes, two values, three edges: the same source again after failures, a column out of step shows |
| `MCNodeStore` | `ColumnsAligned`, `ReadyIndicesAreExact`, `EstimatesFollowTheRows`, `AppendsAreAtomic` | three rows, a numeric column and one that is not, intervals early and late on both axes: each index is the shortest somewhere, rows of equal times are sorted either way, a failed append leaves room for the next; the numbers 0 to 3, one far from them and a NaN put rows in the first, the last and inner buckets and leave columns without numbers, with one, or with equal ones |
| `MCHistory` | `VersionsFormALine`, `AtFollowsTheLine`, `PastIsStable`, `DigestTellsLogsApart` | five events, three times, two worldlines (two keys); logs of up to four events are compared with all that differ in one field of an event, of its revision or of its provenance (each field is varied by itself), in the order of two neighbours or by the last event; texts contain the bytes that mark optionals and texts in a stream. Leaving any field out of the stream is found; whether every length and mark in it is needed is not asked |
| `MCEpisode` | `LineageIsARecordedPath`, `LineageIsPermanent`, `ResumeEqualsFullReplay`, `StoppedReplayIsStable`, `ForkPointsAreRestorable` | three worldlines, three events of three payloads (one refused), two checkpoints: grandchildren, siblings, two forks at one event, a checkpoint made from another |
| `MCSchema` | `LookupsAreExact`, `EdgesJoinAllowedKinds` | four specs or rules added to the project's schema and to empty ones with and without rules: two kinds, an edge and its rule, and one spec that clashes with any of them |
| `MCQuery` | `LookupsAreInvisible`, `OptimizedIsEquivalent`, `OnlySelectorsFail`, `RequiredColumnsSuffice`, `PlanDescribesTheQuery` | all queries of four operations out of fourteen, over two kinds and a relation each way, on a root, on a branch, and on a root whose ids start above 0 with edges to ends that no layer numbers; four let a filter meet a filter, a limit or `top_k` before and after a traversal, and a query return to the kind it came from |

Two worldlines are interchangeable in the models, hence the symmetry sets. Bounds are named:
`MaxSnapshots` and `MaxRoots` (how many snapshots, and how many of them without a parent),
`MaxOperations`, `MaxCheckpoints`, `MaxSpecs`, `MaxCompared`, the widths `Word` and `Int32`, and the
`Invalid...` ids. Payloads of `MCEpisode` that the reducer takes are interchangeable as well. The
runs of `GraphSnapshot` have one delta variable: deltas do not share state, so a second one adds only interleavings of calls that
cannot observe each other; the theorems hold for any number of them.

Four runs show that what a document, an error text or a test says of the code does not hold in
general:

- `MCKnowledge`: a branch published with an earlier `known_at` than its parent shows inherited rows
  that were learned after the branch's `known_at` (`snapshot.hpp:316`; `README.md:68` and
  `docs/05-storage-time-worldlines.md:65-69` promise otherwise).
- `MCBasis`: `publish_branch` accepts a delta made for another snapshot with the same extents, and
  its edges then join other rows (`snapshot.hpp:365`; the error text and the test
  `RejectsBranchDeltaNotDerivedFromParent` promise otherwise).
- `MCForeign`: `replay` accepts a checkpoint of another log when the two logs differ before the
  anchor only (`replay.hpp:75`; the test `RejectsCheckpointFromADifferentLogPrefix`).
- `MCPhantom`: after a failed append `source_count` counts a node that no edge leaves
  (`adjacency_store.hpp:102` and `:60`; the test `BuildsRelationDegreeStatistics`).

## Proofs

`GraphSnapshotProofs` proves, for every schema, any sets of worldlines, intervals and times, any
number of delta variables and snapshots:

- `StoreIsWellFormed`: `StoreInvariant == TypeOK /\ IdsAreContiguous /\ EdgesWellFormed` always
  holds, and from it `TypeCorrect`, `IdsStayContiguous` and `EdgesStayWellFormed`. The three are
  proved together because none is inductive alone: that an edge keeps its ends needs bounded and
  typed extents; that a branch continues its parent's numbering needs the type of both.
  `StoreInvariantSplit` regroups the invariant by value (`DeltaOK` of each delta, `SnapshotOK` of
  each snapshot, stated by itself in `PublishedSnapshotsAreChains`), so that each action needs one lemma about the value that it makes
  (`AppendNodeOK`, `AppendEdgeOK`, `RootOK`, `BranchOK`, `BranchDeltaOK`, `FreshDeltaOK`).
- `EdgeEndsStayNumbered`: `EdgeEndsAreNumbered`, the ends of every published edge are rows of its
  chain. An end is below the extent of its layer; the first layer whose extent is above it numbers
  it, because that layer starts where the one before it stops (`BelowExtentIsNumbered`).
- `InheritedIsKept`: a branch answers for every inherited id as its parent does. It follows from
  contiguity alone: the branch's own layer numbers no id below the parent's extents, hence the
  same layer answers in both (`InheritedAnswers`).
- `IndexFindsEveryMatch`: each of the three indices lists every row that matches, so that it does
  not matter which one is the shortest.
- `SelectionStaysExact` and `TraversalStaysExact`, `SelectionIsExact` and `TraversalIsExact` of
  chains of any depth. One layer at most numbers an id (`OneAnswers`), and an ancestor sees of the
  ids below its extent what the snapshot sees (`AncestorSees`), so what the layers select one by one
  is what the snapshot shows (`SelectedAreVisible`, `EdgeListsFollow`); the lists follow one another
  because the ids of a layer are above those of the layers below (`LayersFollow`, `FlattenLayers`),
  and where the walk over the layers stops early, the layers passed so far have no edge of the node
  (`NoOutgoingBefore`, `NoIncomingBefore`).
- `PublishingAddsToParents`, the refinement `BranchesAddToParents`: every step publishes one chain
  of views or none (`StepPublishesAChain`); a snapshot shows a graph (`ViewIsGraph`) and what the
  snapshot below it shows with the rows of its own layer added (`ViewAdds`).

The proofs use `SchemaAssumption` and `CapacityAssumption` (relations join kinds, ids are natural
numbers), no other assumption, and no bound: `MaxSnapshots` and `MaxRoots` play no
part.

`SchemaProofs` proves, for any specs, rules, starting schemas and number of extensions:

- `SchemaStaysAccepted`: `Accepted`, that the schema is one and that all assertions hold of it, is
  inductive, because every extension is checked whole. The other three follow from it state by
  state: `TypeCorrect`, `LookupsStayExact` and `EdgesStayAllowed`. The argument behind them is that
  a list in which every type counts once has each type at one position (`UniquePosition`, by
  cardinality), so that the first match is the only match (`NodesAreFound`, `EdgesAreFound`), and
  that the exception `has_allowed_layer_relation` makes for missing ends never applies, because
  `has_known_endpoints` finds both (`KnownEndIsDeclared`).

They use `SpecAssumption` only: specs have lists of properties, and `NotFound` is none of them.

`AdjacencyStoreProofs` and `DeltaNodeStoreProofs` prove, for any rows, any number of property
columns, any room for ids, and whichever writes throw:

- `StoreIsWellFormed` and `NodeStoreIsWellFormed`, the inductive invariants. The properties speak of
  the states between calls only, so neither is inductive: the invariants say what is true at each
  step of a call. `ColumnsOK` gives the length of every column from `pc` and `at` (an entry more
  where the append has written and not yet taken back), with the entry it holds; `ListsOK` and
  `BuildOK` say the same of the maps and of the indices that are being built; `CallOK` says what a
  call has already been checked for, and that nothing is ready while one runs.
- From them `StoreIsTyped`, `NodeStoreIsTyped`, `MapsAgreeWithColumns` and `ColumnsStayAligned`, and
  `StatisticsAreNeverStale`.
- `StoreImplementsRowStore` and `NodeStoreImplementsRowStore`: `AppendsAreAtomic`. The step that
  completes the last write is the append of `RowStore`, the last step of the handlers is its
  failure, and the steps between stutter, because they change no entry of a row that counts.
- `IndicesAreExact`: `ReadyIndicesAreExact`. Ready indices are some sorted order of the starts of
  all rows (`ReadyOK`); what `std::upper_bound` cuts off is every row that starts by the point,
  whichever order rows of equal times are in (`UpperBound`, `FirstOfOrder`, `UpToIsPrefix`); so no
  matching row is missing from any of the three lists (`WorldlineListIsScannable`,
  `TimeIndexIsScannable`), the loop keeps those that match (`VisibleAreMatches`), and sorting
  different ids gives the one list in order (`SortedInOrder`).

`EpisodeProofs` proves, for any log, any number of worldlines and checkpoints:

- `RegistryIsWellFormed`: records and events are numbered by position, every parent has a smaller
  id than its child, and every fork names an event the log records on the parent. That parents are
  smaller is what makes the loop of `lineage` end, and no property says it; `LineagesAreRecorded`
  (`LineageIsARecordedPath`) and `LineagesArePermanent` (`LineageIsPermanent`) go along it by
  induction on the number of steps, `RegistryIsTyped` follows at once.
- `EpisodeRunsTheRegistry`: a registry with checkpoints is a registry, so its theorems carry over.
- `EpisodeIsWellFormed` adds that every checkpoint is what the reducer makes of the log up to its
  anchor (`CheckpointsOK`). Checkpoints are made of replays from other checkpoints, so
  `ResumeEqualsFullReplay` is not inductive without it. From it `ResumingIsReplaying`,
  `ForksAreRestorable`, `StoppedReplaysAreStable` and `EpisodeIsTyped`.

`MemoryHistoryProofs` proves, for any memories, perspectives, worldlines and times:

- `HistoryIsWellFormed`: events are numbered by position, recorded times never go back, and versions
  form a line. From it `HistoryIsTyped`, `VersionsAreLinear`, and `ThePastIsStable`: a later append
  is recorded later than the time asked about, so it is not among the events `at` looks at.
- `SelectionFollowsTheLine`: `at` takes the latest visible event by time and position; walking back
  from the latest version finds the same one (`WalkLeadsToLastValid`, by induction on the position).

`QueryProofs` proves, for any schema, any snapshots, any operations on them, and queries of any
length, optimized at any points of their construction:

- `QueryIsWellBuilt`, the inductive invariant `QueryInvariant`: each operation fits the kind of node
  that the ones before it lead to, every property it asks for is one of that kind, what the
  operations project is the projection, and what is projected in the end is among what they read.
  The properties say nothing of kinds, so none of them is inductive. `QueryTypeCorrect` follows at once.
- `LookupsStayInvisible` and `SelectorsAloneFail`, by `QueryOutcome`: whichever predicates are looked
  up, a query that is built right either fails as one of its selectors does or yields visible ids of
  its kind, the same ones. It goes along the operations (`ListInduction`), one lemma for each:
  an index misses no id whose row matches (`IndexHasTheChosen`), so what is retained of
  the smaller side is what a filter of the whole input leaves (`RetainingLosesNothing`,
  `WhereResult`); `top_k` puts a rank on every id once (`RankingType`); a visible edge has
  visible ends (`TraverseType`).
- `OptimizedStaysEquivalent`. `Alike` relates two lists of operations that have the same result on
  every snapshot, lead to the same kind and project the same keys. Every rewriting is shown to make a
  list alike: two filters fused (`FusedFilters`), two limits fused (`FusedLimits`), a filter passing
  a selector (`SelectorAndFilter`) and so passing all at the end (`PushedFilter`); hence
  `AppendedOptimized` and, along the list, `OptimizedIsAlike`. That operations which follow keep
  alike lists alike (`AlikeWithMore`) is what allows a query to go on from an optimized one.
- `ColumnsStaySufficient`. Snapshots that differ in values only show the same nodes and edges
  (`SameChains`, up to `SameOutgoing`), and if they agree on the columns that a query reads, it has
  the same result on both (`SameExecution`, again one lemma for each operation). A rewriting never
  reads less (the last part of `Alike`), and the report names all that is read
  (`RequiredColumnsHaveAll`: what is taken out of the list is in it a second time).

They assume of the snapshots what publishing leaves (`GraphAssumption`: the shape that
`PublishedSnapshotsAreChains` establishes, and rows with the properties of their kind), and of the
operations that each is one of the DSL's and a filter is piped with one predicate
(`OperationAssumption`). `MaxOperations` plays no part.

What these rest on is in `ProofLemmas`. The models write a loop as a recursive function; such a
definition says something only if there is a function like that, so each proof first shows there is
one (`Iteration`, `KeepingEnds`, and the `Turn` of each loop) and then goes along it. `Induction` is
stated of sets rather than of an operator, which the library's theorem asks for and the provers
cannot instantiate; it follows from the well-foundedness of the numbers (`LeastNatural`). That
sorting has a result, and one only, is `SortedInOrder`, by way of `ListedInOrder` and the counting
lemmas of the library.

The assumptions are those the modules state of their constants: ids and capacities are natural
numbers, sentinels are none of the valid values, the rows that callers pass are whole. No bound of a
run plays a part.

Only model-checked:

- `EstimatesFollowTheRows`: sums over sets of rows and of buckets, taken by folds.
- `DigestTellsLogsApart`: streams of bytes, by recursion over logs and texts.
- `PlanDescribesTheQuery`: counts and estimates of a plan are folds over operations and rows, and the
  community modules define folds by an operator that is a parameter, of which the provers know
  nothing. `unique_types` is a recursive function for that reason.

## Not modelled

- Of `query/explain.hpp`: the reasons, the candidates that are the same in every plan, and how the
  signature is mixed into 64 bits and printed.
- Of `runtime/canonical_hash.hpp`: floating-point values, the FNV mixing and hexadecimal printing.
- Of the DSL: that the value in a predicate can be compared with the type of its property.
- Of histograms: rounding, an overflow of the range (`delta_store.hpp:340`) and casts of midpoints to
  the type of the property (`:131`, `:141`); as they only choose a plan, no result depends on them.
- `meta/type_map.hpp` and `meta/fixed_string.hpp`: a tuple found by tag, a text as a template
  argument; and the types of property values.
- Node kinds without properties: the append of a row is modelled with at least one property column,
  as every kind of the project's schema has.
- Lifetimes of references and use of moved-from deltas.
- What the documents describe and the source does not have yet: compaction, GPU and SIMD kernels,
  frozen CSR stores, persistence.

## Plan

Done in this order, the core first: `DeltaStore`, `SnapshotView`, `GraphSnapshot` with its proofs;
`BranchingViews`; the two stores with exceptions and `RowStore`; the event log and what is built
on it; queries; histograms; two kinds and two relations in queries, and `explain`; the canonical
hash; registry and checkpoints composed over one log; schemas with their proofs.

Then the proofs about the two stores, the registry, checkpoints and histories; and those about the
chains of `GraphSnapshot`: selection, traversal and the refinement of `BranchingViews`.

Then the proofs about queries: that every query reached is one the DSL can build, and the executor
and the optimizer along its operations.

Then the columns of `QueryExplain`.

Next, to prove: `PlanDescribesTheQuery`, with the folds of `QueryExplain` as recursive functions.

Next, to extend the model: the branch snapshot of a worldline that the registry forked, composed
with `Episode`; two kinds and two relations in `MCLineage`.
