# Verification of ogeom-rs

ogeom-rs is a boundary-representation CAD kernel in Rust: solids, faces, edges
and vertices over curves and surfaces, with booleans, fillets, offsets, healing,
meshing and file exchange above them. Most of its lines are floating point
geometry, which a model checker cannot judge. What can be judged, and what
everything above depends on, is the small stateful core: the arenas that hand
out generational handles, the model that owns them and is edited, trimmed,
written and read back, the tolerances that nested attempts widen and put back,
the caches kept beside the topology, the worker pool that runs parallel stages,
the agreement between faces meshed side by side, and the records kept above:
what operations did to shapes, and the product structure of a document with its
undo. This project models that core in TLA+, checks it with TLC on small
instances, and proves the invariants that matter most with TLAPS.

Contents: the system (inventory), the modules, the runs, the proofs, findings,
what is not modelled, and the plan.

## 1. The system

Fifteen crates under `crates/`, five programs under `tools/`, three prototypes
under `outside/`. `docs/DATA_MODEL.md` is the normative description of the
data model.

| Part | Source | State it keeps | Operations | What makes it correct |
|---|---|---|---|---|
| Arena | `ogeom-core/src/arena.rs` | packed entries, map of scattered slots, free slots with generations, order flag | insert, remove, retain, clear, get, get_mut, iter_mut | a key means one value, then nothing for ever; the packed layout finds every entry |
| Provenance table | `ogeom-core/src/id.rs` | packed entries, last identity issued | record, forget, retain, get, roots | identities are never issued twice; an ancestry query ends at the roots that are left |
| Parallel stages | `ogeom-core/src/parallel.rs` | counter, finished parts, caught panic; thread-local `INSIDE` | map_ordered over a caller's pool | each item once, in item order; a panic reaches the caller; thread-locals are put back; every call ends |
| Progress watches | `ogeom-core/src/progress.rs` | thread-local `ACTIVE`, cancel flag | watched, snapshot, with_snapshot, checkpoint, cancel | a checkpoint answers the watch of the request it works for |
| Model: tolerances | `ogeom-topo/src/model.rs` | tolerance per node, journal `widened` | add_*, widen, node_mut, note_widened, undo_widened, keep_widened | a boundary is at least as loose as what it bounds; an attempt undone leaves no trace |
| Model: document | `model.rs`, `ogeom-io/src/native.rs` | nodes, geometry, provenance, identities | set_derived, retain_reachable, write, read, read_into, absorb, compacted | handles keep their meaning; a written shape reads back; lineage stays complete |
| Model: what is kept | `model.rs`, `kept.rs`, `entity.rs` | face boxes, kept reads, `held` marks, links up | kept_face_box, kept_read, node_mut, unshare, unshare_each, absorb, clone, retain_reachable | what is kept is never stale; an edit of a shape does not reach another shape |
| Shapes, orientation, traversal | `ogeom-topo/src/shape.rs` | none: a value of node, placement, orientation | compose, reverse, iterate | orientation is a monoid action; traversal composes both |
| Locations | `ogeom-topo/src/location.rs` | none: a chain of datums and powers over a store of datums | then, inverted, composed, raised | joining chains means multiplying their transforms, whatever merges, cancels or does not fit; a placement and its inverse cancel exactly |
| Rounding ladder | `ogeom-fillet/src/fillet.rs` | marks in the journal, junctions to try | fillet_edges and the attempts below it | each attempt starts from the solid as it was given |
| Operation history | `ogeom-algo/src/history.rs` | what each input generated, was modified into, which were deleted, which images are copies | generate, modify, copy, delete, then, followed_by, trace | composing step by step, afresh or in place, tells the same; what it tells agrees with the lineage the model records |
| Document structure | `ogeom-doc/src/structure.rs` | table of parts and assemblies, states kept for undo, how many are ahead, the limit | add_part, add_assembly, add_instance(_at), replace_part_shape, checkpoint, undo, redo, set_undo_limit, occurrences_of | nothing is placed below itself or missing, in any state undo may bring back; undo and redo change no state; a flattened part stands where its placements say |
| Meshing | `ogeom-mesh/src/triangulate.rs`, `attach.rs` | per call: chords agreed for each edge, meshes, faces short; across calls: `FaceMeshCache`; on the model: polylines, meshes and paths | face_meshes (first pass, asks, settling rounds, last pass), tessellate | meshes meet along shared edges; a kept mesh is of its face at its chords; what is stored fits together, also after a stop |
| Geometry and algorithms | math, geom, intersect, algo, bool, fillet, heal, offset, mesh, hlr, io | mostly none | numeric constructions | numeric |

How they interact. Every store of a model is an arena. A model is used in
turns: exclusive operations (`&mut Model`) build, edit, widen, trim or absorb,
and shared ones (`&Model`), possibly from several threads at once, query it and
fill the boxes and reads it keeps. Booleans, fillets, healing and meshing sit
above: they open an attempt (`note_widened`), widen what the numerics require,
and put it back or keep it; at the end they mark the nodes a result shares with
its inputs (`note_held`, `ogeom-bool/src/lib.rs:15968`). Editors that change
nodes in place ask for nodes of their own first (`unshare`: meshing, healing,
`algo/check.rs`, `algo/history.rs`; `unshare_each`: `algo/sew.rs`). Expensive
loops over faces call `map_ordered`, whose workers read the same model and
answer the request's watch. Meshing is such a loop, several times over: draw,
ask for finer chords, draw again; `tessellate` then writes edge by edge and face
by face. Operations above tell their caller what became of what (`History`) and
record in the model where each result came from (`set_derived`), each for itself.
A document holds products over shapes of one model, whose datums its placements
name. Writers walk what the roots reach; a reader gives
`ModelParts` to `from_parts` or, into a live model, to `absorb`.

Where it is hard:

- *interleavings*: copies of a stage that start late, steal, panic or are
  cancelled; readers that look for a box and store it while another does, or
  while the model is cloned; two faces of like content meshed at once through one
  cache;
- *nesting*: a stage called inside a stage; attempts within attempts over one
  journal, where only the outermost closes it;
- *failure part way*: an absorb refused after its nodes were appended; a panic
  in one item; a rounding refused after it widened and rewrote surfaces; a
  tessellation stopped between two faces;
- *staleness*: a key kept past a removal; a box found before a surface was
  rewritten; an identity reissued; a product id kept over an undo; a mesh drawn
  to a chord a neighbour has since refined;
- *boundaries*: a generation that has run out, a run of gaps in a file, the
  last slot of a scattered prefix, powers that do not fit their width, settling
  rounds that run out.

There is no persistence besides writing a file, no network and no message
passing, so crash recovery and message loss do not arise. `PROJECT.json` lists
each hazard at its line with the properties that cover it.

## 2. The modules

An action is one operation, whole: `&mut self` makes an exclusive operation
atomic to everybody else. Where the code lets go in the middle (a reader between
finding and storing, a copy between taking an item and pushing its part, an
attempt between its mark and its end) the model has one action per piece.

### Arena (`HandleTable`, `Arena`, `MCArena`, `ArenaProofs`)

`HandleTable` is the promise: handles, the value of each, and insert, set and
drop. `Arena` is the code: `entries` packed in a sequence, `tail_at` where the
run found by arithmetic begins, `scattered` from slot to position, `free`,
`next_slot`, `ordered`, `scope`. `InsertReused`/`InsertFresh` are the two halves
of `insert`; `Remove` takes the shift or swap path; `Retain` sorts when the
order is known to be broken, rebuilds the map and finds the tail, and is
`clear` when nothing is kept; `SetValue` is `get_mut`, `IterMut` is `iter_mut`
with the sort it may do. `Bumped` saturates at `MaxGen`, which stands for
`u32::MAX`: a slot whose generation has run out is not freed. `Arena`
implements `HandleTable` under a mapping that reads each key by `Get`.

### Provenance and operations (`Provenance`, `History`, `Operations`, `MCOperations`, `ProvenanceProofs`)

`Provenance` is the packed table: entries ascending, the gapless run found by
arithmetic (`TailPosition`), the ones before by search. `Packed`/`RunsToLast`
are the two halves of `retain`: drop, then count the run anew. `roots` walks the
ancestry with forgotten identities in it.

`History` is `history.rs` as operators over records: what each input generated
and was modified into (sequences, since order is kept), which were deleted and
which images are copies. `then` composes afresh; `followed_by` composes in place,
reworking only the inputs the later step reaches (`Reached`).

`Operations` composes the two. A shape is its place in a list and carries an
identity; a step of an operation makes a shape, records it and tells of it, as
the code it is named for does: `Rebuild` (`duplicate`, the rebuilt face of a
sewing), `Settle` (a face left as it is, told as a copy of itself and derived
from itself), `Sweep`, `Unshare` (a new node with the old identity), `Join` (a
boolean: told as modified, recorded as nobody's), `Lose`. `EndOperation` closes
a history and opens the next; entities are dropped between operations (`Table`).

### Parallel stages and watches (`ParallelMap`, `MCParallelMap`, `ParallelProofs`)

Each thread has a stack of frames: a call that waits, that takes items itself,
that runs inline, or a copy started by the pool. A step of a thread is one
step of its top frame. The pool is external (trait `Pool`): it may start up to
the copies asked for, late or never, on idle threads, and when it steals also on
a thread that waits for a stage of its own. `f` may panic, may reach a
checkpoint of a cancelled watch, and on one item may call another stage.
`INSIDE` and `ACTIVE` are thread-locals set and restored by guards. What copies
bring back is one list of parts in the order they arrived; the call's output is
that list rearranged into the order of its items. The
announcements a stage makes to its watch carry no state and are left out.

### Tolerances (`WidenJournal`, `TentativeTolerances`, `ModelTolerance`, `MCModelTolerance`, `ToleranceProofs`)

`WidenJournal` is the mechanism alone: mark, note, undo, keep. `ModelTolerance`
adds the nodes, the builders, `widen` and `node_mut`; an operation holds its
marks as a stack (`attempts`). `TentativeTolerances` is what an operation
expects: a stack of saved tolerances, of which undo restores the last.
`ModelTolerance` implements it. Tolerances are numbers from `MIN`; all the code
does to them is compare and take the larger.

### Rounding (`WidenJournal`, `Rounding`, `MCRounding`, `ToleranceProofs`)

The ladder of attempts `fillet_edges` makes: exact and then fitted rims
(`with_fitted_rims`), crossed, flush and no junctions
(`fillet_edges_meeting_with`), and the seated cuts of the boolean within an
attempt. The two ladders and the cut each hold a mark of their own over the one
journal, and building may write a marched seat's surface back. How a band is
built is numeric: it answers built, refused or stopped.

### Documents (`ModelDocument`, `MCModelDocument`, `DocumentProofs`)

Three kinds of node tell apart what the code treats apart: a vertex with its own
data, an edge with geometry in another store and an identity, a compound over
anything. `RetainReachable` drops everything the roots do not reach from four
tables at once. `Written` is the file a set of roots makes, `ReadInto` is
`read_into` with `absorb`: identities recorded and nodes appended *before* the
checks, as in the code, then identities committed, roots bound and gaps
forgotten. `litter` records what a failed read left behind, which no caller can
name. `Compact` is `compacted`: written, and read into a fresh model. `Damages`
says what is wrong with a file: nothing, a root, or a child that is not there.

### What a model keeps and shares (`ModelKept`, `MCModelKept`, `KeptProofs`)

Shells over faces over edges over vertices, with the links up from children
that let `node_mut` find the faces above a node. Readers run in pieces:
`AskBox` then `StoreAny` and `InitBox`; `AskRead`, `Walk`, `KeepRead`. A clone
is in two pieces too, since it copies the boxes while readers still fill them.
`Begin`/`Insert`/`End` are an operation that makes nodes over what it was given
and marks what it shares. `Unshare` copies what others hold of a shape;
`UnshareEach` is how an operation begins that edits what it is given, and goes on
with the copies as with nodes it made (`sew_with`, `on_own_nodes`);
`ReadInto` is `absorb` of the document of one shape, whose links are made once
all its nodes are there, since a child may come after its parent;
`NodeMut`, `Widen`, `UndoWidened`, `RewriteSurface` and `RewritePcurve` are
the edits, and `RetainReachable` the trim. What a reader finds is defined by
what it depends on: a box on data and surfaces, a read on data, surfaces,
pcurves and tolerances.

### Product structure (`Locations`, `Timeline`, `ProductStructure`, `Occurrences`, `MCProductStructure`, `StructureProofs`)

`Locations` is pure: chains of datum and power, joined end to end (`Then`,
`JoinedOn`), inverted, and composed into a transform by repeated squaring.
Powers have a width: two that do not add up are left side by side, and the
lowest has no opposite. A transform is a rearrangement of points, which
compose, invert and do not commute: three of them in the runs, any set in the
proofs.

`ProductStructure` is the document: a table of parts and assemblies, and the
states kept. Callers may name any product id, also one from a state undone
since. `AddInstance` makes its datum before it looks the assembly up, so a
refusal leaves the datum. `Undo` and `Redo` swap the present state with a kept
one. `Timeline` is their promise, a line of states; `ProductStructure`
implements it with what lies before the present as `past` and the rest as
`future`.

`Occurrences` is `flatten`, a recursive function of its `Visits`: a product, the
placements above it, and the way down to it as the instances taken. What it is
held against is the ways themselves, `PathsFrom`: sequences of instances from a
product to a part, no longer than there are products, with the transforms met on
the way multiplied in order (`StandsAbove`, `StandsAt`).

### Meshing (`FaceMeshes`, `Tessellate`, `MCTessellate`, `MeshProofs`)

`FaceMeshes` is `face_meshes` with the cache. A stage is a set of jobs; a job is
taken in order by up to `Threads` threads (`Look`, which reads the cache under
its lock and lets go), drawn or asked without the lock, and stored (`Draw`,
`Ask`). Between stages the caller joins: `EndFirst`, `EndAsk` (`refine_short`:
merge what was asked, find the edges whose chord changed and the faces across
them), `EndSettle`, `EndLast`. A chord is a level of refinement, a mesh is what
it was drawn from and how it came out. What geometry answers is chosen when it is
first asked and remembered (`geometry`), since drawing is a function of what it
reads: that is what makes a stale or mixed-up mesh visible. `Cancel` fails every
job not taken yet.

`Reads` is what drawing a face depends on, `MeshKey` what a mesh is kept under,
and they are not the same. Drawing asks the surfaces across the face's edges
which way they face (`rim_holds`, `Across`); the key has of them only that there
is another. The key has the polylines the edges carry (`onEdges`), which drawing
does not read. A face an edge of which carries a path through a mesh has no
content that can be read (`Unread`): it is drawn and not kept (`Keeps`).

`Tessellate` stores: lines edge by edge, which drops the edge's paths, then
meshes face by face with a path for each edge whose points are corners of the
mesh (`Walks`). `Stop` may come between any two. Faces are the places a
traversal of the shape meets, and `NodeOf` gives each its node: a face held
twice is drawn and stored once for each place, the second mesh taking the node
from the first while the paths into the first stay. Ids are a place and a call,
so a replaced mesh is told from the one there. `MeshFaces` also meshes the
model's own shape, whose edges then carry what was stored on them (`Carried`).

## 3. The runs

Twelve runs; `PROJECT.json` gives each its properties, and each property of a
passing run is shown to be breakable by a plausible change of the code.

| Run | Question | Bounds and why they suffice |
|---|---|---|
| `arena` | Does the packed layout behave as a table of handles? | 4 slots, generations 0 to 2, two interchangeable values. Four slots are the fewest with a scattered prefix, a removal inside it, a refill and a tail; generation 1 is a slot used again, generation 2 one that has run out and is handed out no more |
| `provenance` | Are identities found, and found right, after any forgetting? Do composed histories tell the same however composed, and what the lineage says? | 4 identities: a gap below, inside and at the end of the run. Three shapes, three operations in a chain, three things told in all: the fewest that bracket two ways; one trim between operations |
| `parallel` | Do stages compute each item once, deliver panics, restore thread-locals and end? | two threads, three stages of two items: `outer` and, inside its first item, `nested`; `other` on either thread; two items may panic; stealing on |
| `tolerances` | Do boundaries stay loose enough and attempts leave no trace? | two vertices and edges, a wire and a face without attempts; a vertex and an edge with attempts three deep; three tolerances |
| `rounding` | Do seated cuts put back what they widen, and does a request get an answer? | one node, three tolerances, one rewritten surface: every rung of the ladder and every way to leave it |
| `rounding_journal` | Is the journal closed between operations? (no: finding 1) | as `rounding` |
| `documents` | Do handles, roots and files keep what shapes mean, and does lineage survive? | 4 slots and 2 curves; either one compound and 2 identities (shallow documents of every shape), or no compound, 2 slots and 4 identities (derivations of derivations, with gaps in the file); files undamaged, with a bad root, with a missing child |
| `documents_whole` | Does a model written whole read back after a failed read? (no: finding 2) | one damage |
| `documents_compacted` | Do identities left out of a compacted model stay issued? (no: finding 3) | two identities |
| `kept` | Are boxes and reads ever stale, and are edits confined to one shape? | two readers, 4 built nodes and up to 3 copies, one change; see below |
| `structure` | Can every state be walked, do undo and redo keep the line, do parts stand where placements say? | 3 products, 3 instances (2 where there are datums), 2 datums that do not commute, made in one order; powers -4 to 3, a file's powers -1 and 2, so that sums merge, cancel and do not fit; 2 states kept, limits 2 and the 1 that 0 means |
| `meshing` | Do meshes meet and belong to their faces, and does what is stored fit? | a face held twice and a neighbour that shares its edge and has one of its own, so a change at the neighbour crosses to both places; two builds, one where the two places lie on each other; chord levels 0 to 2, one settling round, two threads, two calls, two interchangeable deflections, at most two answers out of the ordinary (a narrow, short, empty or failed face, a cancelled watch) |

`kept` is the largest. `MCModelKept` bounds it as follows, none of which
removes a step of the code. Builders make at most one vertex and two vertices
and edges together, lower kinds first within an operation (additions commute),
and leave nothing unreachable when the operation ends. Boxes and reads have no
state in common, so a run keeps one or the other. Only vertices and edges are
changed (a change of a face is the shorter case of the same walk up), only
faces and shells are read. Edits happen between operations. An operation begun by
copying ends there, or joins the copies in a shell. Three shapes at a
time are allowed where nothing is kept, which is where sharing matters.

`structure` keeps states only in documents without placements: undoing never
looks at a placement. `meshing` (`Bounds`) follows a tessellation by a
tessellation and a cached call by a cached call, since a tessellation goes
through no cache and a caller's meshes are stored nowhere. The two meet in the
polylines and paths the edges carry, so the model's own shape is also meshed
through the cache once it was stored, with one answer out of the ordinary at
most. Jobs that go through no cache share nothing and are taken one at a time.

Deadlock is checked in the rounding runs. In the others a run may stop because a
bound is reached, and their configurations say `CHECK_DEADLOCK FALSE`; that a
parallel stage never hangs is `EveryCallEnds`.

**Fairness.** `parallel` assumes weak fairness of each thread's own step: a
thread with something to run runs it. Nothing is assumed of the pool (a copy
may never start), nor of who calls, which is why `EveryCallEnds` shows that the
caller computes whatever the pool leaves. `rounding` assumes weak fairness of
its steps and strong fairness of an attempt's answer: an attempt is a finite
construction, which cuts cannot postpone for ever. All other runs check safety
only.

The properties that say most:

- `OrderClaimHolds`, `StaleKeysStayStale`, `ImplementsHandleTable` (`Arena`): no
  sequence of removals, refills, packing and sorting lets a key find another's
  value.
- `AnswersWithItsOwn`, `RootsSurvive` (`Provenance`): lookups never answer with
  a neighbour's entry, and packing a table whose ancestries still answer leaves
  every query for roots as it was.
- `ThenAssociates`, `FollowedByAnswersAsThen`, `ImagesKeepTheirOriginals`
  (`Operations`): histories tell what became of a shape, that it is gone and what
  it made alike however a chain is bracketed or composed; and what a chain says
  a shape became resolves by lineage to the shape's own originals.
- `EachItemOnce`, `OutputInItemOrder`, `PanicReachesCaller`,
  `ThreadLocalsRestored`, `CopiesAnswerTheirWatch`,
  `EveryCallEnds` (`ParallelMap`).
- `Contained`, `OpenWhileAttempting`, `ImplementsTentative` (`ModelTolerance`):
  containment survives undoing, although undoing lowers tolerances one node at a
  time and nodes made meanwhile stay.
- `CutPutsBack`, `ExactStartsAsGiven`, `RequestAnswered` (`Rounding`).
- `RootsReadBack`, `HandlesKeepTheirMeaning`, `RetainKeepsRoots`,
  `TakenInAsWritten`, `LineageComplete`, `DerivedFromEarlier`
  (`ModelDocument`).
- `KeptBoxesAreFresh`, `KeptReadsAreFresh`, `UnsharedIsAlone`,
  `OnlyEditsChangeShapes` (`ModelKept`).
- `EveryStateStandsAlone`, `ImplementsTimeline` (`ProductStructure`): ids kept
  over undone states cannot make a product contain itself, now or after a redo.
  `OccurrencesArePaths`, `PlacementAboveIsTold` (`Occurrences`): one occurrence
  for every way down, standing where multiplying the placements puts it; and the
  way the documentation tells a caller to recover the placement above a part,
  except over a power with no opposite, comes to the right transform always and
  to the right chain where that chain was settled: no two neighbours in it could
  still be added up. Moving a sub-shape by it puts it where the occurrence has it.
- `MeshesMeetAlongEdges`, `MeshesAreTheirFaces`, `SettledChordsAreDrawn`
  (`FaceMeshes`): whatever asks, failures and rounds run out, two meshes handed
  out share the chord of a shared edge; a mesh handed out, kept or drawn, is of
  its face's content, deflection and pass, and beside the surfaces across its
  edges now unless it may come from the cache (see 5).
  `WholeTessellationHasNoGaps`, `PathsWalkTheirMesh` (`Tessellate`): however
  tessellations stopped, a stored path fits the edge's polyline and is into the
  mesh its face carries, or into one of the same tessellation that a later place
  of the face replaced (see 5).

## 4. The proofs

All with TLAPS, for every value of the constants. Every proof of an invariant
goes the same way: `Init => IInv`, one step per action of `Next` for
`IInv /\ [Next]_vars => IInv'`, and PTL at the end.

| Module | Theorem | Says |
|---|---|---|
| `ArenaProofs` | `TypeCorrect` | the state stays well formed |
| | `LayoutFinds` | the search the layout calls for finds every entry |
| | `OrderClaimIsTrue` | `[]OrderClaimHolds` |
| | `GenerationsAlwaysMoveForward` | a waiting slot waits once, at a generation above every key issued for it |
| | `StaleForEver` | `StaleKeysStayStale` |
| | `Refinement` | `Arena` implements `HandleTable` |
| `ProvenanceProofs` | `TypeCorrect` | the table stays well formed |
| | `EachAnswersForItself` | `[]AnswersWithItsOwn` |
| | `RootsAlwaysSurvive` | `RootsSurvive` |
| | `InPlaceAsAfresh` | `[]FollowedByAnswersAsThen` |
| | `BracketsDoNotMatter` | `[]ThenAssociates` |
| | `OperationsKeepTheTable` | `Operations` implements `Provenance` |
| | `ImagesAlwaysKeepTheirOriginals` | `[]ImagesKeepTheirOriginals` |
| `ParallelProofs` | `TypeCorrect` | frames, copies, claims and outcomes stay well formed |
| | `ItemsRunOnce` | `[]EachItemOnce` |
| | `OutputOrdered` | `[]OutputInItemOrder` |
| | `PanicResumed` | `[]PanicReachesCaller` |
| | `LocalsRestored` | `[]ThreadLocalsRestored` |
| | `CopiesAnswer` | `[]CopiesAnswerTheirWatch` |
| `ToleranceProofs` | `TypeCorrect` | every tolerance is one; a closed journal is empty |
| | `BoundariesContain` | `[]Contained` |
| | `JournalOpen` | the journal is open exactly while an attempt is under way |
| | `Refinement` | `ModelTolerance` implements `TentativeTolerances` |
| | `RoundingTypeCorrect` | tolerances, journal and marks of a rounding keep their types |
| | `ExactAsGiven` | `[]ExactStartsAsGiven` |
| | `CutUndoneIsPutBack` | `CutPutsBack` |
| `KeptProofs` | `TypeCorrect` | nodes, places of boxes, reads and readers stay well formed |
| | `BoxesAreFresh` | `[]KeptBoxesAreFresh` |
| | `ReadsAreFresh` | `[]KeptReadsAreFresh` |
| | `ShapesOutliveSteps` | `OnlyEditsChangeShapes` |
| | `SharedIsHeld` | what two shapes share lies below a marked node |
| | `UnsharedStandsAlone` | `UnsharedIsAlone` |
| `DocumentProofs` | `TypeCorrect` | the tables of a model agree with one another |
| | `LineageIsComplete` | `[]LineageComplete` |
| | `DerivesFromEarlier` | `[]DerivedFromEarlier` |
| | `RootsAlwaysReadBack` | `[]RootsReadBack` |
| | `RetainAlwaysKeepsRoots` | `RetainKeepsRoots` |
| | `HandlesAlwaysKeepTheirMeaning` | `HandlesKeepTheirMeaning` |
| | `AlwaysTakenInAsWritten` | `TakenInAsWritten` |
| `StructureProofs` | `TypeCorrect` | products, states kept and the count of those undone stay well formed |
| | `StatesStandAlone` | `[]EveryStateStandsAlone` |
| | `Refinement` | `ProductStructure` implements `Timeline` |
| | `PlacementsNameDatums` | every placement kept names datums there are; a part's is one entry at most |
| | `FlatteningFindsEveryWay` | `[]OccurrencesArePaths` |
| | `AboveCanBeTold` | `[]PlacementAboveIsTold` |
| `MeshProofs` | `TypeCorrect` | meshes, chords and what is stored stay well formed |
| | `MeshesMeet` | `[]MeshesMeetAlongEdges` |
| | `MeshesOwn` | `[]MeshesAreTheirFaces` |
| | `SettledDrawn` | `[]SettledChordsAreDrawn` |
| | `NoGaps` | `[]WholeTessellationHasNoGaps` |
| | `PathsWalk` | `[]PathsWalkTheirMesh` |

**Arena.** `ArenaAssumption`: `Absent` is no value, `UNSCOPED` no scope, the
bounds are naturals. The invariant is `TypeOK`, `Layout` (the map and the tail
describe `entries` exactly), `FreeSlots` (waiting slots are distinct and
empty), `IssuedKeys` (every issued key is at or below its slot's generation)
and the order claim. The layout alone is not inductive: a refill is right only
because the slot it refills is empty, and staleness holds only because
generations of waiting slots lie above every key issued for them. `Refinement`
follows from showing what each operation does to `Get` of every issued key.

**Provenance.** The bound on identities is a natural. The invariant is `TypeOK`,
`Ascend` (entries ascend), `TailRuns` (past `tail_at` they run gapless to the last
identity issued), `Hold` and `Complete` (an entry is what its identity was
recorded with, and there is one for every identity not dropped). The search
answers truly only because entries ascend, the arithmetic only because the run
is gapless to the end; packing must keep both, which is the work of the proof.
For the roots it takes in `SourcesOlder` too: what is derived from is older, so
the walk of an ancestry ends, and `Ancestry` is the least set that holds an
identity and the sources of each it holds.

**Histories and operations.** No assumption beyond `Provenance`'s.
`HistoriesStand` says what a history that was told is: lists of shapes, none
empty where a shape was modified, and no shape both modified and gone. Composed
histories are `Plain` besides. That two ways to compose answer alike comes down
to one fact about gathering lists along a list, that it associates, and to
showing that the shortcuts of `followed_by` leave out only what would not change;
the order of what was generated is told apart from the set (`SameMembers`), as
the property does. `EntitiesStand` makes each step of an operation a step of the
table; through that refinement the invariants of the table hold of operations.
`PairsStand` says of every pair told that the image's originals lie among
the original's own (`Leads`), where `Originals` reads the recorded lineage and so
never changes; that the table's answer for roots is those originals while
nothing on the way is forgotten is a property of what is left of the table.

**Parallel stages.** `ParallelAssumption`: a stage has one caller and is nested
within at most one stage, and there is an item at least. The invariant is about
frames: `CallsStand` (the call of a stage stands on one thread, copies of it
only while it waits), `ClaimsHold` (an item in hand was claimed once and has not
run), `ClaimedOrDone` (a claimed item ran or is in hand, unless a panic skipped
it), `PanicKept` (the waiting call knows of every panic), `LocalsChained` (each
frame found the thread-locals the one below it left, which is what makes
restoring them right in any nesting), `ValuesApart` and `ValuesKept` (a computed
value lies in one place and is not lost on the way to the call),
`IdleUntouched`. Each property follows from its part, none is inductive alone:
no item is run twice because a claim is above every earlier one, and a stage
returns all of them because its copies have ended.

**Meshing.** `FaceMeshesAssumption`: faces and edges are numbers, a face walks
edges, the contents are faces' contents, and places of one node have the same
edges and surface; `ModelAssumption`: what the model starts with is one that may
be built. `MeshingInv` says of jobs, results and meshes which chords they were
drawn to (`ComputedStand`, `ResultsStand`), that the agreed chords part from
those drawn to at changed edges alone (`ChordsStand`, which is why redrawing the
faces across them is enough), and that what the cache holds came out as drawing
it did and `Fits` its key: content, deflection, chords and pass, not the
surfaces across (`CacheStands`). A mesh beside other surfaces than the face has
now can therefore be one of the cache only. `StoredInv` adds how far a storing
has come (`StoringStands`: every path is of this call and of a place before
those left) and dates each node's mesh by the call and the place it came from
(`MeshesDated`). That a path into a replaced mesh still fits comes from
`StoredAlike`: two places of a node walk the same edges, at the same chords.

**Tolerances of a solid being rounded.** `RoundingAssumption`: there is a
tolerance, the bounds are naturals. `ExactStartsAsGiven` is about attempts that
failed before; the invariant is what their marks would put back: with exact rims
the journal is open and goes back to the solid as it was given from the outer
mark (`OuterStands`), the inner ladder holds the same mark of a journal it did
not open (`InnerStands`), a cut goes back to where it began, above the round's
mark (`CutStands`), surfaces are as given or were taken note of first
(`SurfacesStand`).

**Tolerances.** `ToleranceAssumption`: `MIN` is positive, the bounds are
naturals. `Contained` is not inductive, since `undo_widened` lowers tolerances.
The invariant says of each mark what putting back from there would give:
`SavedContained` (the tolerances put back from any mark are contained),
`NotedNodes` (only what carries a tolerance is noted), `MarksInOrder` (an
attempt within another was marked no earlier), `Stratified` (a node holds
earlier nodes of the kind below its own) and `OpenWhileAttempting`. `Refinement`
maps the journal to a stack of saved tolerances by `PutBack`. Both components
rest on the same lemmas about the journal: noting what a call changes, or
putting back to one mark, keeps what every earlier mark goes back to. The calls
that noted a node have an earliest, the one putting back ends with, since the
naturals are well founded.

**What is kept.** `KeptAssumption`: at least one read is kept, the bounds are
naturals. The invariant is `Graph` (kinds in order, what edges and faces are
made of knows what holds it, each face's place for its box its own), `Drawn` (a
box is the one found against the surfaces of one revision, which the books say),
`ReadsStand` (the slots a read is forgotten by hold, with a node that is there,
all the node is made of, so an edit below the shape meets one of them), and the
same of what is under way: `ReadersStand` of a reader between its steps,
`ClonesStand` of a clone that has copied some of it. `Books` ties the counters
together: a box is forgotten by comparing revisions only if none runs ahead.
Freshness of a read is not inductive without the slots: what is put together
from sets kept for other shapes is right because those sets are closed too, also
over slots freed and handed out again. A meaning is defined down the children,
and that there is one is proved level by level, since kinds are ordered.

`OnlyEditsChangeShapes` follows from `Graph` and from what each operation leaves
alike below the shapes that stay. `UnsharedIsAlone` needs an invariant of its
own: `Shared` says that what two shapes share lies, below either, below a
marked node (`Sharing`), and that an operation under way has made nodes only of
what it made itself and of what lies below the shapes (`Making`). The second
carries the first over the operation's end, where the older nodes first met
below its result are marked; unsharing copies all that lies below a mark, and
what it repoints lies below no other shape.

**Documents.** `BoundsAssumption`, `DamagesAssumption`. `LineageComplete` needs
`Reach` to be closed, which is proved from its definition as a least closed set,
and the offset of a read to be at or past every identity there is.
`DerivedFromEarlier` needs both tables to be ascending before they are joined.
What a shape means is defined down its children; that this is well defined, and
the same wherever equal shapes stand, is proved by taking the lowest place where
two readings would part. It takes two facts kept by every step: `ShapesStand` (a
usable shape is made of older usable ones and of geometry that is there) and
`LitterLast` (nodes can be ranked above their children, litter of failed
readings above all, because a damaged link may come to resolve to a node made
later). Writing, reading and absorbing renumber, so those theorems are about
`Rank`: that it is one to one onto what is kept, and its inverse.

**Structure.** `StructureAssumption`. That a table can be walked is kept because a
set of products closed under placing that leaves the assembly out witnesses that
the assembly is not below what is placed; the set `contains_product` walks is such
a witness when it answers no, and adding the instance leaves it closed. Kept
states enter the present only through undo and redo, so the invariant is of all
of them at once. The refinement is arithmetic on where the present stands in
`history`, and each operation that swaps, cuts or trims it.

**Placements and flattening.** `LocationsAssumption`, that there is a power of one.
Points may be any set, infinite too, so a transform is a bijection. Powers by
squaring are shown to be those by repetition (`RaisedNext`), and then to add up
over both signs (`PowersAdd`); so merging two entries, dropping a pair that
cancels and leaving apart two that do not fit each leave what a chain comes to
(`JoinedComposes`), and joining chains multiplies their transforms
(`ThenComposes`). That needs chains that name datums there are, which is
`PlacementsStand`, the invariant of `PlacementsNameDatums`: datums are never
undone, so states kept stay placed.

Flattening is a recursion over the structure, which ends because what an assembly
places reaches less far than it does: `Rank` is how many products are below one,
and falls on the way down (`RankFalls`) in a table that stands alone. A function
that is right down to each rank exists (`RoundsSettle`), so the one the definition
chooses is right everywhere (`FlattenedIs`). What each visit comes to is `Finds`:
the parts on the ways that go on from it, all of them, each standing where its way
puts it, no way twice. A part's way does not go on; two instances of an assembly
differ in the ways below them at the instance taken. At the root the ways are all
of them, and that they are as many as the occurrences is a bijection.

`PlacementAboveIsTold` was first stated of every chain, entry for entry. The proof
stopped where the chain above has two neighbours that would fit together but were
never joined to one another: 2 and 2 kept apart by a greatest power of 3, and then
-1, leave 2 and 1; a part at -1 below them takes the 1 away, and its inverse comes
back merged into 3. No instance of three products gets there, one of four does.
The property now says which of the two, transform or chain, holds when; of
sub-shapes it says that they stand where they should (see 5 for their chains).

**Induction.** The library's induction theorems take an operator, which the
provers cannot instantiate. Where a proof is by induction over data (a walk, a
ladder of rounds, a meaning) it is by the least element of a set of
counterexamples instead, from the well-founded order of the naturals.

**Only model-checked.** Liveness (`EveryCallEnds`, `RequestAnswered`) is beyond
the prover. Every other property of a passing run is a theorem.

## 5. Findings

1. *An early return leaves the journal open* (`fillet.rs:467`, run
   `rounding_journal`). `has_cone_rim` is asked with `?` between `note_widened`
   and its end; on an edge with no curve both the round and the question fail,
   nothing closes the journal, and `retain_reachable` refuses the model from
   then on.
2. *A failed absorb poisons writing the whole model* (`native.rs:177`, run
   `documents_whole`). The nodes a refused absorb leaves are written by a
   gapless `write_model` with no check of their children, and the file does not
   read back.
3. *Identities left out past the last kept one are reissued* (`native.rs:185`,
   run `documents_compacted`). A file does not say how many identities were
   issued; after compaction the table issues on from the last entry kept.

Seen while reading, without a run of their own:

- *The first undo may close the journal under later rungs* (`fillet.rs:555`).
  `fillet_edges_meeting_with` takes one mark before its loop and undoes it in
  every turn. In the fitted round that mark opened the journal, so the first undo
  closes it; the second attempt is not noted and its undo does nothing, while
  `fillet.rs:496` says each round starts with tolerances put back. `Rounding` has
  these steps, and `ExactStartsAsGiven` is stated of the exact rounds for that
  reason.
- *Chords answered and chords drawn* (`triangulate.rs:890`). Where the settling
  rounds run out, `face_meshes` answers the chords asked last, not those its
  meshes were drawn to; `tessellate` then draws polylines finer than the meshes.
  `SettledChordsAreDrawn` and `WholeTessellationHasNoGaps` are stated of rounds
  that settled. `edge_chords_for` answers the chords of the first pass alone.
- *A kept mesh may not be the one drawing gives* (`content.rs:91`).
  `triangulate.rs:105-107` promises that "an entry answers only for a face
  whatever it reads is the same for, so the kept mesh is the one drawing it again
  gives". Drawing reads the surfaces across the edges (`rim_holds`,
  `triangulate.rs:331-384`: a coaxial cylinder continuing a drum is smooth and
  holds full rows, a cone with the same pcurve is a crease and holds ends); the
  key has one byte for whether there is another surface. `MeshesAreTheirFaces`
  excepts exactly this: without its last conjunct's `=> Keeps(f)` TLC breaks it
  in the `meshing` run, with a face kept in one build and found in another.
- *A face held twice replaces its own mesh* (`attach.rs:213`). `entity.rs:384-385`
  says of a path "only meaningful while the named triangulation is the one stored;
  retessellating replaces both together". Within one tessellation the second place
  of a face replaces the first's mesh (`attach.rs:79` meets every place, 213-219
  writes the node) and the paths into the first stay on its edges. They fit the
  edge's polyline and a mesh of the same chords, which is what
  `PathsWalkTheirMesh` says; a face that has one place has none.
- A tessellation stopped midway leaves new polylines beside old meshes
  (`attach.rs:103`). `StoredBoundariesAgree` of `Tessellate` says they agree and is
  no property of a run; paths, which would be wrong, are dropped with the old line.
- A copy of a copy (`history.rs:291`): with a shape copied, its copy made to
  generate another and then copied onto that one, the two bracketings disagree on
  whether the image counts as a copy. `ThenAssociates` is stated of what shapes
  became and made, not of that flag; and the lists generated agree as bags only.
- `Document::set_undo_limit` while states are ahead, followed by redo, keeps more
  states behind than the limit until the next checkpoint. `Timeline` allows it:
  only marking and setting the limit trim. A refused `add_instance` leaves a datum.
  Material, layer and texture ids kept over an undo are not checked as product ids
  are.
- A power of `i32::MIN` has no inverse (`location.rs:254`).
- A sub-shape moved by the placement told stands where the one in the occurrence
  does (`AboveCanBeTold`), but is not always the same by `is_same`, which compares
  chains and is what the test at `structure.rs:1050` asks: joining powers that do
  not fit (`location.rs:203`) is not associative entry for entry. With a greatest
  power of 3, a part at 2 placed at 2 and its sub-shape at -1: the occurrence has
  2 and 1, moving by what is told merges them into 3. Powers that large come
  from a file or `Location::powered`.
- A copy of an unwatched stage on a thread that steals it answers that thread's
  own watch (`progress.rs:226`).

## 6. Not modelled

- *Numerics*: math, geometry, intersection, hidden lines, triangulating a ring,
  the insides of booleans, offsets, fillets and healing: floating point over
  nearly all of the repository's lines, without state or protocol. Their results
  are choices (built, refused, stopped; whole, short, empty, failed) where a
  modelled protocol needs them. The share of the repository's lines these modules
  stand for is small for that reason.
- *Text*: the wording and parsing of the exchange formats. `ModelDocument` has
  what a file holds and which handles it renumbers.
- In `ModelDocument`: datums (never dropped, travel like geometry), pcurves,
  surfaces and triangulations (the same stores again), scale and operation
  numbers.
- In `History` and `Operations`: `without_repeated_images`, how an operation
  builds its result; the identity a builder records first and `set_derived`
  replaces is one identity here.
- In `ProductStructure`: attributes, PMI, views and notes, restored with a state
  and read by no operation here.
- In `FaceMeshes`: a cancellation noticed inside a draw (the job fails, as a
  refusing face does), `own_answer`, which picks a mesh of one face for a caller.
- In `Tessellate`: unsharing before it starts (`ModelKept` has `Unshare`).
- In `ModelKept`: placements, identities of copies, and documents of several
  shapes. The marks of what shapes share are not saved with a document
  (`docs/PLAN.md:528`), so shapes written together are read back sharing nodes
  that nobody marked; `UnsharedIsAlone` is stated of documents of one shape. So
  does a caller who hands several shapes to `unshare_each` and keeps the copies
  apart: what the copies share among themselves is marked when the operation that
  asked for them ends, which is the only way the repository calls it.
- In `ParallelMap`: the choice of the thread count, stage announcements. That a
  pool's `broadcast` returns only when every copy has returned is what `Pool`
  asks of its implementor (`parallel.rs:73-81`); it is the guard `CopiesReturned`,
  assumed and no property.
- Facade, tools and prototypes: no logic of the kernel's own.

## 7. Plan

Done in this order: arena, provenance, parallel stages, tolerances and rounding,
documents, what is kept; then operation histories over provenance, product
structure over locations, meshing and its storing. Next:

1. Proofs: done for the arena, the table and its roots, histories and operations,
   parallel stages, tolerances, rounding, documents and their meanings, product
   structure and its flattening, meshing, and what is kept and shared: every
   safety property of the runs. Left is what documents of several shapes
   keep true, once 2 models them.
2. Documents of several shapes in `ModelKept`, and sew over `unshare_each`.
3. The orientation monoid and traversal of `shape.rs` over `Locations`.

## 8. Running

`tlc -config MCArena.cfg MCArena` checks one run and `tlapm ArenaProofs.tla`
one module of proofs; `PROJECT.json` lists the module and configuration of
each.
