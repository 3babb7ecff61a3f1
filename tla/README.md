# TLA+ models of the OpenJ9 evacuator glue (`runtime/gc_glue_java`)

These modules model the Java-specific glue of the evacuator, OpenJ9's parallel
copying scavenger for the nursery. The modelled code is
`src/runtime/gc_glue_java/Evacuator*.{cpp,hpp}`. The glue decides the fate of
every `java.lang.ref.Reference` object and every object with a pending finalizer
in one collection cycle, run by a set of symmetric GC worker threads.

## 1. The system

### Parts and how they interact

| Part | Code | Shared state it touches |
|---|---|---|
| Delegate | `MM_EvacuatorDelegate` (EvacuatorDelegate.cpp/.hpp) | evacuator flags (a process-wide bitset), the cycle's reference options, per-thread reference buffer |
| Root scanner | `MM_EvacuatorRootScanner` (EvacuatorRootScanner.cpp/.hpp) | roots, unfinalized lists (snapshot), finalizable lists of earlier cycles |
| Root clearer | `MM_EvacuatorRootClearer` (EvacuatorRootClearer.cpp/.hpp) | region reference lists, unfinalized lists, finalize list manager, monitor table, JNI weak globals, JVMTI tags |
| Thread rescanner | `MM_EvacuatorThreadRescanner` | thread stack slots |

The evacuator itself is outside `src/`: the copying engine (`evacuateRootObject`,
`evacuateHeap`), the region lists and object buffers, and the phase order of
`MM_RootScanner::scanClearable`. The glue relies on these collaborators, and the
model includes them only as the small steps the glue depends on. Those
definitions are marked `spec_modelled` in the map.

One cycle, as every worker runs it:

1. **Root scan.**
   - `scanRoots` calls `startUnfinalizedProcessing`. One worker claims this work
     unit, snapshots every nursery unfinalized list into its *prior* list, and
     sets `shouldScavengeUnfinalizedObjects` if any list was non-empty.
   - The root slots are then evacuated.
2. **Main drain** (`evacuateHeap`).
   - Every copied object is scanned.
   - A reference object goes through `getReferenceObjectScanner`, which is
     pass 1 of reference processing. The reference is either cleared at once
     (a clear option is set), or added to the thread's reference buffer with its
     kind's flag set.
   - Its referent is scanned strongly only if the reference is already cleared,
     is tenured, or is a soft reference younger than the dynamic maximum age.
   - The buffer flushes to one of the region's lists when it is full, when the
     kind changes, and before the worker waits (`flushForWaitState`).
3. **`scanClearable`.** All workers meet. One elected worker sets
   `references_clear_soft` and `references_clear_weak`.
4. **Soft, then weak lists** (`scavengeReferenceObjects`, `processReferenceList`).
   This is pass 2, run only when the kind's flag is set.
   - Each list index is a work unit. The claiming worker snapshots the list and
     walks the prior list.
   - The walk reads the next link first, then resolves the referent through its
     forwarding pointer.
   - A referent still in evacuate space is dead. The reference is cleared and,
     if it has a queue, pushed on a local buffer that is flushed to the
     finalize list manager.
   - After the weak list there is a barrier (`scanWeakReferencesComplete`), if
     soft or weak work was done.
5. **Unfinalized harvesting** (`scavengeUnfinalizedObjects`), run only when
   `shouldScavengeUnfinalizedObjects` is set.
   - A forwarded object is relinked onto the unfinalized lists.
   - An unforwarded object is copied now and moved to the finalizable list,
     which sets `finalizationRequired`.
   - If the copy fails, the object goes back on the unfinalized buffer.
   - A barrier and a drain follow (`scanUnfinalizedObjectsComplete`).
6. **Phantom lists.**
   - Java 9+: dead referents are nulled.
   - Java 8 (`J2SE_VERSION <= 1.8`): dead referents are kept and evacuated as
     roots.
   - Then one elected worker sets `references_clear_phantom`, and everyone
     drains (`scanPhantomReferencesComplete`).
7. **Weak roots.** Monitor references, JNI weak globals and JVMTI tags, one
   table per work unit, in that order. A slot whose object is in evacuate space
   takes the forwarding address, or is cleared if the object was not copied. A
   dead monitor is removed from the monitor table instead.
8. **`cycleEnd`.** Every worker calls `setEvacuatorFlag(finalizationRequired, false)`.
   The one that finds the flag set wakes the finalizer master thread.

### What is hard about it (the hazards, detailed in `PROJECT.json`)

- **Two link fields, each holding several lists.** Each list is threaded through
  one link field (the reference link or the finalize link). Adds and flushes from
  several workers, snapshots, and walks all rewrite those fields. A walk rewrites
  the very field it follows, so the next link must be read before the add.
- **Barriers decide ordering.**
  - Harvesting finalizable objects copies them, which resurrects them. It must
    not start while another worker still decides weak references by whether
    their referent was copied.
  - Clear options must be set before any drain that can discover references
    after their pass.
  - Each worker decides alone, from the flags, whether to enter a barrier.
- **Exactly-once effects.** Work units are claimed by one worker. Each local
  buffer is flushed once. The finalizer is woken once, by whichever worker's
  test-and-reset sees the flag. That test-and-reset is one call to the
  controller's `setEvacuatorFlag`, outside `src/`, so the models take it as
  one step. What they check is that its result is used and the flag is reset.
- **Copy failure in the middle of a list walk.** See the finding below.
- **State carried across cycles.** A queued finalizable object is held only by
  the finalize list manager. A flag computed once per cycle decides whether
  the lists are relinked; if it misses a list, the object dies while listed.
- **Version-gated behaviour.** Java 8 phantom referents are resurrected and must
  be scanned before the cycle ends.

### Properties per part

| Part | Property (module `EvacuatorClearing`) |
|---|---|
| all lists and buffers | `ListsWellFormed`: lists are disjoint and acyclic, and each buffer's links spell exactly its contents |
| discovery and clearing | `ReferentsResolved`: at cycle end no referent of a surviving reference points into evacuate space |
| soft/weak clearing vs. harvesting | `WeakClearedIffUnreachable`: a processed weak/soft reference is cleared exactly when its referent was not strongly reachable |
| enqueueing | `EnqueuedExactlyOnce`: the finalize manager's reference list holds, once each, the queued references cleared in pass 2 |
| cycle end | `FinalizerWokenOnce`: one wake-up exactly when the cycle produced finalization work |
| unfinalized harvesting | `UnfinalizedConserved`: each finalizable object ends on the unfinalized lists or the finalizable list, and on the latter only if not strongly reachable |
| drains | `CopiedObjectsScanned`: everything copied has been scanned by the end |
| barriers | `CycleTerminates`: the cycle ends (liveness), plus TLC's deadlock check |
| weak roots | `WeakRootsResolved`: no weak root is cleared while its object survived; at cycle end each slot holds the copy's address, or NULL, or (monitors) is removed |
| the whole cycle | `ReferenceFateRefined`: `EvacuatorClearing` implements the abstract `ReferenceFate` |

Other modules, each with its own properties:

| Part | Module | Property |
|---|---|---|
| finalizable lists of earlier cycles | `FinalizableRelink` | `FinalizableConserved`: each list holds, once each and acyclic, exactly the objects it held; `AddressesCurrent`: every head and link is the object's current address |
| ownable synchronizer lists | `OwnableSyncRebuild` | `SyncListsRebuilt`: each region's list holds exactly its surviving registered synchronizers, once each; `MainRebuildPublished`: after `scanClearable`'s flush the main scan's additions are on the lists; `SurvivorStatsExact`: the summed statistics count each survivor once |
| finalization across cycles | `FinalizationCycles` | `FinalizableQueueIntact`: between cycles the finalize lists hold, once each and acyclic, exactly the objects whose finalizer is still to run, each at its current address |
| JNI weak table across cycles | `JNIWeakRoots` | `JNIWeakSlotsCurrent`: between cycles every slot is NULL or the current address of a live object |
| class statics and replaced classes | `IndirectObjects` | `IndirectScanSound`: after `scanIndirectObjects` nothing the class reaches indirectly is left in evacuate space, and a class still reaching the nursery was reported for the remembered set |

## 2. Modules

### `EvacuatorClearing.tla`: one cycle of reference clearing and finalization harvesting

State (VARIABLES) and what it stands for:

- `pc[w]`: the phase label of worker `w`. There is one label per step of the
  root-scanner or root-clearer code above.
- `shard[w]`, `cursor[w]`: the list-index loop variable and the current object
  of a list walk.
- `claimed`: the work units taken by `J9MODRON_HANDLE_NEXT_WORK_UNIT`.
- `copied`, `scanned`: the copying engine. `copied` holds the forwarded
  objects; `scanned` holds those the drains have scanned.
- `flags`: the evacuator flags. `options`: the cycle's reference options.
- `state`, `referent`: the reference fields. A referent is NULL or
  `[obj, space]` with space `"evacuate"` or `"survivor"`. Forwarding rewrites
  it from the first to the second.
- `rlink`, `flink`: the two link fields (reference link and finalize link).
- `refList`, `refPrior`: region reference lists, per kind and per list index,
  and their snapshots.
- `refBuf`, `finRefBuf`, `finRefQueue`: the thread's reference buffer, the
  local finalizable-reference buffer, and the finalize manager's reference list.
- `unfinList`, `unfinPrior`, `unfinBuf`, `finObjBuf`, `finObjQueue`: the same
  structures for unfinalized objects.
- `wakeups`: the number of finalizer wake-ups.
- `weakRoot`: the slots of the monitor table, the JNI weak global table and the
  JVMTI tag tables (`Removed` stands for a monitor removed from its table).
- History used only by properties:
  - `roots`, the chosen root set;
  - `origin`, each reference's initial referent;
  - `strong`, what the strong scan copied;
  - `visited`, the references walked in pass 2.

Actions, one per handler (the `map` in `PROJECT.json` gives the exact lines):

- `StartUnfinalizedProcessing`, `ScanRoots`.
- `ScanObject` / `ScanReference`: `getObjectScanner`, `getReferenceObjectScanner`.
- `FlushForWaitState`.
- `DrainComplete`: the end of `evacuateHeap`.
- `ScanClearable`: the elected worker in `scanClearable`.
- `ScanReferenceObjects`, `ClaimReferenceShard`, `ProcessReference`,
  `FinishReferenceList`: `scanXReferenceObjects`, `scavengeReferenceObjects`,
  `processReferenceList`.
- `WeakReferencesComplete`, `Synchronize`.
- `ScanUnfinalizedObjects`, `ClaimUnfinalizedShard`,
  `ScavengeUnfinalizedObject`, `FinishUnfinalizedList`,
  `FlushUnfinalizedBuffers`, `UnfinalizedObjectsComplete`.
- `PhantomReferencesComplete`, `ClearPhantomElected`.
- `ScanWeakRootTable`: one table's work unit, `doMonitorReference`,
  `doJNIWeakGlobalReference` or `doJVMTIObjectTagSlot` on each of its slots.
- `CycleEnd`.

At the end, `Fate == INSTANCE ReferenceFate WITH ...` maps the detailed state
onto the abstract one: `slot` is `referent`, a reference counts as `cleared`
once its state leaves `initial`, and `live` is `copied`.

Abstractions:

- Objects are model values. An object's strong fields are a constant graph
  `Edges`.
- Copying is adding to `copied`. Scanning an object copies its `Edges` and, for
  a reference whose referent must be marked, its referent.
- A buffer flush picks any list index. The code rotates the index, so picking
  any index over-approximates it.
- Evacuation failure is modelled where the glue handles it: in
  `scavengeUnfinalizedObjects`, when `EvacuationMayFail` is TRUE.
- Every drain is assumed to succeed. The `complete_phase_ABORT` backout belongs
  to the evacuator controller.
- Init is the state `prepareForEvacuation` leaves:
  - flags cleared and nursery reference lists empty;
  - unfinalized lists as `UnfinalizedInit`;
  - no finalizable work carried over from earlier cycles;
  - referents and roots enumerated from small sets.

Mutant operators, named `...Dropped`, `...NoSync`, `...AfterAdd` and so on,
are defined just before the definitions they replace. Each is a plausible bug
in that code, and for each one some property fails.

### `ReferenceFate.tla`: what reference processing promises

An abstract specification with three variables: each reference's `slot`,
whether it is `cleared`, and the set of `live` (copied) objects. In a step any
number of objects are copied (never uncopied), and each reference either stays
as it is, has its slot follow its object from the old to the new address once
that object is copied, or is cleared once: its slot is nulled, or follows the
referent (a Java 8 phantom referent kept alive). It is not mapped to code; it
states the promise that `EvacuatorClearing` is checked against.

### `FinalizableRelink.tla`: finalizable lists of earlier cycles

Models `scanFinalizableObjects` and `scavengeFinalizableObjects`
(EvacuatorRootScanner.cpp). Workers test `shouldScavengeFinalizableObjects`,
meet, and the elected worker walks the system, default and reference lists.
The code has three fixed blocks, one per list. Each block has the labels
`reset_<list>` and `walk_<list>`; `AfterBlock` says which block comes next.
After the reference block, `NextBlock` returns to `scanFinalizableObjects`,
whose `releaseSynchronizedGCThreads` frees the waiting workers.
Each walk takes the manager's list (`reset...`), then per object: copy it, or
take its forwarding address, or keep it when it is not in evacuate space or its
copy fails; read the next link; push the address on the local buffer, which
rewrites the link; at the end flush the buffer back. State: `lists` (heads),
`link` (per-object link field, kept by a copy), `cursor`, `buffer`, `copied`,
`failed`. Addresses are `[obj, space]` records, so a stale pre-copy address is
visible. MC: two workers; `s` on the system list; `d1`, tenured `t`, `d2` on
the default list; reference `q` on the reference list; copy failure on; any
subset already copied by root scanning.

### `OwnableSyncRebuild.tla`: ownable synchronizer lists

Models `prepareForEvacuation` (nursery lists emptied, others backed up),
`getOwnableSynchronizerObjectScanner` (concurrent-scavenger test, heap-scan
context test, the "on a list" test that skips objects under construction, the
buffer add and the two statistics), `scanClearable`'s flush and
`flushForEndCycle`. The per-thread buffer, whose code is outside `src/`, is
modelled from its use: it flushes when full and when the region changes. The
copying engine is a `fate` per nursery synchronizer: dead, or copied to
survivor or tenure in the main scan or in a clearing-phase drain. MC: two
workers, `a`,`b` registered, `c` under construction, `t` tenured and also
root-scanned, buffer of 1.

### `IndirectObjects.tla`: class statics and replaced classes

Models `scanIndirectObjects` and `objectHasIndirectObjectsInNursery`
(EvacuatorDelegate.cpp): the walk over the `replacedClass` chain
(`RECURSIVE ChainFrom`), evacuating every static slot and class object slot,
and the remembered-set answer. The property compares them with an independent
recursive definition of everything a class reaches indirectly. MC: `c1`
replaced `c2`, class objects `k1`,`k2`, statics `s1`,`s2`, every placement of
the objects in evacuate, survivor or tenure space.

### `JNIWeakRoots.tla`: the JNI weak table over several cycles

Models what decides, cycle by cycle, which scanner visits the JNI weak global
table. `cycleStart` constructs a new root scanner and root clearer, and each
sets its `_jniWeakGlobalReferencesTableAsRoot` (`rootTableAsRoot`,
`clearerTableAsRoot`). `ScanRoots` evacuates the strong roots, and evacuates
the table's slots through `doSlot` when `scanJNIWeakGlobalReferences` of the
root scanner admits it. `ScanClearable`, guarded by `hasClearable()`, runs the
clearer's `doJNIWeakGlobalReference` when the flag and the clearer's override
admit it; then the uncopied nursery objects die. Between cycles the mutator
creates and deletes weak globals. An address is `[obj, ver]`: each copy bumps
the version, so a slot left at an old address is visible. The VM's
configuration (`config`: concurrent scavenge enabled, stop-the-world cycles
interlaced) is chosen in `Init`. MC: slots `j1`, `j2`; nursery objects `a`,
`b`; tenured `t`; three cycles.

### `FinalizationCycles.tla`: the finalize lists over several cycles

Composes `FinalizableRelink` (as the named instance `Relink`, with its
variables shared) with the rest of a finalizable object's life. Objects have a
`state`: unfinalized, queued, finalized or freed. Per cycle:

- `CycleStart`: the semispace flip turns survivor addresses on the lists into
  evacuate addresses. The strong roots are copied, and they may reach a queued
  object. `prepareForEvacuation` sets `shouldScavengeFinalizableObjects` from
  `FinalizableProcessingRequired` (EvacuatorDelegate.cpp:100-102).
- `RelinkStep(w)`: one step of `scanFinalizableObjects` (`Relink`'s actions).
- `RootsDone`: every worker has left it.
- `ScavengeUnfinalizedObjects`: each unfinalized nursery object that is not
  forwarded is copied and pushed on the system or default list
  (`HarvestList`), through `buffer.add` and `buffer.flush`. The code spreads
  the unfinalized lists over workers, each with its own buffer; the step is
  atomic here because the flushes to the manager are serialized outside `src/`.
- `CycleEnd`: uncopied nursery objects die.
- Between cycles, `RunFinalizer(k)`: the finalizer thread pops a list head.

A queued object is held by nothing but the lists, so it survives a cycle only
if the relink runs. The run fails if the flag misses a non-empty list, for
example when only the default list is consulted. Copy failure is left out here:
a failed cycle is backed out outside `src/`, and `FinalizableRelink` checks the
failure path on its own. MC: workers `w1`, `w2`; nursery `a` (system loader)
and `b`; tenured `t`, queued at start; three cycles.

### `MC_EvacuatorClearing.tla`: instantiation for TLC

- Workers `w1`, `w2`; list indices `1..2`.
- References: `r1`, `r2` are weak (soft in the soft cfg); `r3` is phantom. All
  three have a queue.
- `x` is a plain object whose field points at `f`. `f` has a pending finalizer,
  and its field points at `r3`. `g` is a second finalizable object, used only
  by the failure run.
- Weak roots: a monitor on `x`, a JNI weak global on `f`, a JVMTI tag on `r3`.
- Roots are drawn from `{r1, r2, x}`. Referents are drawn from `{x, f, NULL}`.
  That gives 216 initial states, covering:
  - a weak referent that is strongly reachable, unreachable, or finalizable;
  - two weak references sharing one list;
  - a phantom reference discovered only through a harvested finalizable object.
- `WorkerSymmetry` permutes the workers. The workers run identical code and
  nothing in the model tells them apart. It is used only in the safety runs.

## 3. Runs

| Run | cfg | Checks | Shows |
|---|---|---|---|
| `clearing_modern` | `MC_EvacuatorClearing.cfg` | TypeOK, ListsWellFormed, ReferentsResolved, WeakClearedIffUnreachable, EnqueuedExactlyOnce, FinalizerWokenOnce, UnfinalizedConserved, CopiedObjectsScanned | Java 9+ semantics, buffers of 2: all interleavings of two workers keep every list sound and reach the right final state |
| `clearing_termination` | `MC_Termination.cfg` | CycleTerminates | every barrier and drain is passed; the cycle ends |
| `clearing_legacy_soft` | `MC_LegacySoft.cfg` | ReferentsResolved, CopiedObjectsScanned, UnfinalizedConserved | Java 8 phantom semantics, soft references (r1 young), tenured r2, buffers of 1 (flush on every add), copy failure of a lone finalizable object |
| `unfinalized_failure` | `MC_UnfinalizedFailure.cfg` | UnfinalizedConserved (expected violated) | `f` and `g` on one list; `f`'s copy fails; `g` is lost |
| `reference_fate_refinement` | `MC_ReferenceFate.cfg` | ReferenceFateRefined | every behaviour of the detailed cycle (legacy constants) is a behaviour of `ReferenceFate` |
| `finalizable_relink` | `MC_FinalizableRelink.cfg` | FinalizableConserved, AddressesCurrent, RelinkTerminates | the three walks, failures and flushes keep every earlier-cycle list whole and current; under weak fairness every worker leaves `scanFinalizableObjects` (the walks end, the waiting workers are released) |
| `ownable_sync_rebuild` | `MC_OwnableSyncRebuild.cfg` | TypeOK, SyncListsRebuilt, MainRebuildPublished, SurvivorStatsExact | the rebuilt lists and statistics are exact, across buffer flushes, region changes and two phases; a synchronizer resurrected in the clearing phase reaches its list through `flushForEndCycle` |
| `ownable_sync_concurrent` | `MC_OwnableSyncConcurrent.cfg` | SyncListsRebuilt (expected violated) | with concurrent scavenge the nursery lists are emptied and never rebuilt |
| `jni_weak_supported` | `MC_JNIWeakRoots.cfg` | JNIWeakSlotsCurrent | over three cycles, without concurrent scavenge and with it when every cycle is concurrent, every JNI weak slot ends each cycle NULL or current |
| `jni_weak_interlaced` | `MC_JNIWeakInterlaced.cfg` | JNIWeakSlotsCurrent (expected violated) | concurrent scavenge enabled, a stop-the-world cycle interlaced: neither scanner visits the table, a slot keeps a freed object's address |
| `finalization_cycles` | `MC_FinalizationCycles.cfg` | FinalizableQueueIntact | over three cycles, with the finalizer thread between them, relink and harvest keep every queued object listed once, current and alive |
| `indirect_objects` | `MC_IndirectObjects.cfg` | IndirectScanSound | the replaced-class chain walk reaches everything and reports remembering correctly |

**Bounds.**
- Two workers are enough for every pairwise race: two claims of one unit, a
  flush racing a walk, a barrier with one worker early.
- Two list indices let flushes of one kind go to different lists, and let the
  off-by-one in a loop bound show.
- Two weak references can share a list, which exercises the walk's
  read-before-add order.
- The buffer sizes, 2 and 1, exercise both flush triggers: full buffer and
  kind change.
- A bigger heap adds states without adding new orderings of these steps.
- `CycleTerminates` was also checked once with three workers (1,980,327
  distinct states, no error, about 4 minutes). That is too slow to keep as a
  run, so the kept runs use two workers.
- `FinalizationCycles` needs three cycles. In the first, `a` and `b` are
  harvested. Between cycles the finalizer may empty one list. The next cycle
  then starts with only the system list, or only the default list, non-empty.

**Fairness.** `CycleTerminates` assumes weak fairness for each worker and for
the release of a rendezvous:
- A GC worker thread runs until its task ends. It never blocks except at the
  barriers.
- A barrier whose last worker has arrived releases everyone.

No fairness is assumed about which worker claims a work unit.
`FinalizableRelink`'s `Spec` carries `WF_vars(Next)` for the same reason (the
elected worker runs its walks to the end). The runs that check liveness use no
symmetry.

## 4. Findings

### Unfinalized list lost after a copy failure

`scavengeUnfinalizedObjects` (EvacuatorRootClearer.cpp:372-381) initialises
`next = NULL` and only sets it on the two success paths. When
`evacuateRootObject` fails, the object is put back on the unfinalized buffer,
but the walk then stops. Every later object on that prior list ends up on no
list.

The spec (Scheduling model) requires failed items to be re-enqueued so that a
retry is lossless. Run `unfinalized_failure` shows the loss in a 2-object list.

### Ownable synchronizer lists under concurrent scavenge

With `isConcurrentScavengerEnabled()`, `prepareForEvacuation`
(EvacuatorDelegate.cpp:94) still empties every nursery region's list, but
`getOwnableSynchronizerObjectScanner` (line 236) registers nothing and
`EvacuatorRootClearer::scanOwnableSynchronizerObjects` is empty. Surviving
synchronizers end the cycle on no list; the spec (4.4) says nursery membership
is rebuilt every cycle. Run `ownable_sync_concurrent` shows it.

### JNI weak table skipped by stop-the-world cycles under concurrent scavenge

Both the root scanner (EvacuatorRootScanner.cpp:63) and the root clearer
(EvacuatorRootClearer.hpp:71) set `_jniWeakGlobalReferencesTableAsRoot` to
`isConcurrentScavengerEnabled()`. Their comments say what the flag does in
`MM_RootScanner` (outside `src/`): the table is scanned as a hard root, and the
clearable phase skips it. The root scanner's override adds
`isConcurrentInProgress()` (line 107). The comment at lines 101-106 says
stop-the-world cycles may be interlaced with concurrent ones. In such a cycle
no scanner visits the table: the clearer's own `!isConcurrentInProgress()`
test (EvacuatorRootClearer.cpp:212) is never reached, because the flag already
skipped the call. A slot whose object died keeps its old address. The
clearer's comment (EvacuatorRootClearer.hpp:67-68) says the table is skipped
only if it was scanned as a hard root. Run `jni_weak_interlaced` shows it in
one cycle. This relies on the base class using the flag as both comments
describe.

## 5. Not modelled, and the plan

Not modelled, with the reasons:

- **Thread rescanner**: `doSlot` and `doStackSlot` only call
  `MM_Evacuator::rescanThreadSlot`, outside `src/`; no state of its own.
- **Pointer array scanners** (`getPointerArrayObjectScanner`, split arrays,
  `getIndexableDataBounds`): they construct scanners of collaborators outside
  `src/` and hold no shared state.
- **Concurrent scavenge** itself (mutators running during a cycle, read
  barriers): outside `src/`. Its effect on the glue is modelled where the glue
  tests it: ownable synchronizers, and the JNI weak table gate (`JNIWeakRoots`).
- **`objectMonitorDestroyComplete`**: a VM call; the glue only calls it once
  the monitor table is done.
- **`complete_phase_ABORT` backout** (EvacuatorRootClearer.cpp:77,172): the
  glue only reports the failed drain; what the controller then does is outside
  `src/`.
- **Delegate initialisation and teardown**: allocation only.
- **Remembered set, class and string-table roots**: they only add roots; the
  root set is chosen nondeterministically.
- Statistics other than the synchronizer counts, tracing and debug output.

`FinalizationCycles` composes `FinalizableRelink` with harvesting and the
finalizer across cycles. It does not compose it with `EvacuatorClearing`'s
single-cycle model. That composition would multiply that model's state space,
whose modern run already takes about 70 s, and it would add no interaction: in
one cycle the relink and the clearing phase share only the `copied` set.
