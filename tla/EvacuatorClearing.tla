------------------------- MODULE EvacuatorClearing -------------------------
(***************************************************************************)
(* One collection cycle of the OpenJ9 evacuator glue (gc_glue_java), as   *)
(* run by a set of symmetric GC worker threads:                            *)
(*                                                                         *)
(*   root scan: startUnfinalizedProcessing, then the roots are evacuated;  *)
(*   main drain: evacuateHeap scans every copied object; a reference      *)
(*     object goes through getReferenceObjectScanner (discovery pass);     *)
(*   scanClearable: one elected thread sets references_clear_soft/weak;    *)
(*   soft and weak processing (scavengeReferenceObjects and               *)
(*     processReferenceList) over claimed list shards, then a barrier;    *)
(*   unfinalized harvesting (scavengeUnfinalizedObjects), a barrier and a  *)
(*     drain of what finalization resurrected;                             *)
(*   phantom processing, an elected thread sets references_clear_phantom,  *)
(*     and a last drain;                                                   *)
(*   cycleEnd: one thread wakes the finalizer if finalization is required. *)
(*                                                                         *)
(* The copying engine, the region lists, the object buffers and the root  *)
(* scanner's phase order are collaborators outside src/: they appear here *)
(* only as the small steps the glue code relies on.                        *)
(***************************************************************************)
EXTENDS Naturals, Sequences, FiniteSets, SequencesExt

CONSTANTS
    Workers,            \* GC worker threads (one evacuator each)
    Shards,             \* list indices 1..K of the one nursery region
    Refs,               \* java.lang.ref.Reference objects in the nursery
    Unfinalized,        \* objects with a pending finalizer, on unfinalized lists
    Plain,              \* every other nursery object
    Null,
    Kind,               \* [Refs -> {"weak", "soft", "phantom"}]
    Young,              \* soft references younger than the dynamic max soft age
    Tenure,             \* reference objects whose copy lands in tenure space
    Queued,             \* references with a ReferenceQueue
    Edges,              \* [Obj -> SUBSET Obj]: strong fields (referent excluded)
    RootChoices,        \* objects that may be referenced from the root set
    ReferentChoices,    \* objects a referent slot may point to
    UnfinalizedInit,    \* [Shards -> Seq(Unfinalized)]: unfinalized lists at cycle start
    LegacyPhantom,      \* J2SE_VERSION <= 1.8: phantom referents are kept alive
    SoftAsWeak,         \* references_soft_as_weak option
    BufferMax,          \* capacity of a per-thread object buffer
    EvacuationMayFail,  \* evacuateRootObject may fail for lack of copy space
    WeakSlots,          \* slots of the monitor, JNI weak global and JVMTI tag tables
    WeakRootInit        \* [WeakSlots -> [table : WeakTables, obj : Obj]]

Obj == Refs \cup Unfinalized \cup Plain
Kinds == {"weak", "soft", "phantom"}
K == Cardinality(Shards)

ASSUME /\ Shards = 1..K /\ K >= 1
       /\ Kind \in [Refs -> Kinds]
       /\ Refs \cap Unfinalized = {} /\ Null \notin Obj
       /\ BufferMax \in Nat \ {0}

(* The weak root tables scanClearable visits after phantom processing, in  *)
(* the root scanner's order.                                               *)
WeakTableOrder == <<"monitor", "jniWeak", "jvmtiTag">>
WeakTables == Range(WeakTableOrder)
ASSUME WeakRootInit \in [WeakSlots -> [table : WeakTables, obj : Obj]]

(* Evacuator flags of MM_EvacuatorDelegate (bit names of the enum).        *)
ShouldFlag == [weak |-> "shouldScavengeWeakReferenceObjects",
               soft |-> "shouldScavengeSoftReferenceObjects",
               phantom |-> "shouldScavengePhantomReferenceObjects"]
Flags == Range(ShouldFlag) \cup {"shouldScavengeUnfinalizedObjects",
                                 "finalizationRequired"}
(* MM_CycleState reference object options.                                *)
ClearOption == [weak |-> "references_clear_weak",
                soft |-> "references_clear_soft",
                phantom |-> "references_clear_phantom"]

(* A referent slot holds NULL or the address of an object, either still in *)
(* evacuate (from-) space or in survivor/tenure space after its copy.      *)
Ptr(o, space) == [obj |-> o, space |-> space]
Ptrs == {Null} \cup {Ptr(o, s) : o \in Obj, s \in {"evacuate", "survivor"}}

(* Program counters: one label per step of the cycle a worker runs.        *)
Drains == {"drainMain", "drainUnfinalized", "drainPhantom"}
ShardAt == [weak |-> "weakShard", soft |-> "softShard", phantom |-> "phantomShard"]
WalkAt == [weak |-> "weakWalk", soft |-> "softWalk", phantom |-> "phantomWalk"]
Labels == {"startUnfinalized", "roots", "clearable", "soft", "weak", "phantom",
           "weakComplete", "weakSync", "unfinalized", "unfinalizedShard",
           "unfinalizedWalk", "unfinalizedFlush", "unfinalizedComplete",
           "unfinalizedSync", "phantomComplete", "phantomSync", "cycleEnd", "done"}
          \cup Drains \cup WeakTables \cup Range(ShardAt) \cup Range(WalkAt)

VARIABLES
    pc, shard, cursor, claimed,           \* worker control
    copied, scanned,                      \* copying engine: forwarded / scanned objects
    flags, options,                       \* evacuator flags, cycle reference options
    state, referent, rlink, flink,        \* object fields
    refList, refPrior, refBuf,            \* region reference lists, per-thread buffer
    finRefBuf, finRefQueue,               \* local finalizable reference buffer, global list
    unfinList, unfinPrior, unfinBuf,      \* region unfinalized lists, per-thread buffer
    finObjBuf, finObjQueue,               \* local finalizable object buffer, global list
    wakeups,                              \* finalizer master wake-ups
    roots, origin, strong, visited,       \* the root set, and history for the properties
    weakRoot                              \* [WeakSlots -> address]: weak root table slots

vars == <<pc, shard, cursor, claimed, copied, scanned, flags, options, state,
          referent, rlink, flink, refList, refPrior, refBuf, finRefBuf,
          finRefQueue, unfinList, unfinPrior, unfinBuf, finObjBuf, finObjQueue,
          wakeups, roots, origin, strong, visited, weakRoot>>

-----------------------------------------------------------------------------
(* Singly linked lists threaded through a link field, as the region lists  *)
(* and object buffers are. A buffer is kept as the sequence it holds, its  *)
(* first element the head; links are written when an object is added.     *)
RECURSIVE ChainUpTo(_, _, _)
ChainUpTo(h, link, n) ==
    IF h = Null \/ n = 0 THEN << >> ELSE <<h>> \o ChainUpTo(link[h], link, n - 1)
Chain(h, link) == ChainUpTo(h, link, Cardinality(DOMAIN link) + 1)
HeadOr(buf) == IF buf = << >> THEN Null ELSE Head(buf)

(* buffer.add(object): the new object's link is the old head.              *)
LinkOnAdd(link, o, buf) == [link EXCEPT ![o] = HeadOr(buf)]
(* list.addAll(head, tail): the tail's link is the old list head.          *)
LinkOnFlush(link, buf, listHead) == [link EXCEPT ![Last(buf)] = listHead]

-----------------------------------------------------------------------------
(* The unfinalized lists as the previous cycle left them.                  *)
UnfinalizedPositions == UNION {{<<s, i>> : i \in 1..Len(UnfinalizedInit[s])} : s \in Shards}
InitFinalizeLink ==
    [o \in Unfinalized |->
        LET at == {p \in UnfinalizedPositions : UnfinalizedInit[p[1]][p[2]] = o}
        IN  IF \E p \in at : p[2] < Len(UnfinalizedInit[p[1]])
            THEN LET p == CHOOSE p \in at : TRUE IN UnfinalizedInit[p[1]][p[2] + 1]
            ELSE Null]

(* prepareForEvacuation runs before any worker: the flags are reset (no    *)
(* finalizable work is carried over), the reference lists of the nursery   *)
(* are empty, and the referents still point into evacuate space.           *)
Init ==
    /\ pc = [w \in Workers |-> "startUnfinalized"]
    /\ shard = [w \in Workers |-> 1]
    /\ cursor = [w \in Workers |-> Null]
    /\ claimed = {}
    /\ copied = {}
    /\ scanned = {}
    /\ flags = {}
    /\ options = {}
    /\ state = [r \in Refs |-> "initial"]
    /\ referent \in [Refs -> {Null} \cup {Ptr(o, "evacuate") : o \in ReferentChoices}]
    /\ rlink = [r \in Refs |-> Null]
    /\ flink = InitFinalizeLink
    /\ refList = [k \in Kinds |-> [s \in Shards |-> Null]]
    /\ refPrior = [k \in Kinds |-> [s \in Shards |-> Null]]
    /\ refBuf = [w \in Workers |-> << >>]
    /\ finRefBuf = [w \in Workers |-> << >>]
    /\ finRefQueue = Null
    /\ unfinList = [s \in Shards |-> HeadOr(UnfinalizedInit[s])]
    /\ unfinPrior = [s \in Shards |-> Null]
    /\ unfinBuf = [w \in Workers |-> << >>]
    /\ finObjBuf = [w \in Workers |-> << >>]
    /\ finObjQueue = Null
    /\ wakeups = 0
    /\ roots \in SUBSET RootChoices
    /\ origin = [r \in Refs |-> IF referent[r] = Null THEN Null ELSE referent[r].obj]
    /\ strong = {}
    /\ visited = {}
    /\ weakRoot = [s \in WeakSlots |-> Ptr(WeakRootInit[s].obj, "evacuate")]

Goto(w, label) == pc' = [pc EXCEPT ![w] = label]

-----------------------------------------------------------------------------
(* Root scan.                                                              *)

(* EvacuatorRootScanner::startUnfinalizedProcessing: the one thread that   *)
(* claims the work unit snapshots every unfinalized list into its prior    *)
(* list and records whether any was non-empty.                             *)
(* Mutant: the list is snapshotted but its head is not reset.             *)
StartUnfinalizedProcessingNoReset(w) ==
    /\ pc[w] = "startUnfinalized"
    /\ IF <<"startUnfinalized", 0>> \notin claimed
       THEN /\ claimed' = claimed \cup {<<"startUnfinalized", 0>>}
            /\ unfinPrior' = unfinList
            /\ flags' = IF \E s \in Shards : unfinList[s] # Null
                        THEN flags \cup {"shouldScavengeUnfinalizedObjects"}
                        ELSE flags \ {"shouldScavengeUnfinalizedObjects"}
       ELSE UNCHANGED <<claimed, unfinPrior, flags>>
    /\ Goto(w, "roots")
    /\ UNCHANGED <<shard, cursor, copied, scanned, options, state, referent, rlink,
                   flink, refList, refPrior, refBuf, finRefBuf, finRefQueue, unfinList,
                   unfinBuf, finObjBuf, finObjQueue, wakeups, roots, origin, strong, visited, weakRoot>>

StartUnfinalizedProcessing(w) ==
    /\ pc[w] = "startUnfinalized"
    /\ IF <<"startUnfinalized", 0>> \notin claimed
       THEN /\ claimed' = claimed \cup {<<"startUnfinalized", 0>>}
            /\ unfinPrior' = unfinList
            /\ unfinList' = [s \in Shards |-> Null]
            /\ flags' = IF \E s \in Shards : unfinList[s] # Null
                        THEN flags \cup {"shouldScavengeUnfinalizedObjects"}
                        ELSE flags \ {"shouldScavengeUnfinalizedObjects"}
       ELSE UNCHANGED <<claimed, unfinPrior, unfinList, flags>>
    /\ Goto(w, "roots")
    /\ UNCHANGED <<shard, cursor, copied, scanned, options, state, referent, rlink,
                   flink, refList, refPrior, refBuf, finRefBuf, finRefQueue, unfinBuf,
                   finObjBuf, finObjQueue, wakeups, roots, origin, strong, visited, weakRoot>>

(* doSlot / doStackSlot / doVMThreadSlot: every root slot is evacuated.    *)
ScanRoots(w) ==
    /\ pc[w] = "roots"
    /\ copied' = copied \cup roots
    /\ Goto(w, "drainMain")
    /\ UNCHANGED <<shard, cursor, claimed, scanned, flags, options, state, referent,
                   rlink, flink, refList, refPrior, refBuf, finRefBuf, finRefQueue,
                   unfinList, unfinPrior, unfinBuf, finObjBuf, finObjQueue, wakeups,
                   roots, origin, strong, visited, weakRoot>>

-----------------------------------------------------------------------------
(* Drains (evacuateHeap): workers scan copied objects until none is left.  *)

(* getReferenceObjectScanner, heap scan: how a reference object is treated *)
(* when it is scanned.                                                     *)
ReferenceScan(o) ==
    LET isCleared == state[o] \in {"cleared", "enqueued"}
        inNewSpace == o \notin Tenure
    IN  [isCleared |-> isCleared,
         shouldScavenge |-> inNewSpace /\ ~isCleared,
         mustClear |-> ClearOption[Kind[o]] \in options,
         mustMark |-> \/ isCleared \/ ~inNewSpace
                      \/ Kind[o] = "soft" /\ ~SoftAsWeak /\ o \in Young]

(* The per-thread reference buffer holds one kind at a time; add() flushes *)
(* it first when it is full or holds another kind. A flush prepends the    *)
(* buffer to one list of the region (the list index rotates per flush).    *)
RefFlushLink(w, s) ==
    IF refBuf[w] = << >> THEN rlink
    ELSE LinkOnFlush(rlink, refBuf[w], refList[Kind[Head(refBuf[w])]][s])
RefFlushList(w, s) ==
    IF refBuf[w] = << >> THEN refList
    ELSE [refList EXCEPT ![Kind[Head(refBuf[w])]][s] = Head(refBuf[w])]

RefBufferAdd(w, o) ==
    LET full == refBuf[w] # << >> /\ (Len(refBuf[w]) >= BufferMax
                                      \/ Kind[Head(refBuf[w])] # Kind[o])
    IN  \E s \in Shards :
          LET link1 == IF full THEN RefFlushLink(w, s) ELSE rlink
              buf1 == IF full THEN << >> ELSE refBuf[w]
          IN  /\ rlink' = LinkOnAdd(link1, o, buf1)
              /\ refList' = IF full THEN RefFlushList(w, s) ELSE refList
              /\ refBuf' = [refBuf EXCEPT ![w] = <<o>> \o buf1]

(* getObjectScanner for one copied object, heap scan. A reference object   *)
(* (SCAN_REFERENCE_MIXED_OBJECT) may be cleared at once, or is added to    *)
(* the reference buffer and its kind's flag set; its referent slot is      *)
(* scanned as a strong field only when the referent must be marked. Every  *)
(* other shape is scanned as a mixed object: its strong fields are         *)
(* evacuated.                                                              *)
ScanReference(w, o) ==
    LET d == ReferenceScan(o)
        discover == ~d.mustClear /\ d.shouldScavenge
        slot == IF d.mustClear THEN Null ELSE referent[o]
        mark == d.mustMark /\ slot # Null
    IN  /\ flags' = IF discover THEN flags \cup {ShouldFlag[Kind[o]]} ELSE flags
        /\ state' = IF d.mustClear /\ ~d.isCleared
                    THEN [state EXCEPT ![o] = "cleared"] ELSE state
        /\ referent' = [referent EXCEPT ![o] = IF mark THEN Ptr(slot.obj, "survivor")
                                                       ELSE slot]
        /\ copied' = copied \cup Edges[o] \cup (IF mark THEN {slot.obj} ELSE {})
        /\ IF discover THEN RefBufferAdd(w, o) ELSE UNCHANGED <<rlink, refList, refBuf>>

ScanObject(w) ==
    /\ pc[w] \in Drains
    /\ \E o \in copied \ scanned :
        /\ scanned' = scanned \cup {o}
        /\ IF o \in Refs
           THEN ScanReference(w, o)
           ELSE /\ copied' = copied \cup Edges[o]
                /\ UNCHANGED <<flags, state, referent, rlink, refList, refBuf>>
    /\ UNCHANGED <<pc, shard, cursor, claimed, options, flink, refPrior, finRefBuf,
                   finRefQueue, unfinList, unfinPrior, unfinBuf, finObjBuf,
                   finObjQueue, wakeups, roots, origin, strong, visited, weakRoot>>

(* flushForWaitState: a worker that runs out of work flushes its reference *)
(* buffer before it waits.                                                 *)
FlushForWaitState(w) ==
    /\ pc[w] \in Drains
    /\ copied \subseteq scanned
    /\ refBuf[w] # << >>
    /\ \E s \in Shards : /\ rlink' = RefFlushLink(w, s)
                         /\ refList' = RefFlushList(w, s)
    /\ refBuf' = [refBuf EXCEPT ![w] = << >>]
    /\ UNCHANGED <<pc, shard, cursor, claimed, copied, scanned, flags, options, state,
                   referent, flink, refPrior, finRefBuf, finRefQueue, unfinList,
                   unfinPrior, unfinBuf, finObjBuf, finObjQueue, wakeups, roots,
                   origin, strong, visited, weakRoot>>

(* evacuateHeap returns when every worker waits and no work is left.       *)
AfterDrain == [drainMain |-> "clearable", drainUnfinalized |-> "phantom",
               drainPhantom |-> "monitor"]
DrainComplete(d) ==
    /\ \A w \in Workers : pc[w] = d /\ refBuf[w] = << >>
    /\ copied \subseteq scanned
    /\ pc' = [w \in Workers |-> AfterDrain[d]]
    /\ UNCHANGED <<shard, cursor, claimed, copied, scanned, flags, options, state,
                   referent, rlink, flink, refList, refPrior, refBuf, finRefBuf,
                   finRefQueue, unfinList, unfinPrior, unfinBuf, finObjBuf,
                   finObjQueue, wakeups, roots, origin, strong, visited, weakRoot>>

-----------------------------------------------------------------------------
(* Clearing phase.                                                         *)

(* EvacuatorRootScanner::scanClearable: all workers synchronize and one    *)
(* sets references_clear_soft and references_clear_weak before releasing   *)
(* the others, so that references resurrected by finalization are cleared  *)
(* when they are scanned. strong records what the strong scan copied.      *)
ScanClearable ==
    /\ \A w \in Workers : pc[w] = "clearable"
    /\ options' = options \cup {ClearOption.soft, ClearOption.weak}
    /\ strong' = copied
    /\ pc' = [w \in Workers |-> "soft"]
    /\ UNCHANGED <<shard, cursor, claimed, copied, scanned, flags, state, referent,
                   rlink, flink, refList, refPrior, refBuf, finRefBuf, finRefQueue,
                   unfinList, unfinPrior, unfinBuf, finObjBuf, finObjQueue, wakeups,
                   roots, origin, visited, weakRoot>>

(* scanSoft/Weak/PhantomReferenceObjects: the phase runs only if its flag  *)
(* was set during discovery.                                               *)
AfterPhase == [soft |-> "weak", weak |-> "weakComplete", phantom |-> "phantomComplete"]
ScanReferenceObjects(w, k) ==
    /\ pc[w] = k
    /\ IF ShouldFlag[k] \in flags
       THEN Goto(w, ShardAt[k]) /\ shard' = [shard EXCEPT ![w] = 1]
       ELSE Goto(w, AfterPhase[k]) /\ UNCHANGED shard
    /\ UNCHANGED <<cursor, claimed, copied, scanned, flags, options, state, referent,
                   rlink, flink, refList, refPrior, refBuf, finRefBuf, finRefQueue,
                   unfinList, unfinPrior, unfinBuf, finObjBuf, finObjQueue, wakeups,
                   roots, origin, strong, visited, weakRoot>>

(* The loop over the region's list indices of scavengeReferenceObjects.    *)
(* Mutant: the loop stops one list index early.                           *)
NextReferenceShardSkipsLast(w, k) ==
    IF shard[w] >= K - 1 THEN Goto(w, AfterPhase[k]) /\ UNCHANGED shard
    ELSE Goto(w, ShardAt[k]) /\ shard' = [shard EXCEPT ![w] = @ + 1]
NextReferenceShard(w, k) ==
    IF shard[w] = K THEN Goto(w, AfterPhase[k]) /\ UNCHANGED shard
    ELSE Goto(w, ShardAt[k]) /\ shard' = [shard EXCEPT ![w] = @ + 1]

(* J9MODRON_HANDLE_NEXT_WORK_UNIT: the claiming thread snapshots the list  *)
(* (startWeak/Soft/PhantomReferenceProcessing) and walks the prior list    *)
(* if it was not empty.                                                    *)
ClaimReferenceShard(w, k) ==
    LET i == shard[w] IN
    /\ pc[w] = ShardAt[k]
    /\ IF <<k, i>> \notin claimed
       THEN /\ claimed' = claimed \cup {<<k, i>>}
            /\ refPrior' = [refPrior EXCEPT ![k][i] = refList[k][i]]
            /\ refList' = [refList EXCEPT ![k][i] = Null]
            /\ IF refList[k][i] # Null
               THEN /\ cursor' = [cursor EXCEPT ![w] = refList[k][i]]
                    /\ Goto(w, WalkAt[k]) /\ UNCHANGED shard
               ELSE NextReferenceShard(w, k) /\ UNCHANGED cursor
       ELSE NextReferenceShard(w, k) /\ UNCHANGED <<claimed, refPrior, refList, cursor>>
    /\ UNCHANGED <<copied, scanned, flags, options, state, referent, rlink, flink,
                   refBuf, finRefBuf, finRefQueue, unfinList, unfinPrior, unfinBuf,
                   finObjBuf, finObjQueue, wakeups, roots, origin, strong, visited, weakRoot>>

(* processReferenceList, one iteration: the next link is read first, the   *)
(* referent is resolved through its forwarding pointer, and a referent     *)
(* still in evacuate space is dead: the reference is cleared and, if it    *)
(* has a queue, pushed on the local finalizable reference buffer (which    *)
(* rewrites its link field). A legacy phantom keeps its referent: it is    *)
(* evacuated as a root instead of being nulled.                            *)
IsInEvacuate(p) == p # Null /\ p.space = "evacuate"
(* Mutant: the forwarding pointer is taken without isForwardedPointer().  *)
ForwardedUnchecked(p) == IF IsInEvacuate(p) THEN Ptr(p.obj, "survivor") ELSE p
Forwarded(p) == IF IsInEvacuate(p) /\ p.obj \in copied THEN Ptr(p.obj, "survivor") ELSE p
(* Mutant: next is read after buffer.add() has rewritten the link.        *)
ReferenceNextAfterAdd(w, r) ==
    IF r \in Queued /\ IsInEvacuate(Forwarded(referent[r]))
    THEN HeadOr(finRefBuf[w]) ELSE rlink[r]
(* Mutant: the loop never advances (next = referenceObj).                  *)
ReferenceNextSelf(w, r) == r
ReferenceNext(w, r) == rlink[r]

ProcessReference(w, k) ==
    LET r == cursor[w]
        ref == Forwarded(referent[r])
        dead == IsInEvacuate(ref)
        keep == LegacyPhantom /\ k = "phantom"
        enqueue == dead /\ r \in Queued
    IN  /\ pc[w] = WalkAt[k]
        /\ r # Null
        /\ cursor' = [cursor EXCEPT ![w] = ReferenceNext(w, r)]
        /\ visited' = visited \cup {r}
        /\ state' = IF dead THEN [state EXCEPT ![r] = "cleared"] ELSE state
        /\ referent' = [referent EXCEPT ![r] = IF dead /\ ~keep THEN Null
                                               ELSE IF dead THEN Ptr(ref.obj, "survivor")
                                               ELSE ref]
        /\ copied' = IF dead /\ keep THEN copied \cup {ref.obj} ELSE copied
        /\ IF enqueue
           THEN /\ rlink' = LinkOnAdd(rlink, r, finRefBuf[w])
                /\ finRefBuf' = [finRefBuf EXCEPT ![w] = <<r>> \o @]
                /\ flags' = flags \cup {"finalizationRequired"}
           ELSE UNCHANGED <<rlink, finRefBuf, flags>>
        /\ UNCHANGED <<pc, shard, claimed, scanned, options, flink, refList, refPrior,
                       refBuf, finRefQueue, unfinList, unfinPrior, unfinBuf, finObjBuf,
                       finObjQueue, wakeups, roots, origin, strong, weakRoot>>

(* End of processReferenceList: buffer.flush() hands the cleared, queued   *)
(* references to the finalize list manager's reference list.               *)
(* Mutant: the local buffer is not flushed at the end of the list.         *)
FlushFinalizableReferencesDropped(w) == UNCHANGED <<rlink, finRefQueue, finRefBuf>>
FlushFinalizableReferences(w) ==
    IF finRefBuf[w] = << >> THEN UNCHANGED <<rlink, finRefQueue, finRefBuf>>
    ELSE /\ rlink' = LinkOnFlush(rlink, finRefBuf[w], finRefQueue)
         /\ finRefQueue' = Head(finRefBuf[w])
         /\ finRefBuf' = [finRefBuf EXCEPT ![w] = << >>]

FinishReferenceList(w, k) ==
    /\ pc[w] = WalkAt[k]
    /\ cursor[w] = Null
    /\ FlushFinalizableReferences(w)
    /\ NextReferenceShard(w, k)
    /\ UNCHANGED <<cursor, claimed, copied, scanned, flags, options, state, referent,
                   flink, refList, refPrior, refBuf, unfinList, unfinPrior, unfinBuf,
                   finObjBuf, finObjQueue, wakeups, roots, origin, strong, visited, weakRoot>>

(* scanWeakReferencesComplete: if soft or weak work was done, every worker *)
(* synchronizes before unfinalized processing may resurrect a referent.    *)
(* Mutant: no barrier after soft and weak processing.                      *)
WeakReferencesCompleteNoSync(w) ==
    /\ pc[w] = "weakComplete"
    /\ Goto(w, "unfinalized")
    /\ UNCHANGED <<shard, cursor, claimed, copied, scanned, flags, options, state,
                   referent, rlink, flink, refList, refPrior, refBuf, finRefBuf,
                   finRefQueue, unfinList, unfinPrior, unfinBuf, finObjBuf,
                   finObjQueue, wakeups, roots, origin, strong, visited, weakRoot>>
WeakReferencesComplete(w) ==
    /\ pc[w] = "weakComplete"
    /\ IF {ShouldFlag.weak, ShouldFlag.soft} \cap flags # {}
       THEN Goto(w, "weakSync") ELSE Goto(w, "unfinalized")
    /\ UNCHANGED <<shard, cursor, claimed, copied, scanned, flags, options, state,
                   referent, rlink, flink, refList, refPrior, refBuf, finRefBuf,
                   finRefQueue, unfinList, unfinPrior, unfinBuf, finObjBuf,
                   finObjQueue, wakeups, roots, origin, strong, visited, weakRoot>>

(* synchronizeGCThreads: nobody leaves until everybody has arrived.        *)
AfterSync == [weakSync |-> "unfinalized", unfinalizedSync |-> "drainUnfinalized"]
Synchronize(b) ==
    /\ \A w \in Workers : pc[w] = b
    /\ pc' = [w \in Workers |-> AfterSync[b]]
    /\ UNCHANGED <<shard, cursor, claimed, copied, scanned, flags, options, state,
                   referent, rlink, flink, refList, refPrior, refBuf, finRefBuf,
                   finRefQueue, unfinList, unfinPrior, unfinBuf, finObjBuf,
                   finObjQueue, wakeups, roots, origin, strong, visited, weakRoot>>

(* scanUnfinalizedObjects: harvesting runs only if startUnfinalized-       *)
(* Processing found a non-empty list.                                      *)
ScanUnfinalizedObjects(w) ==
    /\ pc[w] = "unfinalized"
    /\ IF "shouldScavengeUnfinalizedObjects" \in flags
       THEN Goto(w, "unfinalizedShard") /\ shard' = [shard EXCEPT ![w] = 1]
       ELSE Goto(w, "unfinalizedComplete") /\ UNCHANGED shard
    /\ UNCHANGED <<cursor, claimed, copied, scanned, flags, options, state, referent,
                   rlink, flink, refList, refPrior, refBuf, finRefBuf, finRefQueue,
                   unfinList, unfinPrior, unfinBuf, finObjBuf, finObjQueue, wakeups,
                   roots, origin, strong, visited, weakRoot>>

(* Mutant: the loop bound is i <= _maxListIndex.                           *)
NextUnfinalizedShardPastEnd(w) ==
    IF shard[w] = K + 1 THEN Goto(w, "unfinalizedFlush") /\ UNCHANGED shard
    ELSE Goto(w, "unfinalizedShard") /\ shard' = [shard EXCEPT ![w] = @ + 1]
NextUnfinalizedShard(w) ==
    IF shard[w] = K THEN Goto(w, "unfinalizedFlush") /\ UNCHANGED shard
    ELSE Goto(w, "unfinalizedShard") /\ shard' = [shard EXCEPT ![w] = @ + 1]

(* scavengeUnfinalizedObjects, loop over list indices: a work unit is      *)
(* claimed only for a list whose prior list is not empty.                  *)
ClaimUnfinalizedShard(w) ==
    LET i == shard[w] IN
    /\ pc[w] = "unfinalizedShard"
    /\ IF unfinPrior[i] # Null /\ <<"unfinalized", i>> \notin claimed
       THEN /\ claimed' = claimed \cup {<<"unfinalized", i>>}
            /\ cursor' = [cursor EXCEPT ![w] = unfinPrior[i]]
            /\ Goto(w, "unfinalizedWalk") /\ UNCHANGED shard
       ELSE NextUnfinalizedShard(w) /\ UNCHANGED <<claimed, cursor>>
    /\ UNCHANGED <<copied, scanned, flags, options, state, referent, rlink, flink,
                   refList, refPrior, refBuf, finRefBuf, finRefQueue, unfinList,
                   unfinPrior, unfinBuf, finObjBuf, finObjQueue, wakeups, roots,
                   origin, strong, visited, weakRoot>>

(* _unfinalizedObjectBuffer->add(): flushed to a list of the region first  *)
(* when full.                                                              *)
UnfinalizedBufferAdd(w, o) ==
    LET full == Len(unfinBuf[w]) >= BufferMax
    IN  \E s \in Shards :
          LET link1 == IF full THEN LinkOnFlush(flink, unfinBuf[w], unfinList[s]) ELSE flink
              buf1 == IF full THEN << >> ELSE unfinBuf[w]
          IN  /\ flink' = LinkOnAdd(link1, o, buf1)
              /\ unfinList' = IF full THEN [unfinList EXCEPT ![s] = Head(unfinBuf[w])]
                              ELSE unfinList
              /\ unfinBuf' = [unfinBuf EXCEPT ![w] = <<o>> \o buf1]

(* An unfinalized object already forwarded survived: it is relinked, by    *)
(* its new address, into the unfinalized lists.                            *)
(* Mutant: a forwarded object is not put back on the unfinalized buffer.   *)
RelinkForwardedDropped(w, o) == UNCHANGED <<copied, finObjBuf, flags, flink, unfinList, unfinBuf>>
RelinkForwarded(w, o) ==
    /\ UnfinalizedBufferAdd(w, o)
    /\ UNCHANGED <<copied, finObjBuf, flags>>

(* One not forwarded is evacuated now so that its finalizer can run; if    *)
(* the copy fails it goes back to the unfinalized buffer.                  *)
(* Mutant: an object whose copy failed is dropped, not re-buffered.        *)
HarvestUnforwardedDropOnFailure(w, o) ==
    \/ /\ copied' = copied \cup {o}
       /\ flink' = LinkOnAdd(flink, o, finObjBuf[w])
       /\ finObjBuf' = [finObjBuf EXCEPT ![w] = <<o>> \o @]
       /\ flags' = flags \cup {"finalizationRequired"}
       /\ UNCHANGED <<unfinList, unfinBuf>>
    \/ /\ EvacuationMayFail
       /\ UNCHANGED <<copied, finObjBuf, flags, flink, unfinList, unfinBuf>>
HarvestUnforwarded(w, o) ==
    \/ /\ copied' = copied \cup {o}
       /\ flink' = LinkOnAdd(flink, o, finObjBuf[w])
       /\ finObjBuf' = [finObjBuf EXCEPT ![w] = <<o>> \o @]
       /\ flags' = flags \cup {"finalizationRequired"}
       /\ UNCHANGED <<unfinList, unfinBuf>>
    \/ /\ EvacuationMayFail
       /\ UnfinalizedBufferAdd(w, o)
       /\ UNCHANGED <<copied, finObjBuf, flags>>

(* The link to follow: read before the object is pushed on a buffer. On   *)
(* the failure path next keeps its initial NULL.                           *)
UnfinalizedNext(o, harvested) ==
    IF o \in copied \/ o \in harvested THEN flink[o] ELSE Null

ScavengeUnfinalizedObject(w) ==
    LET o == cursor[w] IN
    /\ pc[w] = "unfinalizedWalk"
    /\ o # Null
    /\ IF o \in copied THEN RelinkForwarded(w, o) ELSE HarvestUnforwarded(w, o)
    /\ cursor' = [cursor EXCEPT ![w] = UnfinalizedNext(o, copied')]
    /\ UNCHANGED <<pc, shard, claimed, scanned, options, state, referent, rlink,
                   refList, refPrior, refBuf, finRefBuf, finRefQueue, unfinPrior,
                   finObjQueue, wakeups, roots, origin, strong, visited, weakRoot>>

FinishUnfinalizedList(w) ==
    /\ pc[w] = "unfinalizedWalk"
    /\ cursor[w] = Null
    /\ NextUnfinalizedShard(w)
    /\ UNCHANGED <<cursor, claimed, copied, scanned, flags, options, state, referent,
                   rlink, flink, refList, refPrior, refBuf, finRefBuf, finRefQueue,
                   unfinList, unfinPrior, unfinBuf, finObjBuf, finObjQueue, wakeups,
                   roots, origin, strong, visited, weakRoot>>

(* End of scavengeUnfinalizedObjects: the local finalizable buffer goes to *)
(* the finalize list manager, the unfinalized buffer to a region list.     *)
FlushUnfinalizedBuffers(w) ==
    LET link1 == IF finObjBuf[w] = << >> THEN flink
                 ELSE LinkOnFlush(flink, finObjBuf[w], finObjQueue)
    IN
    /\ pc[w] = "unfinalizedFlush"
    /\ finObjQueue' = IF finObjBuf[w] = << >> THEN finObjQueue ELSE Head(finObjBuf[w])
    /\ finObjBuf' = [finObjBuf EXCEPT ![w] = << >>]
    /\ \E s \in Shards :
         IF unfinBuf[w] = << >> THEN flink' = link1 /\ UNCHANGED unfinList
         ELSE /\ flink' = LinkOnFlush(link1, unfinBuf[w], unfinList[s])
              /\ unfinList' = [unfinList EXCEPT ![s] = Head(unfinBuf[w])]
    /\ unfinBuf' = [unfinBuf EXCEPT ![w] = << >>]
    /\ Goto(w, "unfinalizedComplete")
    /\ UNCHANGED <<shard, cursor, claimed, copied, scanned, flags, options, state,
                   referent, rlink, refList, refPrior, refBuf, finRefBuf, finRefQueue,
                   unfinPrior, wakeups, roots, origin, strong, visited, weakRoot>>

(* scanUnfinalizedObjectsComplete: all workers synchronize, then drain     *)
(* what the harvested objects make reachable.                              *)
(* Mutant: no barrier and no drain after harvesting.                       *)
UnfinalizedObjectsCompleteNoDrain(w) ==
    /\ pc[w] = "unfinalizedComplete"
    /\ Goto(w, "phantom")
    /\ UNCHANGED <<shard, cursor, claimed, copied, scanned, flags, options, state,
                   referent, rlink, flink, refList, refPrior, refBuf, finRefBuf,
                   finRefQueue, unfinList, unfinPrior, unfinBuf, finObjBuf,
                   finObjQueue, wakeups, roots, origin, strong, visited, weakRoot>>
UnfinalizedObjectsComplete(w) ==
    /\ pc[w] = "unfinalizedComplete"
    /\ IF "shouldScavengeUnfinalizedObjects" \in flags
       THEN Goto(w, "unfinalizedSync") ELSE Goto(w, "phantom")
    /\ UNCHANGED <<shard, cursor, claimed, copied, scanned, flags, options, state,
                   referent, rlink, flink, refList, refPrior, refBuf, finRefBuf,
                   finRefQueue, unfinList, unfinPrior, unfinBuf, finObjBuf,
                   finObjQueue, wakeups, roots, origin, strong, visited, weakRoot>>

(* scanPhantomReferencesComplete: if phantom work was done, one elected    *)
(* worker sets references_clear_phantom while the others wait, then all   *)
(* drain what legacy phantom processing resurrected.                       *)
(* Mutant: the phantom barrier and its drain are left out.                 *)
PhantomReferencesCompleteNoDrain(w) ==
    /\ pc[w] = "phantomComplete"
    /\ Goto(w, "monitor")
    /\ UNCHANGED <<shard, cursor, claimed, copied, scanned, flags, options, state,
                   referent, rlink, flink, refList, refPrior, refBuf, finRefBuf,
                   finRefQueue, unfinList, unfinPrior, unfinBuf, finObjBuf,
                   finObjQueue, wakeups, roots, origin, strong, visited, weakRoot>>
PhantomReferencesComplete(w) ==
    /\ pc[w] = "phantomComplete"
    /\ IF ShouldFlag.phantom \in flags
       THEN Goto(w, "phantomSync") ELSE Goto(w, "monitor")
    /\ UNCHANGED <<shard, cursor, claimed, copied, scanned, flags, options, state,
                   referent, rlink, flink, refList, refPrior, refBuf, finRefBuf,
                   finRefQueue, unfinList, unfinPrior, unfinBuf, finObjBuf,
                   finObjQueue, wakeups, roots, origin, strong, visited, weakRoot>>

ClearPhantomElected ==
    /\ \A w \in Workers : pc[w] = "phantomSync"
    /\ options' = options \cup {ClearOption.phantom}
    /\ pc' = [w \in Workers |-> "drainPhantom"]
    /\ UNCHANGED <<shard, cursor, claimed, copied, scanned, flags, state, referent,
                   rlink, flink, refList, refPrior, refBuf, finRefBuf, finRefQueue,
                   unfinList, unfinPrior, unfinBuf, finObjBuf, finObjQueue, wakeups,
                   roots, origin, strong, visited, weakRoot>>

(* Weak roots. The root scanner hands each table to the one worker that    *)
(* claims its work unit; every copy has been made by then, so the claiming *)
(* worker's walk over the table is one step.                               *)

(* Mutant: the monitor of an unforwarded object is kept with a NULL object *)
(* instead of being removed and destroyed.                                 *)
DoMonitorReferenceNoRemove(p) ==
    IF IsInEvacuate(p) THEN IF p.obj \in copied THEN Forwarded(p) ELSE Null ELSE p
(* A monitor table slot after removeSlot().                                *)
Removed == [removed |-> TRUE]
(* doMonitorReference: a monitor whose object is in evacuate space follows *)
(* the forwarding pointer, or, the object being dead, is removed from the  *)
(* monitor table and destroyed.                                            *)
DoMonitorReference(p) ==
    IF IsInEvacuate(p) THEN IF p.obj \in copied THEN Forwarded(p) ELSE Removed ELSE p

(* doJNIWeakGlobalReference, doJVMTIObjectTagSlot: a non-NULL slot into    *)
(* evacuate space gets getForwardedObject(), which is NULL for an object   *)
(* that was not copied.                                                    *)
DoWeakObjectSlot(p) ==
    IF p # Null /\ IsInEvacuate(p)
    THEN IF p.obj \in copied THEN Forwarded(p) ELSE Null
    ELSE p

DoWeakRoot(t, p) == IF t = "monitor" THEN DoMonitorReference(p) ELSE DoWeakObjectSlot(p)

(* scanMonitorReferences, scanJNIWeakGlobalReferences (not skipped: no     *)
(* concurrent scavenge is in progress), scanJVMTIObjectTagTables: the      *)
(* worker that claims a table's work unit visits its slots; the others go  *)
(* on to the next table.                                                   *)
NextWeakTable == [monitor |-> "jniWeak", jniWeak |-> "jvmtiTag", jvmtiTag |-> "cycleEnd"]
ScanWeakRootTable(w, t) ==
    /\ pc[w] = t
    /\ IF <<t, 0>> \notin claimed
       THEN /\ claimed' = claimed \cup {<<t, 0>>}
            /\ weakRoot' = [s \in WeakSlots |->
                              IF WeakRootInit[s].table = t THEN DoWeakRoot(t, weakRoot[s])
                              ELSE weakRoot[s]]
       ELSE UNCHANGED <<claimed, weakRoot>>
    /\ Goto(w, NextWeakTable[t])
    /\ UNCHANGED <<shard, cursor, copied, scanned, flags, options, state, referent,
                   rlink, flink, refList, refPrior, refBuf, finRefBuf, finRefQueue,
                   unfinList, unfinPrior, unfinBuf, finObjBuf, finObjQueue, wakeups,
                   roots, origin, strong, visited>>

(* cycleEnd: setEvacuatorFlag(finalizationRequired, false) atomically      *)
(* clears the flag and returns whether it was set, so exactly one worker  *)
(* wakes the finalizer master thread.                                      *)
(* Mutant: the flag is tested but never reset.                             *)
ResetFinalizationRequiredKept == flags
ResetFinalizationRequired == flags \ {"finalizationRequired"}

CycleEnd(w) ==
    /\ pc[w] = "cycleEnd"
    /\ IF "finalizationRequired" \in flags
       THEN /\ flags' = ResetFinalizationRequired
            /\ wakeups' = wakeups + 1
       ELSE UNCHANGED <<flags, wakeups>>
    /\ Goto(w, "done")
    /\ UNCHANGED <<shard, cursor, claimed, copied, scanned, options, state, referent,
                   rlink, flink, refList, refPrior, refBuf, finRefBuf, finRefQueue,
                   unfinList, unfinPrior, unfinBuf, finObjBuf, finObjQueue, roots,
                   origin, strong, visited, weakRoot>>

(* The cycle is over once every worker has left cycleEnd.                  *)
CycleOver == \A w \in Workers : pc[w] = "done"
Terminated == CycleOver /\ UNCHANGED vars

-----------------------------------------------------------------------------
Worker(w) ==
    \/ StartUnfinalizedProcessing(w)
    \/ ScanRoots(w)
    \/ ScanObject(w)
    \/ FlushForWaitState(w)
    \/ \E k \in Kinds : \/ ScanReferenceObjects(w, k)
                        \/ ClaimReferenceShard(w, k)
                        \/ ProcessReference(w, k)
                        \/ FinishReferenceList(w, k)
    \/ WeakReferencesComplete(w)
    \/ ScanUnfinalizedObjects(w)
    \/ ClaimUnfinalizedShard(w)
    \/ ScavengeUnfinalizedObject(w)
    \/ FinishUnfinalizedList(w)
    \/ FlushUnfinalizedBuffers(w)
    \/ UnfinalizedObjectsComplete(w)
    \/ PhantomReferencesComplete(w)
    \/ \E t \in WeakTables : ScanWeakRootTable(w, t)
    \/ CycleEnd(w)

Rendezvous ==
    \/ \E d \in Drains : DrainComplete(d)
    \/ ScanClearable
    \/ \E b \in DOMAIN AfterSync : Synchronize(b)
    \/ ClearPhantomElected

Next == (\E w \in Workers : Worker(w)) \/ Rendezvous \/ Terminated

(* GC worker threads run until the cycle is done: each is weakly fair, and *)
(* so is the release of a rendezvous once everybody has arrived.           *)
Fairness == (\A w \in Workers : WF_vars(Worker(w))) /\ WF_vars(Rendezvous)

Spec == Init /\ [][Next]_vars /\ Fairness

-----------------------------------------------------------------------------
(* Properties.                                                             *)

TypeOK ==
    /\ pc \in [Workers -> Labels]
    /\ shard \in [Workers -> Shards]
    /\ cursor \in [Workers -> Obj \cup {Null}]
    /\ copied \subseteq Obj /\ scanned \subseteq copied
    /\ flags \subseteq Flags
    /\ options \subseteq Range(ClearOption)
    /\ state \in [Refs -> {"initial", "cleared", "enqueued"}]
    /\ referent \in [Refs -> Ptrs]
    /\ rlink \in [Refs -> Refs \cup {Null}]
    /\ flink \in [Unfinalized -> Unfinalized \cup {Null}]
    /\ refList \in [Kinds -> [Shards -> Refs \cup {Null}]]
    /\ refBuf \in [Workers -> Seq(Refs)] /\ finRefBuf \in [Workers -> Seq(Refs)]
    /\ unfinList \in [Shards -> Unfinalized \cup {Null}]
    /\ unfinBuf \in [Workers -> Seq(Unfinalized)]
    /\ finObjBuf \in [Workers -> Seq(Unfinalized)]
    /\ {finRefQueue, finObjQueue} \subseteq Obj \cup {Null}
    /\ wakeups \in Nat
    /\ weakRoot \in [WeakSlots -> Ptrs \cup {Removed}]

(* The lists that hold objects at a given moment: the region lists, each   *)
(* worker's buffers, the rest of the prior list a worker is walking, the   *)
(* prior unfinalized lists nobody has claimed yet, and the global lists.   *)
RefHeads ==
    [id \in ({"list"} \X Kinds \X Shards) \cup ({"buffer", "finalizable", "walk"} \X Workers)
            \cup {<<"queue">>} |->
        CASE id[1] = "list" -> refList[id[2]][id[3]]
          [] id[1] = "buffer" -> HeadOr(refBuf[id[2]])
          [] id[1] = "finalizable" -> HeadOr(finRefBuf[id[2]])
          [] id[1] = "walk" -> IF pc[id[2]] \in Range(WalkAt) THEN cursor[id[2]] ELSE Null
          [] OTHER -> finRefQueue]
FinalizeHeads ==
    [id \in ({"list", "prior"} \X Shards) \cup ({"buffer", "finalizable", "walk"} \X Workers)
            \cup {<<"queue">>} |->
        CASE id[1] = "list" -> unfinList[id[2]]
          [] id[1] = "prior" -> IF <<"unfinalized", id[2]>> \in claimed THEN Null
                                ELSE unfinPrior[id[2]]
          [] id[1] = "buffer" -> HeadOr(unfinBuf[id[2]])
          [] id[1] = "finalizable" -> HeadOr(finObjBuf[id[2]])
          [] id[1] = "walk" -> IF pc[id[2]] = "unfinalizedWalk" THEN cursor[id[2]] ELSE Null
          [] OTHER -> finObjQueue]
Partitioned(heads, link) ==
    \A a, b \in DOMAIN heads :
        /\ IsInjective(Chain(heads[a], link))
        /\ a # b => ToSet(Chain(heads[a], link)) \cap ToSet(Chain(heads[b], link)) = {}

(* No object is on two lists, no list has a cycle, and every buffer's      *)
(* links spell out exactly what it holds: adds, flushes, snapshots and the *)
(* walks that relink objects while following the same link field never    *)
(* lose the chain or splice two lists together (spec invariants (c), (d)). *)
ListsWellFormed ==
    /\ Partitioned(RefHeads, rlink)
    /\ Partitioned(FinalizeHeads, flink)
    /\ \A w \in Workers :
         /\ Chain(HeadOr(refBuf[w]), rlink) = refBuf[w]
         /\ Chain(HeadOr(finRefBuf[w]), rlink) = finRefBuf[w]
         /\ Chain(HeadOr(unfinBuf[w]), flink) = unfinBuf[w]
         /\ Chain(HeadOr(finObjBuf[w]), flink) = finObjBuf[w]

(* At the end of the cycle every surviving reference object's referent is *)
(* NULL or a survivor address: discovery, the kind flags, the buffer       *)
(* flushes, the snapshots, the forwarding rewrite of processReferenceList  *)
(* and the clear options set before each resurrecting drain together leave *)
(* no referent pointing into evacuate space.                               *)
ReferentsResolved ==
    CycleOver => \A r \in Refs \cap copied : ~IsInEvacuate(referent[r])

(* A weak or soft reference processed in the clearing phase keeps its     *)
(* referent exactly when the strong scan copied it: harvesting finalizable *)
(* objects (which copies them) must not start before every worker is done *)
(* with soft and weak lists (scanWeakReferencesComplete).                  *)
WeakClearedIffUnreachable ==
    \A r \in visited :
        Kind[r] \in {"weak", "soft"} =>
            (referent[r] = Null <=> origin[r] \notin strong)

(* When the cycle ends the finalize list manager's reference list holds,  *)
(* once each, exactly the queued references the clearing phase cleared.   *)
EnqueuedExactlyOnce ==
    CycleOver =>
        LET q == Chain(finRefQueue, rlink)
        IN  /\ IsInjective(q)
            /\ ToSet(q) = {r \in Queued \cap visited : state[r] = "cleared"}

(* The finalizer master thread is woken once, by one worker, exactly when *)
(* the cycle handed it work.                                               *)
FinalizerWokenOnce ==
    CycleOver =>
        wakeups = IF finRefQueue # Null \/ finObjQueue # Null THEN 1 ELSE 0

(* Every object with a pending finalizer ends the cycle on the unfinalized *)
(* lists or on the finalizable list, and it is on the finalizable list     *)
(* only if the strong scan did not reach it.                               *)
UnfinalizedConserved ==
    CycleOver =>
        \A o \in Unfinalized :
            LET onLists == \E s \in Shards : o \in ToSet(Chain(unfinList[s], flink))
                harvested == o \in ToSet(Chain(finObjQueue, flink))
            IN  /\ onLists \/ harvested
                /\ harvested => o \notin strong

(* Every object copied in the cycle has been scanned when it ends: each    *)
(* step that resurrects objects is followed by a drain.                    *)
CopiedObjectsScanned == CycleOver => copied \subseteq scanned

(* Weak roots (doMonitorReference, doJNIWeakGlobalReference,              *)
(* doJVMTIObjectTagSlot after phantom processing): a monitor is never      *)
(* destroyed, nor a JNI weak global or JVMTI tag slot cleared, for an      *)
(* object that is copied at any point of the cycle, including copies made  *)
(* by finalization and phantom resurrection and the drains after them; and *)
(* when the cycle is over every slot follows its object to its copy, or    *)
(* the slot is removed (monitor) or NULL (JNI weak, JVMTI tag).            *)
WeakRootsResolved ==
    \A s \in WeakSlots :
        LET o == WeakRootInit[s].obj
        IN  /\ weakRoot[s] \in {Null, Removed} => o \notin copied
            /\ CycleOver => weakRoot[s] = IF o \in copied THEN Ptr(o, "survivor")
                                          ELSE IF WeakRootInit[s].table = "monitor"
                                               THEN Removed ELSE Null

(* Every worker gets through every barrier and drain: the cycle ends.      *)
CycleTerminates == <>CycleOver

-----------------------------------------------------------------------------
(* Refinement: the reference objects' referent slots, their cleared state  *)
(* and the set of copied objects behave as ReferenceFate allows.           *)
Fate == INSTANCE ReferenceFate WITH
            Objects <- Obj,
            slot <- referent,
            cleared <- [r \in Refs |-> state[r] # "initial"],
            live <- copied

(* Every step of the cycle (discovery at scan time, clearing under the     *)
(* clear options, processReferenceList, legacy phantom keeping, copying)   *)
(* is a step of ReferenceFate: a slot only follows its own object to a     *)
(* copy that exists, a reference is cleared at most once, and a nulled     *)
(* slot is never restored.                                                 *)
ReferenceFateRefined == Fate!Spec

=============================================================================
