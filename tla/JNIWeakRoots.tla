---------------------------- MODULE JNIWeakRoots ----------------------------
(***************************************************************************)
(* The JNI weak global reference table over a sequence of evacuator       *)
(* cycles, in a VM that may have concurrent scavenge enabled.             *)
(*                                                                         *)
(* cycleStart constructs a fresh root scanner (and with it a root         *)
(* clearer); both set _jniWeakGlobalReferencesTableAsRoot to              *)
(* isConcurrentScavengerEnabled(). As their comments describe, the flag   *)
(* makes MM_RootScanner scan the table as a hard root in scanRoots and    *)
(* skip it in scanClearable. The evacuator's overrides add a second test: *)
(* the root scanner scans it only while a concurrent cycle is in progress *)
(* and the clearer only while none is.                                     *)
(*                                                                         *)
(* An address is [obj, ver]: a copy gives the object a new address         *)
(* version, so a slot left holding an earlier version is stale.           *)
(***************************************************************************)
EXTENDS Naturals, FiniteSets

CONSTANTS
    Slots,                      \* JNI weak global reference slots
    Objects,                    \* heap objects
    Null,
    Tenured,                    \* objects outside the nursery (never moved)
    Configs,                    \* VM configurations: [enabled, interlaced] records
    MaxCycles                   \* number of cycles explored

ASSUME /\ Null \notin Objects /\ Tenured \subseteq Objects
       /\ Configs \subseteq [enabled : BOOLEAN, interlaced : BOOLEAN] /\ MaxCycles \in Nat

(* isConcurrentInProgress() is TRUE in a concurrent cycle; with concurrent *)
(* scavenge enabled, stop-the-world cycles may still be interlaced         *)
(* (the comment at EvacuatorRootScanner.cpp:101-106).                      *)
(* A configuration gives isConcurrentScavengerEnabled() and whether such  *)
(* stop-the-world cycles occur.                                            *)
CycleKinds(cfg) == IF ~cfg.enabled THEN {"stw"}
                   ELSE IF cfg.interlaced THEN {"concurrent", "stw"} ELSE {"concurrent"}

Ptr(o, v) == [obj |-> o, ver |-> v]
Ptrs == {Null} \cup {Ptr(o, v) : o \in Objects, v \in 0..MaxCycles}

VARIABLES
    config,         \* the VM's configuration, fixed at startup
    phase,          \* "mutator" between cycles, "roots", "clearable" in one
    cycles,         \* cycles started so far
    inProgress,     \* isConcurrentInProgress() for the running cycle
    rootTableAsRoot,    \* the root scanner's _jniWeakGlobalReferencesTableAsRoot
    clearerTableAsRoot, \* the root clearer's _jniWeakGlobalReferencesTableAsRoot
    cycleCleared,   \* MM_EvacuatorDelegate::_cycleCleared
    ver,            \* [Objects -> Nat]: version of each object's current address
    freed,          \* objects that died in an earlier cycle
    evac,           \* nursery objects being evacuated in this cycle
    copied,         \* those forwarded so far in this cycle
    reachable,      \* objects the mutator holds strongly in this cycle
    slot            \* [Slots -> Ptrs]: the table

vars == <<config, phase, cycles, inProgress, rootTableAsRoot, clearerTableAsRoot, cycleCleared, ver, freed,
          evac, copied, reachable, slot>>

Live == Objects \ freed
Current(o) == Ptr(o, ver[o])

Init ==
    /\ config \in Configs
    /\ phase = "mutator" /\ cycles = 0
    /\ inProgress = FALSE /\ cycleCleared = FALSE
    /\ rootTableAsRoot = FALSE /\ clearerTableAsRoot = FALSE
    /\ ver = [o \in Objects |-> 0]
    /\ freed = {} /\ evac = {} /\ copied = {} /\ reachable = {}
    /\ slot \in [Slots -> {Null} \cup {Current(o) : o \in Objects}]

-----------------------------------------------------------------------------
(* NewWeakGlobalRef / DeleteWeakGlobalRef between cycles.                  *)
MutatorSetSlot(s) ==
    /\ phase = "mutator"
    /\ \E p \in {Null} \cup {Current(o) : o \in Live} : slot' = [slot EXCEPT ![s] = p]
    /\ UNCHANGED <<config, phase, cycles, inProgress, rootTableAsRoot, clearerTableAsRoot,
                   cycleCleared, ver, freed, evac, copied, reachable>>

(* The root scanner's constructor: the table is a hard root whenever       *)
(* concurrent scavenge is enabled (the VM reads it without a barrier).     *)
JniWeakTableAsRoot == config.enabled
(* The root clearer's constructor: the clearable phase may skip the table  *)
(* whenever concurrent scavenge is enabled.                                 *)
ClearerJniWeakTableAsRoot == config.enabled

(* MM_EvacuatorDelegate::cycleStart: _cycleCleared is reset and a new root *)
(* scanner (with its root clearer) is constructed, each setting the table  *)
(* flag; the live nursery becomes evacuate space.                          *)
CycleStart ==
    /\ phase = "mutator" /\ cycles < MaxCycles
    /\ \E k \in CycleKinds(config), r \in SUBSET Live :
         /\ inProgress' = (k = "concurrent")
         /\ reachable' = r
    /\ rootTableAsRoot' = JniWeakTableAsRoot
    /\ clearerTableAsRoot' = ClearerJniWeakTableAsRoot
    /\ cycleCleared' = FALSE
    /\ evac' = Live \ Tenured
    /\ copied' = {}
    /\ cycles' = cycles + 1
    /\ phase' = "roots"
    /\ UNCHANGED <<config, ver, freed, slot>>

(* isInEvacuate for an address: the pre-copy address of a nursery object. *)
IsInEvacuate(p) == p # Null /\ p.obj \in evac /\ p.ver = ver[p.obj] - (IF p.obj \in copied THEN 1 ELSE 0)
Forwarded(p) == IF p.obj \in copied THEN Current(p.obj) ELSE Null

(* MM_EvacuatorRootScanner::doSlot, evacuateRootObject: the object is      *)
(* copied unless it was already, and the slot takes the new address.      *)
EvacuateRoot(p) == IF IsInEvacuate(p) THEN Ptr(p.obj, ver[p.obj] + (IF p.obj \in copied THEN 0 ELSE 1)) ELSE p

(* Mutant: the override's in-progress test is inverted.                   *)
ScansTableAsRootInverted == rootTableAsRoot /\ ~inProgress
(* MM_EvacuatorRootScanner::scanJNIWeakGlobalReferences: the table is     *)
(* scanned (as a hard root) only while a concurrent cycle is in progress. *)
ScansTableAsRoot == rootTableAsRoot /\ inProgress

(* scanRoots: the strong roots (the mutator's reachable objects) are      *)
(* evacuated, and with the table as a hard root each slot through doSlot. *)
ScanRoots ==
    LET held == IF ScansTableAsRoot THEN {slot[s].obj : s \in {s \in Slots : IsInEvacuate(slot[s])}}
                ELSE {}
        moved == ((reachable \cap evac) \cup held) \ copied
    IN  /\ phase = "roots"
        /\ copied' = copied \cup moved
        /\ ver' = [o \in Objects |-> IF o \in moved THEN ver[o] + 1 ELSE ver[o]]
        /\ slot' = IF ScansTableAsRoot THEN [s \in Slots |-> EvacuateRoot(slot[s])] ELSE slot
        /\ phase' = "clearable"
        /\ UNCHANGED <<config, cycles, inProgress, rootTableAsRoot, clearerTableAsRoot, cycleCleared, freed, evac, reachable>>

(* Mutant: the slot is left alone when its object was not copied.          *)
DoJNIWeakGlobalReferenceKeep(p) == IF IsInEvacuate(p) /\ p.obj \in copied THEN Forwarded(p) ELSE p
(* doJNIWeakGlobalReference: a slot in evacuate space takes the forwarding *)
(* address, NULL if the object was not copied.                             *)
DoJNIWeakGlobalReference(p) == IF IsInEvacuate(p) THEN Forwarded(p) ELSE p

(* The clearing stage reaches the clearer's scanJNIWeakGlobalReferences    *)
(* only without the flag, and that visits the table only when no          *)
(* concurrent cycle is in progress.                                        *)
ClearerScansTable == ~clearerTableAsRoot /\ ~inProgress

(* hasClearable(): scanClearable has not run in this cycle yet.            *)
HasClearable == ~cycleCleared

(* MM_EvacuatorDelegate::scanClearable (the controller calls it while      *)
(* hasClearable()), then the end of the cycle: uncopied nursery objects    *)
(* are dead.                                                               *)
ScanClearable ==
    /\ phase = "clearable" /\ HasClearable
    /\ slot' = IF ClearerScansTable THEN [s \in Slots |-> DoJNIWeakGlobalReference(slot[s])]
               ELSE slot
    /\ cycleCleared' = TRUE
    /\ freed' = freed \cup (evac \ copied)
    /\ evac' = {}
    /\ copied' = {}
    /\ phase' = "mutator"
    /\ UNCHANGED <<config, cycles, inProgress, rootTableAsRoot, clearerTableAsRoot, ver, reachable>>

Done == phase = "mutator" /\ cycles = MaxCycles
Terminated == Done /\ UNCHANGED vars

Next == \/ \E s \in Slots : MutatorSetSlot(s)
        \/ CycleStart \/ ScanRoots \/ ScanClearable
        \/ Terminated

Spec == Init /\ [][Next]_vars

-----------------------------------------------------------------------------
(* Between cycles every JNI weak global slot is NULL or holds the current  *)
(* address of a live object: no cycle, concurrent or stop-the-world, ends  *)
(* with a slot still at an evacuated object's old address or at an object *)
(* that died.                                                              *)
JNIWeakSlotsCurrent ==
    phase = "mutator" =>
        \A s \in Slots : slot[s] = Null \/ (slot[s].obj \notin freed /\ slot[s] = Current(slot[s].obj))

====
