------------------------- MODULE FinalizationCycles -------------------------
(***************************************************************************)
(* The finalize list manager's lists across several evacuator cycles: the *)
(* composition of the relink of earlier cycles' finalizable objects       *)
(* (FinalizableRelink, run in the root scan), the harvest of unreachable  *)
(* unfinalized objects onto those lists (scavengeUnfinalizedObjects, in   *)
(* the clearing phase), and the finalizer thread taking objects off them  *)
(* between cycles.                                                         *)
(*                                                                         *)
(* Nothing but the lists holds a queued object, so the relink is what     *)
(* keeps it alive from one cycle to the next; between cycles a nursery    *)
(* object's address is in survivor space, and the next cycle's flip makes *)
(* that evacuate space.                                                    *)
(***************************************************************************)
EXTENDS Naturals, Sequences, FiniteSets, SequencesExt

CONSTANTS
    Workers,        \* GC worker threads
    Objects,        \* objects with a finalize method
    Null,
    Tenured,        \* objects outside the nursery
    SystemLoaded,   \* objects whose class the system class loader loaded
    MaxCycles       \* number of cycles explored

ASSUME /\ Null \notin Objects /\ Tenured \subseteq Objects /\ SystemLoaded \subseteq Objects
       /\ MaxCycles \in Nat

VARIABLES
    pc, flags, cursor, buffer, lists, link, copied, failed, \* as in FinalizableRelink
    phase,      \* "mutator" between cycles; "roots", "clearing", "end" in one
    state,      \* [Objects -> {"unfinalized", "queued", "finalized", "freed"}]
    cycles      \* cycles started so far

relinkVars == <<pc, flags, cursor, buffer, lists, link, copied, failed>>
vars == <<relinkVars, phase, state, cycles>>

(* The relink of one cycle, with copies that succeed (a failed cycle is    *)
(* backed out outside this code).                                          *)
Relink == INSTANCE FinalizableRelink
            WITH FinalizableInit <- [k \in {"system", "default", "reference"} |-> << >>],
                 EvacuationMayFail <- FALSE

Kinds == Relink!Kinds
Ptr(o, sp) == Relink!Ptr(o, sp)

(* Where an object is between cycles: a nursery survivor is in survivor    *)
(* space, which the next cycle's flip turns into evacuate space.           *)
Home(o) == Ptr(o, IF o \in Tenured THEN "tenure" ELSE "survivor")
Flip(p) == IF p # Null /\ p.space = "survivor" THEN Ptr(p.obj, "evacuate") ELSE p

(* GC_FinalizableObjectBuffer::add: the list an object goes on, by the     *)
(* class loader of its class.                                              *)
HarvestList(o) == IF o \in SystemLoaded THEN "system" ELSE "default"

(* Objects pushed on the lists, in some order per list, the first pushed   *)
(* last; the head and the links that buffer.add and buffer.flush leave.    *)
Pushed(S) == [k \in Kinds |-> SetToSeq({o \in S : HarvestList(o) = k})]
NewHead(q, k, old) == IF q[k] = << >> THEN old ELSE Home(q[k][1])
NewLink(q, o, old) ==
    LET s == q[HarvestList(o)]
        i == CHOOSE i \in 1..Len(s) : s[i] = o
    IN  IF i < Len(s) THEN Home(s[i + 1]) ELSE old

Queued == {o \in Objects : state[o] = "queued"}

(* The VM starts with no object finalizable, except tenured objects that a *)
(* global collection has already queued.                                    *)
Init ==
    LET q == Pushed(Tenured) IN
    /\ pc = [w \in Workers |-> "roots"]
    /\ flags = {} /\ cursor = Null /\ buffer = << >>
    /\ copied = {} /\ failed = {}
    /\ lists = [k \in Kinds |-> NewHead(q, k, Null)]
    /\ link = [o \in Objects |-> IF o \in Tenured THEN NewLink(q, o, Null) ELSE Null]
    /\ state = [o \in Objects |-> IF o \in Tenured THEN "queued" ELSE "unfinalized"]
    /\ phase = "mutator" /\ cycles = 0

-----------------------------------------------------------------------------
(* Mutant: only the default list is consulted.                             *)
FinalizableProcessingRequiredDefaultOnly == lists["default"] # Null
(* prepareForEvacuation: shouldScavengeFinalizableObjects is set when the  *)
(* finalize list manager holds any object (isFinalizableObjectProcessing-  *)
(* Required).                                                              *)
FinalizableProcessingRequired == \E k \in Kinds : lists[k] # Null

(* A cycle starts: the survivor space becomes evacuate space, the mutator's *)
(* strong roots and what they reach (any object not yet dead, a queued one *)
(* included) are copied before the finalizable roots, and the evacuator    *)
(* flags are computed.                                                      *)
CycleStart ==
    /\ phase = "mutator" /\ cycles < MaxCycles
    /\ \E r \in SUBSET {o \in Objects : state[o] # "freed"} : copied' = r \ Tenured
    /\ lists' = [k \in Kinds |-> Flip(lists[k])]
    /\ link' = [o \in Objects |-> Flip(link[o])]
    /\ flags' = IF FinalizableProcessingRequired THEN {"shouldScavengeFinalizableObjects"} ELSE {}
    /\ pc' = [w \in Workers |-> "finalizable"]
    /\ cursor' = Null /\ buffer' = << >> /\ failed' = {}
    /\ phase' = "roots" /\ cycles' = cycles + 1
    /\ UNCHANGED state

(* scanFinalizableObjects in the root scan: one step of FinalizableRelink. *)
RelinkStep(w) ==
    /\ phase = "roots"
    /\ \/ Relink!ScanFinalizableObjects(w) \/ Relink!Elect(w) \/ Relink!ScavengeFinalizableObject(w)
       \/ \E k \in Kinds : Relink!ResetList(w, k) \/ Relink!FlushFinalizableBuffer(w, k)
    /\ UNCHANGED <<phase, state, cycles>>

(* Every worker has left scanFinalizableObjects; the heap is evacuated.    *)
RootsDone ==
    /\ phase = "roots" /\ Relink!Done
    /\ phase' = "clearing"
    /\ UNCHANGED <<relinkVars, state, cycles>>

(* scavengeUnfinalizedObjects: every unfinalized nursery object that is    *)
(* not forwarded is copied and pushed, at its new address, on the local    *)
(* finalizable buffer, which is flushed to the manager's lists; forwarded  *)
(* ones stay unfinalized.                                                  *)
ScavengeUnfinalizedObjects ==
    LET h == {o \in Objects \ Tenured : state[o] = "unfinalized" /\ o \notin copied}
        q == Pushed(h)
    IN  /\ phase = "clearing"
        /\ copied' = copied \cup h
        /\ state' = [o \in Objects |-> IF o \in h THEN "queued" ELSE state[o]]
        /\ lists' = [k \in Kinds |-> NewHead(q, k, lists[k])]
        /\ link' = [o \in Objects |-> IF o \in h THEN NewLink(q, o, lists[HarvestList(o)]) ELSE link[o]]
        /\ phase' = "end"
        /\ UNCHANGED <<pc, flags, cursor, buffer, failed, cycles>>

(* The end of the cycle: nursery objects that were not copied are dead.    *)
CycleEnd ==
    /\ phase = "end"
    /\ state' = [o \in Objects |-> IF o \notin Tenured /\ o \notin copied THEN "freed" ELSE state[o]]
    /\ phase' = "mutator"
    /\ UNCHANGED <<relinkVars, cycles>>

(* The finalizer thread takes the head of a list and runs its finalizer.   *)
RunFinalizer(k) ==
    /\ phase = "mutator" /\ lists[k] # Null
    /\ lists' = [lists EXCEPT ![k] = link[lists[k].obj]]
    /\ link' = [link EXCEPT ![lists[k].obj] = Null]
    /\ state' = [state EXCEPT ![lists[k].obj] = "finalized"]
    /\ UNCHANGED <<pc, flags, cursor, buffer, copied, failed, phase, cycles>>

Done == phase = "mutator" /\ cycles = MaxCycles
Terminated == Done /\ UNCHANGED vars

Next == \/ CycleStart \/ \E w \in Workers : RelinkStep(w)
        \/ RootsDone \/ ScavengeUnfinalizedObjects \/ CycleEnd
        \/ \E k \in Kinds : RunFinalizer(k)
        \/ Terminated

Spec == Init /\ [][Next]_vars

-----------------------------------------------------------------------------
(* Between cycles the finalize list manager's lists hold, once each and    *)
(* without a cycle, exactly the objects whose finalizer is still to run,   *)
(* each at its current address: the relink in the root scan, the harvest  *)
(* in the clearing phase and the finalizer thread, over several cycles,    *)
(* neither lose a queued object to the end of a cycle nor leave an entry   *)
(* at an evacuated object's old address.                                   *)
FinalizableQueueIntact ==
    phase = "mutator" =>
        LET chain(k) == Relink!Chain(lists[k])
            entries == UNION {Range(chain(k)) : k \in Kinds}
        IN  /\ \A k \in Kinds : IsInjective(chain(k))
            /\ \A k1, k2 \in Kinds : k1 # k2 => Range(chain(k1)) \cap Range(chain(k2)) = {}
            /\ \A p \in entries : p = Home(p.obj)
            /\ {p.obj : p \in entries} = Queued

====
