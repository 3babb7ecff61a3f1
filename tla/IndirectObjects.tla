-------------------------- MODULE IndirectObjects --------------------------
(***************************************************************************)
(* Objects a class object reaches only through its J9Class: the static     *)
(* slots and the class object of every class in the replacedClass chain   *)
(* (EvacuatorDelegate::scanIndirectObjects and                             *)
(* objectHasIndirectObjectsInNursery). When a tenured class object is      *)
(* scanned, scanIndirectObjects evacuates each of them and reports whether *)
(* the class object must stay remembered; objectHasIndirectObjectsInNursery *)
(* is asked later whether it still reaches the nursery.                    *)
(***************************************************************************)
EXTENDS Naturals, Sequences, FiniteSets, SequencesExt

CONSTANTS
    Classes,        \* J9Class structures of the scanned class objects
    Objects,        \* heap objects held by statics and class object slots
    Null,
    ReplacedClass,  \* [Classes -> Classes \cup {Null}]: replacedClass links, acyclic
    ClassObject,    \* [Classes -> Objects]
    Statics,        \* [Classes -> SUBSET Objects]: the non-NULL static slots
    Scannable       \* classes whose class object the evacuator scans

ASSUME /\ Null \notin Classes \cup Objects /\ Scannable \subseteq Classes
       /\ ReplacedClass \in [Classes -> Classes \cup {Null}]
       /\ ClassObject \in [Classes -> Objects] /\ Statics \in [Classes -> SUBSET Objects]

(* The class and the classes it replaced, newest first.                    *)
RECURSIVE ChainFrom(_, _)
ChainFrom(c, n) == IF c = Null \/ n = 0 THEN << >> ELSE <<c>> \o ChainFrom(ReplacedClass[c], n - 1)
ClassChain(c) == ChainFrom(c, Cardinality(Classes))

VARIABLES
    space,      \* [Objects -> {"evacuate", "survivor", "tenure"}]
    scanned,    \* classes whose indirect objects have been scanned
    remembered  \* those for which scanIndirectObjects returned TRUE

vars == <<space, scanned, remembered>>

Init ==
    /\ space \in [Objects -> {"evacuate", "survivor", "tenure"}]
    /\ scanned = {}
    /\ remembered = {}

-----------------------------------------------------------------------------
(* Mutant: only the class's own statics and class object are visited.      *)
IndirectSlotsNoChain(c) == Statics[c] \cup {ClassObject[c]}
(* scanIndirectObjects: the static slots, then the class object slot, of   *)
(* each class along the replacedClass chain.                               *)
IndirectSlots(c) == UNION {Statics[k] \cup {ClassObject[k]} : k \in Range(ClassChain(c))}

(* evacuateRootObject on every slot: an object in evacuate space is copied *)
(* to survivor or tenure space (the copying engine decides); the result is *)
(* TRUE when the object is in survivor (new) space afterwards.            *)
ScanIndirectObjects(c) ==
    /\ c \in Scannable \ scanned
    /\ \E dest \in [{o \in IndirectSlots(c) : space[o] = "evacuate"} -> {"survivor", "tenure"}] :
         LET space1 == [o \in Objects |-> IF o \in DOMAIN dest THEN dest[o] ELSE space[o]]
         IN  /\ space' = space1
             /\ scanned' = scanned \cup {c}
             /\ remembered' = IF \E o \in IndirectSlots(c) : space1[o] = "survivor"
                              THEN remembered \cup {c} ELSE remembered

Next == \E c \in Classes : ScanIndirectObjects(c)

Spec == Init /\ [][Next]_vars

-----------------------------------------------------------------------------
(* Mutant: a static counts as nursery whenever it is not in evacuate space. *)
HasStaticInNurseryNotEvacuate(c) ==
    \E k \in Range(ClassChain(c)) : \E o \in Statics[k] : space[o] # "evacuate"
(* The statics loop of objectHasIndirectObjectsInNursery over the chain.   *)
HasStaticInNursery(c) == \E k \in Range(ClassChain(c)) : \E o \in Statics[k] : space[o] = "survivor"

(* objectHasIndirectObjectsInNursery: the class's own class object, then   *)
(* the statics of every class in the chain, in survivor space.            *)
ObjectHasIndirectObjectsInNursery(c) ==
    space[ClassObject[c]] = "survivor" \/ HasStaticInNursery(c)

(* Reference definition: every object held by a static or a class object  *)
(* slot of a class the given class replaced, directly or not.             *)
RECURSIVE Replaced(_, _)
Replaced(c, n) == IF c = Null \/ n = 0 THEN {} ELSE {c} \cup Replaced(ReplacedClass[c], n - 1)
ReachedIndirectly(c) ==
    {ClassObject[k] : k \in Replaced(c, Cardinality(Classes))}
        \cup UNION {Statics[k] : k \in Replaced(c, Cardinality(Classes))}

(* After scanIndirectObjects no object the class reaches indirectly is     *)
(* left in evacuate space (objectHasIndirectObjectsInNursery asserts it),  *)
(* and a class that objectHasIndirectObjectsInNursery says still reaches   *)
(* the nursery was reported as one to keep remembered.                     *)
IndirectScanSound ==
    \A c \in scanned :
        /\ \A o \in ReachedIndirectly(c) : space[o] # "evacuate"
        /\ ObjectHasIndirectObjectsInNursery(c) => c \in remembered

====
