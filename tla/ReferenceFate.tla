--------------------------- MODULE ReferenceFate ---------------------------
(***************************************************************************)
(* What reference processing promises about each reference object during  *)
(* one collection cycle, whatever the workers, lists and buffers do:       *)
(*                                                                         *)
(*   objects, once copied, stay copied;                                    *)
(*   a referent slot changes only to follow its own object to the copy,   *)
(*     and only once that object has been copied; or the reference is      *)
(*     cleared, once, which nulls the slot (or, for a phantom reference    *)
(*     kept alive in Java 8 semantics, follows the referent to its copy);  *)
(*   a nulled slot is never restored, a cleared reference never reverts.  *)
(*                                                                         *)
(* EvacuatorClearing is shown to implement this specification.            *)
(***************************************************************************)
CONSTANTS Refs, Objects, Null

Old(o) == [obj |-> o, space |-> "evacuate"]
New(o) == [obj |-> o, space |-> "survivor"]
Addresses == {Null} \cup {Old(o) : o \in Objects} \cup {New(o) : o \in Objects}

VARIABLES
    slot,       \* [Refs -> Addresses]: each reference's referent slot
    cleared,    \* [Refs -> BOOLEAN]: the reference has been cleared
    live        \* objects copied so far

vars == <<slot, cleared, live>>

Init ==
    /\ slot \in [Refs -> {Null} \cup {Old(o) : o \in Objects}]
    /\ cleared = [r \in Refs |-> FALSE]
    /\ live = {}

(* The slot follows its referent to the copy, which exists after the step. *)
Follows(r) == \E o \in live' : slot[r] = Old(o) /\ slot'[r] = New(o)

(* What may happen to one reference in a step.                             *)
Unchanged(r) == slot'[r] = slot[r] /\ cleared'[r] = cleared[r]
Follow(r) == Follows(r) /\ cleared'[r] = cleared[r]
Clear(r) == /\ ~cleared[r] /\ cleared'[r]
            /\ slot'[r] = Null \/ Follows(r)

(* Any number of references may change in one step, together with copies  *)
(* of any number of objects.                                               *)
Step ==
    /\ live \subseteq live' /\ live' \subseteq Objects
    /\ \A r \in Refs : Unchanged(r) \/ Follow(r) \/ Clear(r)
    /\ slot' \in [Refs -> Addresses] /\ cleared' \in [Refs -> BOOLEAN]

Spec == Init /\ [][Step]_vars

====
