--------------------------- MODULE MC_JNIWeakRoots ---------------------------
(***************************************************************************)
(* Two JNI weak global slots, nursery objects a and b and a tenured t,    *)
(* three cycles: enough for a slot to be forwarded in one cycle, cleared   *)
(* or re-set by the mutator, and forwarded again in the next.             *)
(***************************************************************************)
EXTENDS JNIWeakRoots

CONSTANTS j1, j2, a, b, t

MCSlots == {j1, j2}
MCObjects == {a, b, t}
(* Without concurrent scavenge, and with it when every cycle is concurrent. *)
MCSupported == {[enabled |-> FALSE, interlaced |-> FALSE], [enabled |-> TRUE, interlaced |-> FALSE]}
(* Concurrent scavenge with stop-the-world cycles interlaced.              *)
MCInterlaced == {[enabled |-> TRUE, interlaced |-> TRUE]}

====
