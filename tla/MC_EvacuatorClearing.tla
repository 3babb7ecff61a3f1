----------------------- MODULE MC_EvacuatorClearing -----------------------
(***************************************************************************)
(* Two workers and two list indices. Weak references r1 and r2 and a       *)
(* phantom reference r3, all with a queue; a plain object x whose field    *)
(* points at f, and f, an object with a pending finalizer whose field      *)
(* points at r3. Each behaviour picks the roots among RootChoices and each *)
(* referent among ReferentChoices (or NULL).                               *)
(***************************************************************************)
EXTENDS EvacuatorClearing, TLC

CONSTANTS w1, w2, r1, r2, r3, f, g, x

MCWorkers == {w1, w2}
MCShards == 1..2
MCRefs == {r1, r2, r3}
MCKind == [r \in MCRefs |-> IF r = r3 THEN "phantom" ELSE "weak"]
MCSoftKind == [r \in MCRefs |-> IF r = r3 THEN "phantom" ELSE "soft"]
MCEdges == [o \in {r1, r2, r3, f, g, x} |->
              CASE o = f -> {r3} [] o = x -> {f} [] OTHER -> {}]
MCUnfinalizedInit == [s \in MCShards |-> IF s = 1 THEN <<f>> ELSE << >>]
(* Two objects with pending finalizers on one list, f before g.            *)
MCUnfinalizedPair == [s \in MCShards |-> IF s = 1 THEN <<f, g>> ELSE << >>]

(* A monitor on x, a JNI weak global reference to f and a JVMTI tag on r3: *)
(* x lives only if it is a root, f is resurrected by finalization, and r3  *)
(* is reached only through f.                                              *)
MCWeakSlots == {"m", "j", "t"}
MCWeakRootInit == [s \in MCWeakSlots |->
                     CASE s = "m" -> [table |-> "monitor", obj |-> x]
                       [] s = "j" -> [table |-> "jniWeak", obj |-> f]
                       [] OTHER -> [table |-> "jvmtiTag", obj |-> r3]]

(* The workers run the same code and are told apart by nothing else.     *)
WorkerSymmetry == Permutations(MCWorkers)

=============================================================================
