----------------------- MODULE MC_OwnableSyncRebuild -----------------------
(***************************************************************************)
(* Two workers; nursery synchronizers a and b registered and c under       *)
(* construction; t on the tenure region's list and scanned from a root     *)
(* context. Each behaviour picks each nursery object's fate.               *)
(***************************************************************************)
EXTENDS OwnableSyncRebuild, TLC

CONSTANTS w1, w2, a, b, c, t

MCWorkers == {w1, w2}
WorkerSymmetry == Permutations(MCWorkers)

=============================================================================
