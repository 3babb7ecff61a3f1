----------------------- MODULE MC_FinalizationCycles -----------------------
(***************************************************************************)
(* Two workers; nursery objects a (system class loader) and b (another     *)
(* class loader), and a tenured object t that a global collection has      *)
(* queued; three cycles.                                                   *)
(***************************************************************************)
EXTENDS FinalizationCycles, TLC

CONSTANTS w1, w2, a, b, t

MCWorkers == {w1, w2}
MCObjects == {a, b, t}

====
